--------------------------------- MODULE RLP ---------------------------------
(***************************************************************************)
(* The codec of libraries/rlp at work: a stream over some input on which   *)
(* the methods of Stream are called in any order, as the hand-written      *)
(* DecodeRLP methods of the code base do.  The input is either a short     *)
(* byte string, valid or not, or the encoding of an item: a type and a     *)
(* value of it.                                                            *)
(***************************************************************************)
EXTENDS RLPStream

CONSTANTS Alphabet,   \* the bytes of the short inputs
          MaxLen,     \* their greatest length
          Long        \* the lengths of the long strings in the items

ASSUME BytesAssumption == Alphabet \subseteq 0..255 /\ MaxLen \in 0..4

VARIABLES input,      \* the bytes given to the stream
          started,    \* a method of the stream has been called
          s           \* the stream

codecvars == <<input, started, s>>

-----------------------------------------------------------------------------
(* Types and items                                                         *)

Iface == [k |-> "iface"]
RawT == [k |-> "raw"]
Big == [k |-> "big"]
Uint(bits) == [k |-> "uint", bits |-> bits]
BoolT == [k |-> "bool"]
Str == [k |-> "string"]
Hash2 == [k |-> "bytearray", len |-> 2]
Slice(t) == [k |-> "slice", elem |-> t, tail |-> FALSE]
Pair(t) == [k |-> "array", elem |-> t, len |-> 2, tail |-> FALSE]
Ptr(t) == [k |-> "ptr", elem |-> t, nilOK |-> FALSE]
Field(t) == [typ |-> t, tags |-> {}, exported |-> TRUE]
Tagged(t, tag) == [typ |-> t, tags |-> {tag}, exported |-> TRUE]
Struct(decl) == [k |-> "struct", fields |-> structFields(decl).fields]

Inner == Struct(<<Field(Uint(16)), Tagged(Slice(Str), "-"), Field(Str)>>)
WithTail(t) == Struct(<<Field(Uint(16)), Tagged(Slice(t), "tail")>>)

(* The types without optional pointers, which accept two empty values. *)
Types == {Iface, RawT, Big, Uint(8), Uint(16), BoolT, Str, Hash2, Slice(Uint(8)),
          Slice(Slice(Str)), Pair(Str), Inner, Slice(Ptr(Inner)),
          WithTail(BoolT)}

Optional == Struct(<<Tagged(Ptr(Inner), "nil"), Tagged(Ptr(Uint(8)), "nil"), Field(Str)>>)

Fill(n) == [i \in 1..n |-> 200]

Item(t, v) == [typ |-> t, val |-> v]

Items ==
    {Item(Str, <<b>>) : b \in {0, 127, 128, 255}}
      \cup {Item(Str, Fill(n)) : n \in Long}
      \cup {Item(Uint(64), i) : i \in {0, 1, 127, 128, 255, 256, 65536}}
      \cup {Item(Big, i) : i \in {0, 127, 128, 256}}
      \cup {Item(BoolT, b) : b \in BOOLEAN}
      \cup {Item(Slice(Slice(Str)), <<<<>>, <<Fill(n), <<>>>>, <<>>>>) : n \in Long}
      \cup {Item(Slice(Ptr(Inner)), <<<<<<7, Fill(n)>>>>, <<<<0, <<>>>>>>>>) : n \in Long}
      \cup {Item(WithTail(Str), <<300, <<Fill(n), <<1>>, <<>>>>>>) : n \in Long}
      \cup {Item(Optional, <<p, q, <<9>>>>) : p \in {<<>>, <<<<5, <<>>>>>>}, q \in {<<>>, <<6>>}}
      \cup {Item(Pair(Hash2), <<<<0, 0>>, <<1, 255>>>>), Item(Slice(Hash2), <<>>),
            Item(Struct(<<Field(RawT), Field(Iface), Field(BoolT)>>),
                 <<<<193, 5>>, [k |-> "list", v |-> <<[k |-> "bytes", v |-> <<>>],
                                                      [k |-> "list", v |-> <<>>]>>], TRUE>>)}

(* Sequences of up to MaxLen bytes of the alphabet. *)
ShortInputs == UNION {[1..n -> Alphabet] : n \in 0..MaxLen}

Encoded(i) == EncodeToBytes(i.typ, i.val).out

-----------------------------------------------------------------------------
CodecInit ==
    /\ input \in ShortInputs \cup {Encoded(i) : i \in Items}
    /\ started = FALSE
    /\ s \in {NewStream(input, TRUE), NewStream(input, FALSE), NewListStream(input)}

(* A method returns: the stream it leaves is the next state. *)
Called(res) ==
    /\ s' = res.s
    /\ started' = TRUE
    /\ UNCHANGED input

CodecNext ==
    \/ Called(Kind(s))
    \/ Called(Bytes(s))
    \/ Called(Raw(s))
    \/ \E bits \in {8, 64} : Called(uint(s, bits))
    \/ Called(Bool(s))
    \/ Called(List(s))
    \/ Called(ListEnd(s))
    \/ \E t \in {Iface, Hash2, Slice(Slice(Str)), Inner, Optional} : Called(decoder(t, s))

-----------------------------------------------------------------------------
(* The reference: what the encoding of a value is.  A value is a tree of   *)
(* byte strings and lists, and the encoding of a tree is defined from the  *)
(* encodings of its parts.                                                 *)

Minimal(i) == IF i = 0 THEN <<>> ELSE putint(i)
Leaf(b) == [k |-> "bytes", v |-> b]
Node(q) == [k |-> "list", v |-> q]

RECURSIVE Tree(_, _)
Tree(t, v) ==
    LET elems(e, q) == [i \in 1..Len(q) |-> Tree(e, q[i])]
        part(i) == IF t.fields[i].k = "slice" /\ t.fields[i].tail
                   THEN elems(t.fields[i].elem, v[i]) ELSE <<Tree(t.fields[i], v[i])>>
    IN  CASE t.k \in {"big", "uint"} -> Leaf(Minimal(v))
          [] t.k = "bool" -> Leaf(IF v THEN <<1>> ELSE <<>>)
          [] t.k \in {"string", "bytearray"} -> Leaf(v)
          [] t.k \in {"slice", "array"} -> Node(elems(t.elem, v))
          [] t.k = "struct" -> Node(FlattenSeq([i \in DOMAIN t.fields |-> part(i)]))
          [] t.k = "ptr" /\ v # <<>> -> Tree(t.elem, v[1])
          [] t.k = "ptr" /\ v = <<>> -> IF t.elem.k = "struct" THEN Node(<<>>) ELSE Leaf(<<>>)
          [] t.k = "raw" -> [k |-> "raw", v |-> v]
          [] OTHER -> v

Prefixed(base, b) ==
    IF Len(b) < 56 THEN <<base + Len(b)>> \o b
    ELSE <<base + 55 + Len(Minimal(Len(b)))>> \o Minimal(Len(b)) \o b

RECURSIVE Encoding(_)
Encoding(tree) ==
    CASE tree.k = "raw" -> tree.v
      [] tree.k = "bytes" -> IF Len(tree.v) = 1 /\ tree.v[1] < 128 THEN tree.v
                             ELSE Prefixed(128, tree.v)
      [] OTHER -> Prefixed(192, FlattenSeq([i \in DOMAIN tree.v |-> Encoding(tree.v[i])]))

(* The trees in a byte string by Split alone, or "invalid". *)
RECURSIVE Parsed(_)
Parsed(b) ==
    LET joined(sp, inner, rest) ==
            IF ~inner.ok \/ ~rest.ok THEN [ok |-> FALSE, trees |-> <<>>]
            ELSE [ok |-> TRUE,
                  trees |-> <<IF sp.k = "List" THEN Node(inner.trees) ELSE Leaf(sp.content)>>
                              \o rest.trees]
        from(sp) == IF sp.err # "" THEN [ok |-> FALSE, trees |-> <<>>]
                    ELSE joined(sp, Parsed(IF sp.k = "List" THEN sp.content ELSE <<>>),
                                Parsed(sp.rest))
    IN  IF b = <<>> THEN [ok |-> TRUE, trees |-> <<>>] ELSE from(Split(b))

-----------------------------------------------------------------------------
(* Properties                                                              *)

(* What the buffer of the encoder puts together from its string data and   *)
(* its list headers (encbuf.toBytes) is the encoding the format defines,   *)
(* whatever buffers it is read with (encReader.Read); and decoding it      *)
(* gives the value that was encoded.                                       *)
RoundTrip ==
    ~started =>
        \A i \in Items :
            LET b == Encoded(i)
            IN  b = input /\ s.limited /\ s.kind = "none" =>
                  /\ b = Encoding(Tree(i.typ, i.val))
                  /\ size(writer(i.typ, i.val, reset)) = Len(b)
                  /\ \A n \in {1, 2, 64} :
                        Len(b) < 100 * n => ReadAll(newReader, writer(i.typ, i.val, reset), n) = b
                  /\ DecodeBytes(b, i.typ) = [err |-> "", val |-> i.val]

(* Every value has one encoding: what DecodeBytes accepts for a type       *)
(* encodes to the same bytes again.  And the two decoders agree: Decode    *)
(* into an interface accepts what Split takes apart, with the same value,  *)
(* and CountValues counts the values a stream reads.                       *)
DecodersExact ==
    LET reencodes(t, d) ==
            d.err = "" => EncodeToBytes(t, d.val) = [err |-> FALSE, out |-> input]
        agree(any, split) ==
            /\ (any.err = "") <=> (split.ok /\ Len(split.trees) = 1)
            /\ any.err = "" => split.trees = <<any.val>>
            /\ split.ok => CountValues(input) = [err |-> "", n |-> Len(split.trees)]
            /\ split.ok => /\ (SplitList(input).err = "") <=> (List(s).err = "")
                           /\ (SplitString(input).err = "") <=> (Bytes(s).err = "")
    IN  ~started /\ s.limited /\ s.kind = "none" =>
            /\ Len(input) <= MaxLen => \A t \in Types : reencodes(t, DecodeBytes(input, t))
            /\ agree(DecodeBytes(input, Iface), Parsed(input))

(* Where the values of a valid input are: the places at which one starts   *)
(* or the content of a list ends, and the contents of its lists.           *)
RECURSIVE Places(_, _)
Places(b, off) ==
    LET joined(sp, head, inner, rest) ==
            [starts |-> {off} \cup rest.starts \cup inner.starts,
             heads |-> {<<off + (IF sp.k = "Byte" THEN 1 ELSE head),
                          IF sp.k = "Byte" THEN 0 ELSE Len(sp.content)>>}
                          \cup rest.heads \cup inner.heads,
             lists |-> rest.lists \cup inner.lists
                          \cup (IF sp.k = "List" THEN {<<off + head, Len(sp.content)>>} ELSE {})]
        none == [starts |-> {}, heads |-> {}, lists |-> {}]
        from(sp, head) ==
            joined(sp, head, IF sp.k = "List" THEN Places(sp.content, off + head) ELSE none,
                   Places(sp.rest, off + Len(b) - Len(sp.rest)))
        split(sp) == from(sp, Len(b) - Len(sp.rest) - Len(sp.content))
    IN  IF b = <<>> THEN [none EXCEPT !.starts = {off}] ELSE split(Split(b))

(* The stream keeps its place: whatever methods are called on a valid      *)
(* input, and whichever of them fail, the reader is at the start of a      *)
(* value or just after its header, and the positions on the stack are the  *)
(* places reached in the lists that are open (List, ListEnd, willRead).    *)
(* On any input no list is read past its end.                              *)
StreamAligned ==
    LET depth == Len(s.stack)
        consumed == Len(input) - Len(s.r)
        start[i \in 1..depth] ==
            (IF i = depth THEN consumed ELSE start[i + 1]) - s.stack[i].pos
        at(places) ==
            /\ IF s.kind = "none" THEN consumed \in places.starts
               ELSE \/ <<consumed, s.size>> \in places.heads \cup {<<0, Len(input)>>}
                    \/ s.kinderr = "EOF" /\ s.r = <<>>
            /\ \A i \in 1..depth :
                  <<start[i], s.stack[i].size>> \in places.lists \cup {<<0, Len(input)>>}
    IN  /\ \A i \in 1..depth : s.stack[i].pos <= s.stack[i].size
        /\ s.limited => s.remaining = Len(s.r)
        /\ Parsed(input).ok => at(Places(input, 0))
=============================================================================
