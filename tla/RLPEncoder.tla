----------------------------- MODULE RLPEncoder -----------------------------
(***************************************************************************)
(* The encoder of libraries/rlp (encode.go, typecache.go): values are      *)
(* written to a buffer whose list headers are kept apart from the string   *)
(* data until the end, when their sizes are known.                         *)
(*                                                                         *)
(* A type is a record with its kind in field k (and the tags of a struct's *)
(* fields in their types).  Byte strings are sequences of 0..255, integers *)
(* and booleans themselves, slices, arrays and structs sequences, and a    *)
(* pointer is <<>> for nil and <<v>> otherwise.  An interface holds        *)
(* [k |-> "bytes" or "list", v |-> ...].                                   *)
(***************************************************************************)
EXTENDS Integers, Sequences, SequencesExt

(* putint and intsize: big endian, with the least number of bytes. *)
RECURSIVE putint(_)
putint(i) == IF i < 256 THEN <<i>> ELSE Append(putint(i \div 256), i % 256)

RECURSIVE intsize(_)
intsize(i) == IF i \div 256 = 0 THEN 1 ELSE 1 + intsize(i \div 256)

headsize(size) == IF size < 56 THEN 1 ELSE 1 + intsize(size)

puthead(smalltag, largetag, size) ==
    IF size < 56 THEN <<smalltag + size>>
    ELSE LET b == putint(size) IN <<largetag + Len(b)>> \o b

(* encbuf; err: a writer has returned an error. *)
reset == [str |-> <<>>, lheads |-> <<>>, lhsize |-> 0, err |-> FALSE]

size(w) == Len(w.str) + w.lhsize

Write(w, b) == [w EXCEPT !.str = @ \o b]

encodeStringHeader(w, n) == Write(w, puthead(128, 183, n))

encodeString(w, b) ==
    IF Len(b) = 1 /\ b[1] <= 127 THEN Write(w, b)
    ELSE Write(encodeStringHeader(w, Len(b)), b)

list(w) ==
    [w EXCEPT !.lheads = Append(@, [offset |-> Len(w.str), size |-> w.lhsize])]

(* listEnd of the header numbered n. *)
OneByteHeads(w, n) ==
    LET lh == w.lheads[n]
        total == size(w) - lh.offset - lh.size
    IN  [w EXCEPT !.lheads[n].size = total, !.lhsize = @ + 1]

listEnd(w, n) ==
    LET lh == w.lheads[n]
        total == size(w) - lh.offset - lh.size
    IN  [w EXCEPT !.lheads[n].size = total,
                  !.lhsize = @ + (IF total < 56 THEN 1 ELSE 1 + intsize(total))]

encodeHead(head) == puthead(192, 247, head.size)

(* toBytes and toWriter: the headers between the pieces of string data. *)
toBytes(w) ==
    LET Step(acc, head) ==
            [out |-> acc.out \o SubSeq(w.str, acc.strpos + 1, head.offset) \o encodeHead(head),
             strpos |-> head.offset]
        all == FoldLeft(Step, [out |-> <<>>, strpos |-> 0], w.lheads)
    IN  all.out \o SubSeq(w.str, all.strpos + 1, Len(w.str))

-----------------------------------------------------------------------------
(* encReader                                                               *)

newReader == [lhpos |-> 1, strpos |-> 0, piece |-> <<>>]

(* next: the reader with its next piece, which is empty at the end. *)
next(r, w) ==
    CASE r.piece # <<>> -> r
      [] r.piece = <<>> /\ r.lhpos <= Len(w.lheads) ->
            LET head == w.lheads[r.lhpos]
            IN  IF head.offset > r.strpos
                THEN [r EXCEPT !.piece = SubSeq(w.str, r.strpos + 1, head.offset),
                               !.strpos = head.offset]
                ELSE [r EXCEPT !.lhpos = @ + 1, !.piece = encodeHead(head)]
      [] OTHER -> [r EXCEPT !.piece = SubSeq(w.str, r.strpos + 1, Len(w.str)),
                            !.strpos = Len(w.str)]

(* Read into a buffer of n bytes that has got out so far. *)
RECURSIVE Read(_, _, _, _)
Read(r, w, n, out) ==
    LET r1 == next(r, w)
        nn == IF n - Len(out) < Len(r1.piece) THEN n - Len(out) ELSE Len(r1.piece)
        got == out \o SubSeq(r1.piece, 1, nn)
    IN  IF r1.piece = <<>> THEN [r |-> r1, out |-> out, eof |-> TRUE]
        ELSE IF nn < Len(r1.piece)
             THEN [r |-> [r1 EXCEPT !.piece = SubSeq(@, nn + 1, Len(@))],
                   out |-> got, eof |-> FALSE]
             ELSE Read([r1 EXCEPT !.piece = <<>>], w, n, got)

(* EncodeToReader, read to its end with buffers of n bytes. *)
RECURSIVE ReadAll(_, _, _)
ReadAll(r, w, n) ==
    LET one == Read(r, w, n, <<>>)
    IN  IF one.eof THEN one.out ELSE one.out \o ReadAll(one.r, w, n)

-----------------------------------------------------------------------------
(* structFields: the fields of a declaration that are written, with their  *)
(* tags.  A tail is the last field and a slice (parseStructTag).           *)

parseStructTag(decl, i) ==
    LET f == decl[i]
        t == f.typ
    IN  [err |-> "tail" \in f.tags /\ (i # Len(decl) \/ t.k # "slice"),
         ignored |-> "-" \in f.tags,
         typ |-> CASE t.k = "ptr" -> [t EXCEPT !.nilOK = "nil" \in f.tags]
                   [] t.k = "slice" -> [t EXCEPT !.tail = "tail" \in f.tags]
                   [] OTHER -> t]

structFields(decl) ==
    LET exported == SelectSeq([i \in 1..Len(decl) |-> i], LAMBDA i : decl[i].exported)
        parsed == [j \in DOMAIN exported |-> parseStructTag(decl, exported[j])]
        kept == SelectSeq(parsed, LAMBDA f : ~f.ignored)
    IN  [err |-> \E j \in DOMAIN parsed : parsed[j].err,
         fields |-> [j \in DOMAIN kept |-> kept[j].typ]]

-----------------------------------------------------------------------------
(* The writers                                                             *)

writeUint(i, w) ==
    CASE i = 0 -> Write(w, <<128>>)
      [] i > 0 /\ i < 128 -> Write(w, <<i>>)
      [] OTHER -> LET b == putint(i) IN Write(w, <<128 + Len(b)>> \o b)

writeBool(b, w) == Write(w, IF b THEN <<1>> ELSE <<128>>)

writeBigInt(i, w) ==
    CASE i < 0 -> [w EXCEPT !.err = TRUE]
      [] i = 0 -> Write(w, <<128>>)
      [] OTHER -> encodeString(w, putint(i))

writeString(s, w) ==
    IF Len(s) = 1 /\ s[1] <= 127 THEN Write(w, s)
    ELSE Write(encodeStringHeader(w, Len(s)), s)

(* What a nil pointer to a type is written as (makePtrWriter). *)
nilBytes(t) ==
    IF t.k \in {"struct", "array", "slice", "iface"} THEN <<192>> ELSE <<128>>

(* The writer makeWriter chooses for a type; a slice with the tag "tail"   *)
(* writes its elements into the list of its struct.                        *)
RECURSIVE writer(_, _, _)
writeElems(t, v, w) == FoldLeft(LAMBDA acc, e : writer(t, e, acc), w, v)

sliceWriter(t, v, w) ==
    IF t.tail THEN writeElems(t.elem, v, w)
    ELSE listEnd(writeElems(t.elem, v, list(w)), Len(w.lheads) + 1)

structWriter(t, v, w) ==
    LET field(acc, i) == writer(t.fields[i], v[i], acc)
        filled == FoldLeft(field, list(w), [i \in 1..Len(t.fields) |-> i])
    IN  listEnd(filled, Len(w.lheads) + 1)

writer(t, v, w) ==
    CASE t.k = "raw" -> Write(w, v)
      [] t.k = "iface" ->
            IF v.k = "list"
            THEN sliceWriter([k |-> "slice", elem |-> t, tail |-> FALSE], v.v, w)
            ELSE encodeString(w, v.v)
      [] t.k = "big" -> writeBigInt(v, w)
      [] t.k = "uint" -> writeUint(v, w)
      [] t.k = "bool" -> writeBool(v, w)
      [] t.k = "string" -> writeString(v, w)
      [] t.k \in {"bytes", "bytearray"} -> encodeString(w, v)
      [] t.k \in {"slice", "array"} -> sliceWriter(t, v, w)
      [] t.k = "struct" -> structWriter(t, v, w)
      [] t.k = "ptr" -> IF v = <<>> THEN Write(w, nilBytes(t.elem))
                        ELSE writer(t.elem, v[1], w)

EncodeToBytes(t, v) ==
    LET w == writer(t, v, reset)
    IN  [err |-> w.err, out |-> IF w.err THEN <<>> ELSE toBytes(w)]
=============================================================================
