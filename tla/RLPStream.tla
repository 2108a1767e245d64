------------------------------ MODULE RLPStream ------------------------------
(***************************************************************************)
(* The decoders of libraries/rlp: Stream, which reads a value at a time    *)
(* and keeps what it knows of the next one (decode.go), the decoder of     *)
(* each type built on it, and the functions that split a byte slice        *)
(* (raw.go).  Types and values are those of the encoder.                   *)
(*                                                                         *)
(* A stream operation returns the stream after it in s, its error in err   *)
(* ("" for nil) and what it has read in val.  kind "none" is the code's    *)
(* -1: the header of the next value has not been read.                     *)
(***************************************************************************)
EXTENDS RLPEncoder

(* NewStream on a byte slice, and on a reader without a limit. *)
NewStream(b, limited) ==
    [r |-> b, remaining |-> Len(b), limited |-> limited,
     kind |-> "none", size |-> 0, byteval |-> 0, kinderr |-> "", stack |-> <<>>]

NewListStream(b) == [NewStream(b, TRUE) EXCEPT !.kind = "List", !.size = Len(b)]

tos(s) == s.stack[Len(s.stack)]
InList(s) == s.stack # <<>>
Left(s) == tos(s).size - tos(s).pos

Ok(s, val) == [s |-> s, err |-> "", val |-> val]
Err(s, err) == [s |-> s, err |-> err, val |-> <<>>]

(* if err != nil { return err }: go on with a result that is no error. *)
Then(res, next1(_)) == IF res.err # "" THEN res ELSE next1(res)

willRead(s0, n) ==
    LET s == [s0 EXCEPT !.kind = "none"]
        s1 == IF InList(s) THEN [s EXCEPT !.stack[Len(s.stack)].pos = @ + n] ELSE s
    IN  IF InList(s) /\ n > Left(s) THEN Err(s, "ErrElemTooLarge")
        ELSE IF s.limited /\ n > s.remaining THEN Err(s1, "ErrValueTooLarge")
        ELSE Ok(IF s.limited THEN [s1 EXCEPT !.remaining = @ - n] ELSE s1, <<>>)

readFull(s, n) ==
    Then(willRead(s, n), LAMBDA w :
        IF Len(s.r) < n THEN Err([w.s EXCEPT !.r = <<>>], "ErrUnexpectedEOF")
        ELSE Ok([w.s EXCEPT !.r = SubSeq(@, n + 1, Len(@))], SubSeq(s.r, 1, n)))

(* readByte: the one byte in a sequence. *)
readByte(s) == readFull(s, 1)

Number(b) == FoldLeft(LAMBDA acc, x : acc * 256 + x, 0, b)

readUint(s, n) ==
    IF n = 0 THEN Ok([s EXCEPT !.kind = "none"], 0)
    ELSE Then(readFull(s, n), LAMBDA f :
            IF n > 1 /\ f.val[1] = 0 THEN Err(f.s, "ErrCanonSize")
            ELSE Ok(f.s, Number(f.val)))

(* readKind, a result with the kind and size it returns.  With an error    *)
(* that of the first byte they are 0, which is Byte.                       *)
Header(res, kind, n) == [s |-> res.s, err |-> res.err, kind |-> kind, size |-> n]

(* A header whose size was read, in u. *)
LongHeader(u, kind) ==
    IF u.err # "" THEN Header(u, kind, 0)
    ELSE IF u.val < 56 THEN Header(Err(u.s, "ErrCanonSize"), kind, u.val)
    ELSE Header(u, kind, u.val)

(* A header whose first byte is b. *)
HeaderOf(b, s) ==
    CASE b < 128 -> Header(Ok([s EXCEPT !.byteval = b], <<>>), "Byte", 0)
      [] b \in 128..183 -> Header(Ok(s, <<>>), "String", b - 128)
      [] b \in 184..191 -> LongHeader(readUint(s, b - 183), "String")
      [] b \in 192..247 -> Header(Ok(s, <<>>), "List", b - 192)
      [] OTHER -> LongHeader(readUint(s, b - 247), "List")

readKind(s) ==
    LET first(f) ==
            IF f.err # ""
            THEN Header(Err(f.s, IF InList(s) THEN f.err ELSE "EOF"), "Byte", 0)
            ELSE HeaderOf(f.val[1], [f.s EXCEPT !.byteval = 0])
    IN  first(readByte(s))

(* Kind: the kind and size are left in the stream, as is an error. *)
Remembered(k, err) == Err([k.s EXCEPT !.kind = k.kind, !.size = k.size, !.kinderr = err], err)

KindErr(k) ==
    CASE k.err # "" -> k.err
      [] k.err = "" /\ ~InList(k.s) /\ k.s.limited /\ k.size > k.s.remaining -> "ErrValueTooLarge"
      [] k.err = "" /\ InList(k.s) /\ k.size > Left(k.s) -> "ErrElemTooLarge"
      [] OTHER -> ""

Kind(s) ==
    LET remember(k) == Remembered(k, KindErr(k))
    IN  IF s.kind # "none" THEN [s |-> s, err |-> s.kinderr, val |-> <<>>]
        ELSE IF InList(s) /\ Left(s) = 0 THEN Err([s EXCEPT !.kinderr = ""], "EOL")
        ELSE remember(readKind(s))

rearm(s) == [s EXCEPT !.kind = "none"]

(* Bytes; a string of one byte that is its own encoding is refused. *)
AnySingle(b) == FALSE

NotCanonical(b) == Len(b) = 1 /\ b[1] < 128

Content(s) ==
    Then(readFull(s, s.size), LAMBDA f :
        IF NotCanonical(f.val) THEN Err(f.s, "ErrCanonSize") ELSE f)

Bytes(s0) ==
    Then(Kind(s0), LAMBDA k :
        CASE k.s.kind = "Byte" -> Ok(rearm(k.s), <<k.s.byteval>>)
          [] k.s.kind = "String" -> Content(k.s)
          [] OTHER -> Err(k.s, "ErrExpectedString"))

(* Raw puts a new header in front of the content. *)
Raw(s0) ==
    Then(Kind(s0), LAMBDA k :
        IF k.s.kind = "Byte" THEN Ok(rearm(k.s), <<k.s.byteval>>)
        ELSE Then(readFull(k.s, k.s.size), LAMBDA f :
                Ok(f.s, (IF k.s.kind = "String" THEN puthead(128, 183, k.s.size)
                         ELSE puthead(192, 247, k.s.size)) \o f.val)))

(* An integer of n bytes, in u. *)
UintOf(u, n) ==
    IF u.err # "" THEN Err(u.s, IF u.err = "ErrCanonSize" THEN "ErrCanonInt" ELSE u.err)
    ELSE IF n > 0 /\ u.val < 128 THEN Err(u.s, "ErrCanonSize")
    ELSE u

uint(s0, maxbits) ==
    Then(Kind(s0), LAMBDA k :
        CASE k.s.kind = "Byte" ->
                IF k.s.byteval = 0 THEN Err(k.s, "ErrCanonInt")
                ELSE Ok(rearm(k.s), k.s.byteval)
          [] k.s.kind = "String" ->
                IF k.s.size > maxbits \div 8 THEN Err(k.s, "errUintOverflow")
                ELSE UintOf(readUint(k.s, k.s.size), k.s.size)
          [] OTHER -> Err(k.s, "ErrExpectedString"))

Bool(s) ==
    Then(uint(s, 8), LAMBDA u :
        IF u.val \in {0, 1} THEN Ok(u.s, u.val = 1) ELSE Err(u.s, "invalid boolean"))

List(s0) ==
    Then(Kind(s0), LAMBDA k :
        IF k.s.kind # "List" THEN Err(k.s, "ErrExpectedList")
        ELSE Ok([k.s EXCEPT !.stack = Append(@, [pos |-> 0, size |-> k.s.size]),
                            !.kind = "none", !.size = 0], k.s.size))

(* ListEnd; a closed list counts in the list around it. *)
PopOnly(s) == Front(s.stack)

PopList(s) ==
    LET rest == Front(s.stack)
    IN  IF rest = <<>> THEN rest ELSE [rest EXCEPT ![Len(rest)].pos = @ + tos(s).size]

ListEnd(s) ==
    CASE ~InList(s) -> Err(s, "errNotInList")
      [] InList(s) /\ Left(s) # 0 -> Err(s, "errNotAtEOL")
      [] OTHER -> Ok([s EXCEPT !.stack = PopList(s), !.kind = "none", !.size = 0], <<>>)

-----------------------------------------------------------------------------
(* The decoders                                                            *)

RECURSIVE decoder(_, _)

decodeBigInt(s) ==
    Then(Bytes(s), LAMBDA b :
        IF b.val # <<>> /\ b.val[1] = 0 THEN Err(b.s, "ErrCanonInt")
        ELSE Ok(b.s, Number(b.val)))

(* The error of Uint on the zero byte is dropped, and the byte not read. *)
OneByte(u) == Ok(u.s, <<IF u.err = "" THEN u.val ELSE 0>>)

decodeByteArray(s0, vlen) ==
    Then(Kind(s0), LAMBDA k :
        CASE k.s.kind = "Byte" ->
                IF vlen = 1 THEN OneByte(uint(k.s, 64))
                ELSE Err(k.s, IF vlen = 0 THEN "too long" ELSE "too short")
          [] k.s.kind = "String" /\ vlen < k.s.size -> Err(k.s, "too long")
          [] k.s.kind = "String" /\ vlen > k.s.size -> Err(k.s, "too short")
          [] k.s.kind = "String" /\ vlen = k.s.size -> Content(k.s)
          [] OTHER -> Err(k.s, "ErrExpectedString"))

(* decodeSliceElems: elements until the end of the list. *)
RECURSIVE decodeSliceElems(_, _, _)
decodeSliceElems(s, elem, got) ==
    LET more(e) == IF e.err = "EOL" THEN Ok(e.s, got)
                   ELSE IF e.err # "" THEN e
                   ELSE decodeSliceElems(e.s, elem, Append(got, e.val))
    IN  more(decoder(elem, s))

(* The end of a list whose elements are in res. *)
Closed(res) ==
    Then(res, LAMBDA r : Then(ListEnd(r.s), LAMBDA end : Ok(end.s, r.val)))

decodeListSlice(s, elem) ==
    Then(List(s), LAMBDA l :
        Closed(IF l.val = 0 THEN Ok(l.s, <<>>) ELSE decodeSliceElems(l.s, elem, <<>>)))

(* One element for each type, in order: arrays and structs. *)
Fixed(types, list1) ==
    LET field(acc, e) == IF e.err = "EOL" THEN Err(e.s, "too few elements")
                         ELSE IF e.err # "" THEN e
                         ELSE Ok(e.s, Append(acc.val, e.val))
        step(acc, t) == Then(acc, LAMBDA r : field(r, decoder(t, r.s)))
    IN  Then(list1, LAMBDA l : Closed(FoldLeft(step, Ok(l.s, <<>>), types)))

decodeListArray(s, n, elem) == Fixed([i \in 1..n |-> elem], List(s))

structDecoder(s, fields) == Fixed(fields, List(s))

(* A pointer; with the tag "nil" an empty value is nil. *)
ptrDecoder(t, s) ==
    LET elem(s1) == Then(decoder(t.elem, s1), LAMBDA e : Ok(e.s, <<e.val>>))
        optional(k) == IF k.err # "" THEN Err(rearm(k.s), k.err)
                       ELSE IF k.s.size = 0 /\ k.s.kind # "Byte" THEN Ok(rearm(k.s), <<>>)
                       ELSE elem(k.s)
    IN  IF t.nilOK THEN optional(Kind(s)) ELSE elem(s)

decodeInterface(t, s) ==
    Then(Kind(s), LAMBDA k :
        IF k.s.kind = "List"
        THEN Then(decodeListSlice(k.s, t), LAMBDA l : Ok(l.s, [k |-> "list", v |-> l.val]))
        ELSE Then(Bytes(k.s), LAMBDA b : Ok(b.s, [k |-> "bytes", v |-> b.val])))

(* The decoder makeDecoder chooses for a type. *)
decoder(t, s) ==
    CASE t.k = "raw" -> Raw(s)
      [] t.k = "big" -> decodeBigInt(s)
      [] t.k = "uint" -> uint(s, t.bits)
      [] t.k = "bool" -> Bool(s)
      [] t.k \in {"string", "bytes"} -> Bytes(s)
      [] t.k = "bytearray" -> decodeByteArray(s, t.len)
      [] t.k = "array" -> decodeListArray(s, t.len, t.elem)
      [] t.k = "slice" -> IF t.tail THEN decodeSliceElems(s, t.elem, <<>>)
                          ELSE decodeListSlice(s, t.elem)
      [] t.k = "struct" -> structDecoder(s, t.fields)
      [] t.k = "ptr" -> ptrDecoder(t, s)
      [] t.k = "iface" -> decodeInterface(t, s)

DecodeBytes(b, t) ==
    LET whole(d) == [err |-> IF d.err # "" THEN d.err
                             ELSE IF d.s.r # <<>> THEN "ErrMoreThanOneValue" ELSE "",
                     val |-> d.val]
    IN  whole(decoder(t, NewStream(b, TRUE)))

-----------------------------------------------------------------------------
(* raw.go: results have the kind, the size of the tag and of the content.  *)

rawErr(err) == [err |-> err, k |-> "Byte", tagsize |-> 0, contentsize |-> 0]

readSize(b, slen) ==
    LET n == Number(SubSeq(b, 1, slen))
    IN  IF slen > Len(b) THEN [err |-> "ErrUnexpectedEOF", n |-> 0]
        ELSE IF n < 56 \/ b[1] = 0 THEN [err |-> "ErrCanonSize", n |-> 0]
        ELSE [err |-> "", n |-> n]

rawKind(buf) ==
    LET fits(k, tag, n) ==
            IF n > Len(buf) - tag THEN rawErr("ErrValueTooLarge")
            ELSE [err |-> "", k |-> k, tagsize |-> tag, contentsize |-> n]
        sized(k, slen, sz) == IF sz.err # "" THEN rawErr(sz.err) ELSE fits(k, slen + 1, sz.n)
        long(k, slen) == sized(k, slen, readSize(Tail(buf), slen))
        first(b) ==
            CASE b < 128 -> fits("Byte", 0, 1)
              [] b \in 128..183 ->
                    IF b = 129 /\ Len(buf) > 1 /\ buf[2] < 128 THEN rawErr("ErrCanonSize")
                    ELSE fits("String", 1, b - 128)
              [] b \in 184..191 -> long("String", b - 183)
              [] b \in 192..247 -> fits("List", 1, b - 192)
              [] OTHER -> long("List", b - 247)
    IN  IF buf = <<>> THEN rawErr("ErrUnexpectedEOF") ELSE first(buf[1])

Split(b) ==
    LET cut(k) ==
            [err |-> k.err, k |-> k.k,
             content |-> IF k.err # "" THEN <<>>
                         ELSE SubSeq(b, k.tagsize + 1, k.tagsize + k.contentsize),
             rest |-> IF k.err # "" THEN b
                      ELSE SubSeq(b, k.tagsize + k.contentsize + 1, Len(b))]
    IN  cut(rawKind(b))

SplitString(b) ==
    LET string(sp) == IF sp.err = "" /\ sp.k = "List"
                      THEN [sp EXCEPT !.err = "ErrExpectedString"] ELSE sp
    IN  string(Split(b))

SplitList(b) ==
    LET list1(sp) == IF sp.err = "" /\ sp.k # "List"
                     THEN [sp EXCEPT !.err = "ErrExpectedList"] ELSE sp
    IN  list1(Split(b))

RECURSIVE CountValues(_)
CountValues(b) ==
    LET counted(more) == [more EXCEPT !.n = IF more.err = "" THEN @ + 1 ELSE 0]
        first(k) == IF k.err # "" THEN [err |-> k.err, n |-> 0]
                    ELSE counted(CountValues(SubSeq(b, k.tagsize + k.contentsize + 1, Len(b))))
    IN  IF b = <<>> THEN [err |-> "", n |-> 0] ELSE first(rawKind(b))
=============================================================================
