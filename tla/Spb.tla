-------------------------------- MODULE Spb --------------------------------
(***************************************************************************)
(* The spb codec of stnet (stnet/spb.go): Go values to bytes and back, by  *)
(* reflection, as Marshal and the rpc calls use it (stnet/encode.go).      *)
(*                                                                         *)
(* Bytes are bytes and the wire format is the one of the code; only the    *)
(* machine word is shorter: Word bits where the code has 64.  A Go type is *)
(* a record with its kind k: "uint", "int", "float" (with a width w),      *)
(* "bool", "string", "slice" (el), "map" (key, el), "struct" (fields),     *)
(* "ptr" (el) or "other" for a kind the codec refuses.  Strings and slices *)
(* are sequences, a map is the sequence of its pairs in the order MapKeys  *)
(* gives them, a struct the sequence of its fields, a pointer <<v>> or     *)
(* <<>> for nil.  A float is the number that its bits make.                *)
(***************************************************************************)
EXTENDS Integers, SequencesExt

CONSTANT Word  \* bits of a uint64

Type_Positive == 0
Type_Negative == 1
Type_Float == 2
Type_Double == 3
Type_String == 4
Type_Vector == 5
Type_Map == 6
Type_StructBegin == 7
Type_StructEnd == 8

NoTag   == -1  \* the field has no `tag:"n"`
Refused == -1  \* stands in buf for errInvalidType: the caller drops buf

Unsigned(x, w) == x % 2^w
Signed(x, w) == LET u == x % 2^w IN IF u >= 2^(w - 1) THEN u - 2^w ELSE u

-----------------------------------------------------------------------------
(* Encoding *)

RECURSIVE packNumber(_)
packNumber(x) == IF x < 128 THEN <<x>> ELSE <<128 + (x % 128)>> \o packNumber(x \div 128)

packHeader(tag, typ) ==
  IF tag < 15 THEN <<16 * typ + tag>> ELSE <<16 * typ + 15>> \o packNumber(tag)

\* The last lines of pack: a number, left out if it is zero and not required.
packInteger(tag, typ, val, require) ==
  IF val = 0 /\ ~require THEN <<>> ELSE packHeader(tag, typ) \o packNumber(val)

\* The cases reflect.Int to reflect.Int64: v = -v in the width of v, then uint64(v).
packSigned(tag, v, w, require) ==
  IF v < 0 THEN packInteger(tag, Type_Negative, Unsigned(Signed(-v, w), Word), require)
           ELSE packInteger(tag, Type_Positive, v, require)

FieldTag(T, i) == IF T.fields[i].tag # NoTag THEN T.fields[i].tag ELSE i - 1

RECURSIVE pack(_, _, _, _)

\* Without the checks of the kind, which pack has made.
packSlice(tag, T, v, require) ==
  IF v = <<>> /\ ~require THEN <<>>
  ELSE packHeader(tag, Type_Vector) \o packNumber(Len(v))
         \o FlattenSeq([i \in DOMAIN v |-> pack(0, T.el, v[i], TRUE)])

packMap(tag, T, v, require) ==
  IF v = <<>> /\ ~require THEN <<>>
  ELSE packHeader(tag, Type_Map) \o packNumber(Len(v))
         \o FlattenSeq([i \in DOMAIN v |-> pack(0, T.key, v[i][1], TRUE) \o pack(0, T.el, v[i][2], TRUE)])

packStruct(tag, T, v) ==
  packHeader(tag, Type_StructBegin)
    \o FlattenSeq([i \in DOMAIN v |-> pack(FieldTag(T, i), T.fields[i].typ, v[i], T.fields[i].require)])
    \o packHeader(0, Type_StructEnd)

pack(tag, T, v, require) ==
  CASE T.k = "ptr" /\ T.el.k # "ptr" -> pack(tag, T.el, v[1], require)
    [] T.k = "bool"   -> packInteger(tag, Type_Positive, IF v THEN 1 ELSE 0, require)
    [] T.k = "int"    -> packSigned(tag, v, T.w, require)
    [] T.k = "uint"   -> packInteger(tag, Type_Positive, v, require)
    [] T.k = "float"  -> packInteger(tag, Type_Positive, v, require)
    [] T.k = "string" -> IF v = <<>> /\ ~require THEN <<>>
                         ELSE packHeader(tag, Type_String) \o packNumber(Len(v)) \o v
    [] T.k = "slice"  -> packSlice(tag, T, v, require)
    [] T.k = "map"    -> packMap(tag, T, v, require)
    [] T.k = "struct" -> packStruct(tag, T, v)
    [] OTHER          -> <<Refused>>

-----------------------------------------------------------------------------
(* Decoding.  ix is the index of the next byte; a result has the new ix    *)
(* and err, "nil" if there is none.                                        *)

RECURSIVE Digits(_, _, _)
Digits(buf, i, shift) ==
  IF shift >= Word THEN [num |-> 0, ix |-> i, err |-> "overflow"]
  ELSE IF i > Len(buf) THEN [num |-> 0, ix |-> i, err |-> "eof"]
  ELSE IF buf[i] < 128 THEN [num |-> Unsigned(buf[i] * 2^shift, Word), ix |-> i + 1, err |-> "nil"]
  ELSE LET r == Digits(buf, i + 1, shift + 7)
       IN [r EXCEPT !.num = Unsigned(@ + (buf[i] - 128) * 2^shift, Word)]

\* Mutant: a number cut off by the end of buf is taken for a complete one.
unpackNumberLax(buf, ix) ==
  LET r == Digits(buf, ix, 0) IN IF r.err = "overflow" THEN [r EXCEPT !.ix = ix] ELSE [r EXCEPT !.err = "nil"]

\* index moves only if the number is complete.
unpackNumber(buf, ix) ==
  LET r == Digits(buf, ix, 0) IN IF r.err = "nil" THEN r ELSE [r EXCEPT !.ix = ix]

unpackHeader(buf, ix) ==
  IF ix > Len(buf) THEN [tag |-> 0, typ |-> 0, ix |-> ix, err |-> "noData"]
  ELSE LET typ == buf[ix] \div 16
           tag == buf[ix] % 16
           n   == unpackNumber(buf, ix + 1)
       IN IF tag < 15 THEN [tag |-> tag, typ |-> typ, ix |-> ix + 1, err |-> "nil"]
          ELSE [tag |-> n.num, typ |-> typ, ix |-> n.ix, err |-> n.err]

\* unpackByte(int(ln)).
unpackByte(buf, ix, ln) ==
  LET n == Signed(ln, Word)
  IN IF n <= 0 THEN [bytes |-> <<>>, ix |-> ix, err |-> "nil"]
     ELSE IF ix + n - 1 > Len(buf) THEN [bytes |-> <<>>, ix |-> ix, err |-> "noData"]
     ELSE [bytes |-> SubSeq(buf, ix, ix + n - 1), ix |-> ix + n, err |-> "nil"]

\* The skipping functions ignore errors; they give the index they stop at.
RECURSIVE skipField(_, _, _)
RECURSIVE skipHeadFields(_, _, _)
RECURSIVE skipToStructEnd(_, _)

\* skipHeadField, n times.
skipHeadFields(buf, ix, n) ==
  IF n <= 0 THEN ix
  ELSE LET h == unpackHeader(buf, ix)
       IN skipHeadFields(buf, IF h.err = "nil" THEN skipField(buf, h.ix, h.typ) ELSE h.ix, n - 1)

\* Mutant: a map is skipped as if it had one value per entry.
skipFieldHalf(buf, ix, typ) ==
  LET n == unpackNumber(buf, ix)
  IN CASE typ \in {Type_Positive, Type_Negative, Type_Float, Type_Double} -> n.ix
       [] typ = Type_String -> IF n.err = "nil" THEN unpackByte(buf, n.ix, n.num).ix ELSE ix
       [] typ \in {Type_Vector, Type_Map} ->
            IF n.err = "nil" THEN skipHeadFields(buf, n.ix, Signed(n.num, Word)) ELSE ix
       [] typ = Type_StructBegin -> skipToStructEnd(buf, ix)
       [] OTHER -> ix

skipField(buf, ix, typ) ==
  LET n == unpackNumber(buf, ix)
      ln == Signed(n.num, Word)
  IN CASE typ \in {Type_Positive, Type_Negative, Type_Float, Type_Double} -> n.ix
       [] typ = Type_String -> IF n.err = "nil" THEN unpackByte(buf, n.ix, n.num).ix ELSE ix
       [] typ = Type_Vector -> IF n.err = "nil" THEN skipHeadFields(buf, n.ix, ln) ELSE ix
       [] typ = Type_Map -> IF n.err = "nil" THEN skipHeadFields(buf, n.ix, 2 * ln) ELSE ix
       [] typ = Type_StructBegin -> skipToStructEnd(buf, ix)
       [] OTHER -> ix

skipToStructEnd(buf, ix) ==
  LET h == unpackHeader(buf, ix)
  IN IF h.err # "nil" \/ h.typ = Type_StructEnd THEN h.ix
     ELSE skipToStructEnd(buf, skipField(buf, h.ix, h.typ))

RECURSIVE Zero(_)
Zero(T) ==
  CASE T.k = "bool" -> FALSE
    [] T.k = "struct" -> [i \in DOMAIN T.fields |-> Zero(T.fields[i].typ)]
    [] T.k \in {"string", "slice", "map", "ptr"} -> <<>>
    [] OTHER -> 0

CanSetBool(T) == T.k = "bool"
CanSetFloat(T) == T.k = "float"
CanSetInt(T) == T.k = "int"
CanSetUint(T) == T.k = "uint"

\* What a variable of type T that holds old holds after a number: the setters cut to the width.
Assigned(T, old, typ, num) ==
  CASE typ = Type_Positive /\ CanSetUint(T) -> Unsigned(num, T.w)
    [] typ = Type_Positive /\ CanSetInt(T) -> Signed(num, T.w)
    [] typ = Type_Positive /\ CanSetBool(T) -> num > 0
    [] typ = Type_Negative /\ CanSetInt(T) -> Signed(-num, T.w)
    [] typ \in {Type_Float, Type_Double} /\ CanSetFloat(T) -> num
    [] OTHER -> old

\* The field of T for a tag, 0 if there is none: by its `tag:"n"`, else by position.
valField(T, tag) ==
  LET tagged == {i \in DOMAIN T.fields : T.fields[i].tag = tag}
  IN IF tagged # {} THEN Min(tagged)
     ELSE IF tag + 1 \in DOMAIN T.fields /\ T.fields[tag + 1].tag = NoTag THEN tag + 1 ELSE 0

\* SetMapIndex for one pair after the other: of equal keys the last stays.
MakeMap(pairs) ==
  LET last == {i \in DOMAIN pairs : \A j \in DOMAIN pairs : pairs[j][1] = pairs[i][1] => j <= i}
  IN [i \in 1 .. Cardinality(last) |-> pairs[SetToSortSeq(last, <)[i]]]

RECURSIVE unpack(_, _, _, _, _)
RECURSIVE unpackElems(_, _, _, _)
RECURSIVE unpackPairs(_, _, _, _)
RECURSIVE unpackFields(_, _, _, _)

\* unpack into newValByType(T), which is a pointer.
unpackNew(T, buf, ix) ==
  LET r == unpack(IF T.k = "ptr" THEN T.el ELSE T, Zero(IF T.k = "ptr" THEN T.el ELSE T), TRUE, buf, ix)
  IN IF T.k = "ptr" THEN [r EXCEPT !.val = <<@>>] ELSE r

unpackElems(T, n, buf, ix) ==
  IF n <= 0 THEN [val |-> <<>>, ix |-> ix, err |-> "nil"]
  ELSE LET e == unpackNew(T, buf, ix)
           r == unpackElems(T, n - 1, buf, e.ix)
       IN IF e.err # "nil" THEN [e EXCEPT !.val = <<>>] ELSE [r EXCEPT !.val = <<e.val>> \o @]

unpackPairs(T, n, buf, ix) ==
  IF n <= 0 THEN [val |-> <<>>, ix |-> ix, err |-> "nil"]
  ELSE LET k == unpackNew(T.key, buf, ix)
           e == unpackNew(T.el, buf, k.ix)
           r == unpackPairs(T, n - 1, buf, e.ix)
       IN IF k.err # "nil" THEN [k EXCEPT !.val = <<>>]
          ELSE IF e.err # "nil" THEN [e EXCEPT !.val = <<>>]
          ELSE [r EXCEPT !.val = <<<<k.val, e.val>>>> \o @]

\* The loop of Type_StructBegin.
unpackFields(T, old, buf, ix) ==
  LET r == unpack(T, old, FALSE, buf, ix)
  IN IF r.err = "structEnd" THEN [r EXCEPT !.err = "nil"]
     ELSE IF r.err # "nil" THEN r ELSE unpackFields(T, r.val, buf, r.ix)

\* unpack one value into x of type T that holds old, or, if ~first, into the field of x that the
\* tag names.  set(v) is x after the assignment, X and cur the type and the content assigned to.
unpack(T, old, first, buf, ix) ==
  LET h == unpackHeader(buf, ix)
      f == IF first THEN 0 ELSE valField(T, h.tag)
      X == IF first THEN T ELSE IF f = 0 THEN [k |-> "invalid"] ELSE T.fields[f].typ
      cur == IF first THEN old ELSE IF f = 0 THEN <<>> ELSE old[f]
      set(v) == IF first THEN v ELSE IF f = 0 THEN old ELSE [old EXCEPT ![f] = v]
      n == unpackNumber(buf, h.ix)
      ln == Signed(n.num, Word)
      Result(v, i, e) == [val |-> v, ix |-> i, err |-> e]
  IN IF h.err # "nil" THEN Result(old, h.ix, h.err)
     ELSE IF h.typ = Type_StructEnd THEN Result(old, h.ix, "structEnd")
     ELSE IF h.typ > Type_StructEnd THEN Result(old, h.ix, "invalidType")
     ELSE IF h.typ = Type_StructBegin THEN
       LET r == unpackFields(X, cur, buf, h.ix)
       IN IF X.k # "struct" THEN Result(old, skipToStructEnd(buf, h.ix), "nil")
          ELSE [r EXCEPT !.val = set(@)]
     ELSE IF n.err # "nil" THEN Result(old, h.ix, n.err)
     ELSE IF h.typ = Type_String THEN
       LET b == unpackByte(buf, n.ix, n.num)
       IN Result(IF b.err = "nil" /\ X.k = "string" THEN set(b.bytes) ELSE old, b.ix, b.err)
     ELSE IF h.typ = Type_Vector THEN
       LET r == unpackElems(X.el, ln, buf, n.ix)
       IN IF X.k # "slice" THEN Result(old, skipHeadFields(buf, n.ix, ln), "nil")
          ELSE Result(set(IF r.err = "nil" THEN r.val ELSE <<>>), r.ix, r.err)
     ELSE IF h.typ = Type_Map THEN
       LET r == unpackPairs(X, ln, buf, n.ix)
       IN IF X.k # "map" THEN Result(old, skipHeadFields(buf, n.ix, 2 * ln), "nil")
          ELSE Result(IF r.err = "nil" THEN set(MakeMap(r.val)) ELSE old, r.ix, r.err)
     ELSE Result(set(Assigned(X, cur, h.typ, n.num)), n.ix, "nil")
=============================================================================
