--------------------------- MODULE MessagesProofs ---------------------------
(***************************************************************************)
(* Proofs about ModelMessages, for any protocols, any number of runs and   *)
(* rows and answers of any length: a message comes back from its row with  *)
(* every block in its place, and a request, encoded for any vendor and     *)
(* heard by its rules, says the conversation once and in order.            *)
(***************************************************************************)
EXTENDS ModelMessages, SequenceTheorems, FiniteSetTheorems, WellFoundedInduction, TLAPS

-----------------------------------------------------------------------------
(* Induction, stated with sets *)

LEMMA NatInduct ==
    ASSUME NEW S, 0 \in S, \A n \in Nat : n \in S => n + 1 \in S
    PROVE  Nat \subseteq S
<1> DEFINE Bad == Nat \ S
<1>1. SUFFICES ASSUME Bad # {} PROVE FALSE
  OBVIOUS
<1>2. \E b \in Bad : \A j \in Bad : ~(<<j, b>> \in OpToRel(<, Nat))
  BY <1>1, NatLessThanWellFounded, WFMin
<1>3. PICK b \in Bad : \A j \in Bad : ~(j < b)
  BY <1>2 DEF OpToRel
<1>4. b \in Nat /\ b # 0 /\ b - 1 \in Nat /\ b - 1 < b
  OBVIOUS
<1>5. b - 1 \in S
  BY <1>3, <1>4
<1> QED BY <1>3, <1>4, <1>5

LEMMA SeqInduct ==
    ASSUME NEW T, NEW S, <<>> \in S,
           \A s \in Seq(T), x \in T : s \in S => Append(s, x) \in S
    PROVE  Seq(T) \subseteq S
<1> DEFINE N == {n \in Nat : \A s \in Seq(T) : Len(s) = n => s \in S}
<1>1. 0 \in N
  BY EmptySeq
<1>2. ASSUME NEW n \in Nat, n \in N PROVE n + 1 \in N
  <2>1. SUFFICES ASSUME NEW s \in Seq(T), Len(s) = n + 1 PROVE s \in S
    OBVIOUS
  <2>2. s # <<>>
    BY <1>2, <2>1, EmptySeq
  <2>3. PICK r \in Seq(T), x \in T : s = Append(r, x)
    BY <2>2, SequenceEmptyOrAppend
  <2>4. Len(r) = n
    BY <1>2, <2>1, <2>3, AppendProperties, LenProperties
  <2> QED BY <1>2, <2>3, <2>4
<1> HIDE DEF N
<1>3. Nat \subseteq N
  BY <1>1, <1>2, NatInduct
<1> QED BY <1>3, LenProperties DEF N

-----------------------------------------------------------------------------
(* Sequences of sequences, one behind the other *)

IsFlat(ss, f) ==
    f = [i \in 1 .. Len(ss) |-> IF i = 1 THEN ss[i] ELSE f[i - 1] \o ss[i]]

LEMMA FlatExists ==
    ASSUME NEW T, NEW ss \in Seq(Seq(T))
    PROVE  \E f : IsFlat(ss, f)
<1> DEFINE S == {s \in Seq(Seq(T)) : \E f : IsFlat(s, f)}
<1>1. <<>> \in S
  <2>1. IsFlat(<<>>, [i \in 1 .. Len(<<>>) |-> 0])
    BY EmptySeq DEF IsFlat
  <2> QED BY <2>1, EmptySeq
<1>2. ASSUME NEW s \in Seq(Seq(T)), NEW x \in Seq(T), s \in S PROVE Append(s, x) \in S
  <2>1. PICK f, n, t : IsFlat(s, f) /\ n = Len(s) /\ t = Append(s, x)
    BY <1>2
  <2>2. n \in Nat /\ Len(t) = n + 1 /\ (\A i \in 1 .. n : t[i] = s[i]) /\ t[n + 1] = x
        /\ t \in Seq(Seq(T))
    BY <2>1, LenProperties, AppendProperties
  <2> DEFINE g == [i \in 1 .. n + 1 |-> IF i = n + 1 THEN IF i = 1 THEN x ELSE f[n] \o x ELSE f[i]]
  <2>3. ASSUME NEW i \in 1 .. n + 1 PROVE g[i] = IF i = 1 THEN t[i] ELSE g[i - 1] \o t[i]
    <3>1. CASE i = n + 1
      <4>1. i # 1 => i - 1 \in 1 .. n + 1 /\ i - 1 = n /\ i - 1 # n + 1
        BY <2>2, <3>1
      <4>2. i # 1 => g[i - 1] = f[n]
        BY <4>1
      <4> QED BY <2>2, <3>1, <4>2
    <3>2. CASE i # n + 1
      <4>1. i \in 1 .. n /\ (i # 1 => i - 1 \in 1 .. n + 1 /\ i - 1 # n + 1)
        BY <2>2, <3>2
      <4>2. f[i] = IF i = 1 THEN s[i] ELSE f[i - 1] \o s[i]
        BY <2>1, <4>1 DEF IsFlat
      <4>3. i # 1 => g[i - 1] = f[i - 1]
        BY <4>1
      <4> QED BY <2>2, <3>2, <4>1, <4>2, <4>3
    <3> QED BY <3>1, <3>2
  <2>4. g = [i \in 1 .. Len(t) |-> IF i = 1 THEN t[i] ELSE g[i - 1] \o t[i]]
    BY <2>2, <2>3
  <2> HIDE DEF g
  <2>5. IsFlat(t, g)
    BY <2>4 DEF IsFlat
  <2> QED BY <2>1, <2>2, <2>5
<1> HIDE DEF S
<1>3. Seq(Seq(T)) \subseteq S
  BY <1>1, <1>2, SeqInduct
<1> QED BY <1>3 DEF S

LEMMA FlattenIs ==
    ASSUME NEW T, NEW ss \in Seq(Seq(T)), ss # <<>>
    PROVE  \E f : IsFlat(ss, f) /\ FlattenSeq(ss) = f[Len(ss)]
<1>1. \E f : f = [i \in 1 .. Len(ss) |-> IF i = 1 THEN ss[i] ELSE f[i - 1] \o ss[i]]
  BY FlatExists DEF IsFlat
<1>2. Len(ss) # 0
  BY EmptySeq
<1> QED BY <1>1, <1>2 DEF FlattenSeq, IsFlat

LEMMA FlatsAgree ==
    ASSUME NEW T, NEW ss \in Seq(Seq(T)), NEW s \in Seq(T), NEW f, NEW g,
           IsFlat(ss, f), IsFlat(Append(ss, s), g)
    PROVE  \A i \in 1 .. Len(ss) : g[i] = f[i] /\ f[i] \in Seq(T)
<1>1. PICK n, t : n = Len(ss) /\ t = Append(ss, s)
  OBVIOUS
<1>2. /\ n \in Nat /\ Len(t) = n + 1 /\ \A i \in 1 .. n : t[i] = ss[i]
      /\ \A i \in 1 .. n : ss[i] \in Seq(T)
  BY <1>1, LenProperties, AppendProperties
<1> DEFINE S == {i \in Nat : i \in 1 .. n => g[i] = f[i] /\ f[i] \in Seq(T)}
<1>3. 0 \in S
  OBVIOUS
<1>4. ASSUME NEW i \in Nat, i \in S PROVE i + 1 \in S
  <2>1. SUFFICES ASSUME i + 1 \in 1 .. n PROVE g[i + 1] = f[i + 1] /\ f[i + 1] \in Seq(T)
    OBVIOUS
  <2>2. i + 1 \in 1 .. n + 1 /\ (i + 1) - 1 = i /\ (i + 1 # 1 => i \in 1 .. n)
    BY <1>2, <2>1
  <2>3. /\ f[i + 1] = IF i + 1 = 1 THEN ss[i + 1] ELSE f[i] \o ss[i + 1]
        /\ g[i + 1] = IF i + 1 = 1 THEN t[i + 1] ELSE g[i] \o t[i + 1]
    BY <1>1, <1>2, <2>1, <2>2 DEF IsFlat
  <2>4. i + 1 # 1 => f[i] \o ss[i + 1] \in Seq(T)
    BY <1>2, <1>4, <2>1, <2>2, ConcatProperties
  <2> QED BY <1>2, <1>4, <2>1, <2>2, <2>3, <2>4
<1> HIDE DEF S
<1>5. Nat \subseteq S
  BY <1>3, <1>4, NatInduct
<1> QED BY <1>1, <1>2, <1>5 DEF S

LEMMA FlattenAppend ==
    ASSUME NEW T, NEW ss \in Seq(Seq(T)), NEW s \in Seq(T)
    PROVE  /\ FlattenSeq(ss) \in Seq(T)
           /\ FlattenSeq(Append(ss, s)) = FlattenSeq(ss) \o s
<1>1. PICK n, t : n = Len(ss) /\ t = Append(ss, s)
  OBVIOUS
<1>2. n \in Nat /\ Len(t) = n + 1 /\ t[n + 1] = s /\ t \in Seq(Seq(T)) /\ t # <<>>
  BY <1>1, LenProperties, AppendProperties
<1>3. PICK g : IsFlat(t, g) /\ FlattenSeq(t) = g[n + 1]
  BY <1>2, FlattenIs
<1>4. g[n + 1] = IF n + 1 = 1 THEN s ELSE g[n] \o s
  <2>1. n + 1 \in 1 .. n + 1 /\ (n + 1) - 1 = n
    BY <1>2
  <2> QED BY <1>2, <1>3, <2>1 DEF IsFlat
<1>5. CASE ss = <<>>
  <2>1. n = 0 /\ FlattenSeq(ss) = <<>>
    BY <1>1, <1>5, EmptySeq DEF FlattenSeq
  <2>2. <<>> \in Seq(T) /\ <<>> \o s = s
    BY EmptySeq, ConcatEmptySeq
  <2> QED BY <1>1, <1>3, <1>4, <2>1, <2>2
<1>6. CASE ss # <<>>
  <2>1. n # 0 /\ n \in 1 .. n
    BY <1>1, <1>2, <1>6, EmptySeq
  <2>2. PICK f : IsFlat(ss, f) /\ FlattenSeq(ss) = f[n]
    BY <1>1, <1>6, FlattenIs
  <2>3. g[n] = f[n] /\ f[n] \in Seq(T)
    BY <1>1, <1>3, <2>1, <2>2, FlatsAgree
  <2> QED BY <1>1, <1>2, <1>3, <1>4, <2>1, <2>2, <2>3
<1> QED BY <1>5, <1>6

LEMMA FlattenNothing == FlattenSeq(<<>>) = <<>>
BY DEF FlattenSeq

-----------------------------------------------------------------------------
(* Filters *)

Picked(s, places) == {s[j] : j \in {i \in DOMAIN s : i \in places}}

LEMMA KeptType ==
    ASSUME NEW T, NEW s \in Seq(T), NEW places
    PROVE  Kept(s, places) \in Seq(Picked(s, places)) /\ Kept(s, places) \in Seq(T)
<1>1. PICK n, g : n = Len(s) /\ g = [j \in DOMAIN s |-> IF j \in places THEN <<s[j]>> ELSE <<>>]
  OBVIOUS
<1>2. n \in Nat /\ DOMAIN s = 1 .. n /\ \A j \in 1 .. n : s[j] \in T
  BY <1>1, LenProperties
<1>3. g \in Seq(Seq(Picked(s, places)))
  <2>1. ASSUME NEW j \in 1 .. n PROVE g[j] \in Seq(Picked(s, places))
    <3>1. CASE j \in places
      <4>1. s[j] \in Picked(s, places)
        BY <1>2, <3>1 DEF Picked
      <4> QED BY <1>1, <1>2, <3>1, <4>1
    <3>2. CASE j \notin places
      BY <1>1, <1>2, <3>2
    <3> QED BY <3>1, <3>2
  <2> QED BY <1>1, <1>2, <2>1
<1>4. FlattenSeq(g) \in Seq(Picked(s, places))
  BY <1>3, FlattenAppend, EmptySeq
<1>5. Picked(s, places) \subseteq T
  BY <1>2 DEF Picked
<1> QED BY <1>1, <1>4, <1>5, SeqMonotonic DEF Kept

LEMMA KeptNothing == \A p : Kept(<<>>, p) = <<>>
<1>1. TAKE p
<1>2. [j \in DOMAIN <<>> |-> IF j \in p THEN <<<<>>[j]>> ELSE <<>>] = <<>>
  OBVIOUS
<1> QED BY <1>2, FlattenNothing DEF Kept

LEMMA KeptSame ==
    ASSUME NEW T, NEW s \in Seq(T), NEW p, NEW q, \A j \in 1 .. Len(s) : j \in p <=> j \in q
    PROVE  Kept(s, p) = Kept(s, q)
<1>1. DOMAIN s = 1 .. Len(s)
  BY LenProperties
<1>2. [j \in DOMAIN s |-> IF j \in p THEN <<s[j]>> ELSE <<>>]
        = [j \in DOMAIN s |-> IF j \in q THEN <<s[j]>> ELSE <<>>]
  BY <1>1
<1> QED BY <1>2 DEF Kept

LEMMA KeptAppend ==
    ASSUME NEW T, NEW s \in Seq(T), NEW x \in T, NEW p
    PROVE  Kept(Append(s, x), p) = Kept(s, p) \o IF Len(s) + 1 \in p THEN <<x>> ELSE <<>>
<1>1. PICK n, t, g, h : /\ n = Len(s) /\ t = Append(s, x)
                        /\ g = [j \in DOMAIN s |-> IF j \in p THEN <<s[j]>> ELSE <<>>]
                        /\ h = [j \in DOMAIN t |-> IF j \in p THEN <<t[j]>> ELSE <<>>]
  OBVIOUS
<1>2. /\ n \in Nat /\ DOMAIN s = 1 .. n /\ DOMAIN t = 1 .. n + 1 /\ t[n + 1] = x
      /\ \A j \in 1 .. n : t[j] = s[j] /\ s[j] \in T
  BY <1>1, LenProperties, AppendProperties
<1>3. g \in Seq(Seq(T))
  BY <1>1, <1>2
<1>4. PICK y \in Seq(T) : y = IF n + 1 \in p THEN <<x>> ELSE <<>>
  <2>1. <<x>> \in Seq(T) /\ <<>> \in Seq(T)
    OBVIOUS
  <2> QED BY <2>1, Zenon
<1>5. h = Append(g, y)
  <2>1. /\ Len(g) = n /\ DOMAIN Append(g, y) = 1 .. n + 1
        /\ \A j \in 1 .. n : Append(g, y)[j] = g[j]
        /\ Append(g, y)[n + 1] = y /\ Append(g, y) \in Seq(Seq(T))
    <3>1. Len(g) = n
      BY <1>1, <1>2, <1>3, LenProperties
    <3> QED BY <1>2, <1>3, <1>4, <3>1, AppendProperties, LenProperties
  <2>2. \A j \in 1 .. n : h[j] = g[j]
    BY <1>1, <1>2
  <2>3. h[n + 1] = y
    BY <1>1, <1>2, <1>4
  <2>4. h \in Seq(Seq(T)) /\ Len(h) = n + 1
    BY <1>1, <1>2
  <2>5. \A j \in 1 .. n + 1 : j \in 1 .. n \/ j = n + 1
    BY <1>2
  <2>6. \A j \in 1 .. n + 1 : h[j] = Append(g, y)[j]
    BY <2>1, <2>2, <2>3, <2>5
  <2>7. Len(Append(g, y)) = n + 1
    BY <1>2, <1>3, <1>4, <2>1, AppendProperties
  <2> QED BY <2>1, <2>4, <2>6, <2>7, SeqEqual
<1>6. FlattenSeq(h) = FlattenSeq(g) \o y
  BY <1>3, <1>4, <1>5, FlattenAppend
<1> QED BY <1>1, <1>4, <1>6 DEF Kept

LEMMA KeptNone ==
    ASSUME NEW T, NEW s \in Seq(T), NEW p, \A j \in 1 .. Len(s) : j \notin p
    PROVE  Kept(s, p) = <<>>
<1>1. Picked(s, p) = {}
  BY LenProperties DEF Picked
<1>2. Kept(s, p) \in Seq({})
  BY <1>1, KeptType
<1>3. ASSUME Kept(s, p) # <<>> PROVE FALSE
  <2>1. Len(Kept(s, p)) \in Nat \ {0}
    BY <1>2, <1>3, EmptySeq
  <2>2. 1 \in 1 .. Len(Kept(s, p))
    BY <2>1
  <2> QED BY <1>2, <2>2, ElementOfSeq
<1> QED BY <1>3

LEMMA KeptAll ==
    ASSUME NEW T, NEW s \in Seq(T), NEW p, \A j \in 1 .. Len(s) : j \in p
    PROVE  Kept(s, p) = s
<1> DEFINE S == {r \in Seq(T) : Kept(r, 1 .. Len(r)) = r}
<1>1. <<>> \in S
  <2>1. <<>> \in Seq(T) /\ \A j \in 1 .. Len(<<>>) : j \notin 1 .. Len(<<>>)
    BY EmptySeq
  <2> QED BY <2>1, KeptNone
<1>2. ASSUME NEW r \in Seq(T), NEW x \in T, r \in S PROVE Append(r, x) \in S
  <2>1. PICK n : n = Len(r)
    OBVIOUS
  <2>2. n \in Nat /\ Len(Append(r, x)) = n + 1 /\ Append(r, x) \in Seq(T)
    BY <2>1, LenProperties, AppendProperties
  <2>3. Kept(Append(r, x), 1 .. n + 1) = Kept(r, 1 .. n + 1) \o <<x>>
    <3>1. n + 1 \in 1 .. n + 1
      BY <2>2
    <3> QED BY <2>1, <3>1, KeptAppend
  <2>4. Kept(r, 1 .. n + 1) = Kept(r, 1 .. n)
    <3>1. \A j \in 1 .. Len(r) : j \in 1 .. n + 1 <=> j \in 1 .. n
      BY <2>1, <2>2
    <3> QED BY <3>1, KeptSame
  <2>5. Kept(r, 1 .. n) = r
    BY <1>2, <2>1
  <2> QED BY <2>2, <2>3, <2>4, <2>5, AppendIsConcat
<1> HIDE DEF S
<1>3. s \in S
  BY <1>1, <1>2, SeqInduct
<1>4. Kept(s, p) = Kept(s, 1 .. Len(s))
  BY KeptSame
<1> QED BY <1>3, <1>4 DEF S

-----------------------------------------------------------------------------
(* Blocks through rows *)

Stamps == Nat \X Nat
Texts == [class : {"text"}, text : Stamps]
Calls == [class : {"call"}, id : Nat, arguments : Stamps]
Results == [class : {"result"}, tool_call_id : Nat, content : Stamps, is_error : BOOLEAN]
Thoughts == [class : {"opaque"}, protocol : Speech, data : [type : {"reasoning"}, body : Stamps]]
Spokens == Texts \cup Calls \cup Results
Blocks == Spokens \cup Thoughts

Raws == {EncodeBlock(b) : b \in Spokens}
Entries == {PayloadEntry(p[1], p[2]) : p \in Thoughts \X Nat}

LEMMA BlockReturns == ASSUME NEW b \in Spokens PROVE DecodeBlock(EncodeBlock(b)) = b
<1>1. CASE b \in Texts
  BY <1>1 DEF Texts, EncodeBlock, DecodeBlock, TextBlock
<1>2. CASE b \in Calls
  BY <1>2 DEF Calls, EncodeBlock, DecodeBlock, ToolCallBlock
<1>3. CASE b \in Results
  BY <1>3 DEF Results, EncodeBlock, DecodeBlock, ToolResultBlock
<1> QED BY <1>1, <1>2, <1>3 DEF Spokens

LEMMA RawReturns == \A raw \in Raws : DecodeBlock(raw) \in Spokens
BY BlockReturns DEF Raws

LEMMA EntryReturns ==
    ASSUME NEW b \in Thoughts, NEW n \in Nat
    PROVE  /\ PayloadEntry(b, n) \in Entries
           /\ Place(PayloadEntry(b, n)) = n
           /\ OpaqueBlock(PayloadEntry(b, n).protocol, PayloadEntry(b, n).data) = b
           /\ PayloadEntry(b, n) # NoPayload
           /\ "blocks" \notin DOMAIN PayloadEntry(b, n)
<1>1. PayloadEntry(b, n) \in Entries
  <2>1. <<b, n>> \in Thoughts \X Nat
    OBVIOUS
  <2> QED BY <2>1 DEF Entries
<1>2. Place(PayloadEntry(b, n)) = n
  BY DEF Place, PayloadEntry
<1>3. OpaqueBlock(PayloadEntry(b, n).protocol, PayloadEntry(b, n).data) = b
  BY DEF OpaqueBlock, PayloadEntry, Thoughts
<1>4. "protocol" \in DOMAIN PayloadEntry(b, n) /\ "blocks" \notin DOMAIN PayloadEntry(b, n)
  BY DEF PayloadEntry
<1>5. "protocol" \notin DOMAIN NoPayload
  BY DEF NoPayload
<1> QED BY <1>1, <1>2, <1>3, <1>4, <1>5

LEMMA EntryGives ==
    ASSUME NEW e \in Entries
    PROVE  OpaqueBlock(e.protocol, e.data) \in Thoughts /\ Place(e) \in Nat
           /\ e # NoPayload /\ "blocks" \notin DOMAIN e
<1>1. PICK p \in Thoughts \X Nat : e = PayloadEntry(p[1], p[2])
  BY DEF Entries
<1>2. PICK b \in Thoughts, n \in Nat : e = PayloadEntry(b, n)
  BY <1>1
<1> QED BY <1>2, EntryReturns

LEMMA ClassAppend ==
    ASSUME NEW c \in Seq(Blocks), NEW b \in Blocks, NEW class
    PROVE  /\ OfClass(Append(c, b), class)
                = OfClass(c, class) \o IF b.class = class THEN <<b>> ELSE <<>>
           /\ Visible(Append(c, b)) = Visible(c) \o IF b.class # "opaque" THEN <<b>> ELSE <<>>
<1>1. PICK n, d : n = Len(c) /\ d = Append(c, b)
  OBVIOUS
<1>2. /\ n \in Nat /\ DOMAIN c = 1 .. n /\ DOMAIN d = 1 .. n + 1 /\ d[n + 1] = b
      /\ \A j \in 1 .. n : d[j] = c[j]
  BY <1>1, LenProperties, AppendProperties
<1>3. \A j \in 1 .. n : j \in 1 .. n + 1
  BY <1>2
<1>4. OfClass(d, class) = OfClass(c, class) \o IF b.class = class THEN <<b>> ELSE <<>>
  <2>1. PICK p, q : /\ p = {j \in DOMAIN d : d[j].class = class}
                    /\ q = {j \in DOMAIN c : c[j].class = class}
    OBVIOUS
  <2>2. Kept(d, p) = Kept(c, p) \o IF n + 1 \in p THEN <<b>> ELSE <<>>
    BY <1>1, KeptAppend
  <2>3. n + 1 \in p <=> b.class = class
    BY <1>2, <2>1
  <2>4. \A j \in 1 .. Len(c) : j \in p <=> j \in q
    BY <1>1, <1>2, <1>3, <2>1
  <2>5. Kept(c, p) = Kept(c, q)
    BY <2>4, KeptSame
  <2> QED BY <2>1, <2>2, <2>3, <2>5 DEF OfClass
<1>5. Visible(d) = Visible(c) \o IF b.class # "opaque" THEN <<b>> ELSE <<>>
  <2>1. PICK p, q : /\ p = {j \in DOMAIN d : d[j].class # "opaque"}
                    /\ q = {j \in DOMAIN c : c[j].class # "opaque"}
    OBVIOUS
  <2>2. Kept(d, p) = Kept(c, p) \o IF n + 1 \in p THEN <<b>> ELSE <<>>
    BY <1>1, KeptAppend
  <2>3. n + 1 \in p <=> b.class # "opaque"
    BY <1>2, <2>1
  <2>4. \A j \in 1 .. Len(c) : j \in p <=> j \in q
    BY <1>1, <1>2, <1>3, <2>1
  <2>5. Kept(c, p) = Kept(c, q)
    BY <2>4, KeptSame
  <2> QED BY <2>1, <2>2, <2>3, <2>5 DEF Visible
<1> QED BY <1>1, <1>4, <1>5

LEMMA ClassType ==
    ASSUME NEW c \in Seq(Blocks), NEW class
    PROVE  /\ OfClass(c, class) \in Seq({b \in Blocks : b.class = class})
           /\ Visible(c) \in Seq(Spokens)
<1>1. \A j \in DOMAIN c : c[j] \in Blocks
  BY LenProperties
<1>2. PICK p : p = {j \in DOMAIN c : c[j].class = class}
  OBVIOUS
<1>3. Picked(c, p) \subseteq {b \in Blocks : b.class = class}
  BY <1>1, <1>2 DEF Picked
<1>4. PICK q : q = {j \in DOMAIN c : c[j].class # "opaque"}
  OBVIOUS
<1>5. \A b \in Blocks : b.class # "opaque" => b \in Spokens
  BY DEF Blocks, Thoughts
<1>6. Picked(c, q) \subseteq Spokens
  BY <1>1, <1>4, <1>5 DEF Picked
<1> QED BY <1>2, <1>3, <1>4, <1>6, KeptType, SeqMonotonic DEF OfClass, Visible

\* What the entries hold at one place, after one more entry.
LEMMA ThoughtsAppend ==
    ASSUME NEW es \in Seq(Entries), NEW e \in Entries, NEW n
    PROVE  /\ ThoughtsAt(es, n) \in Seq(Thoughts)
           /\ ThoughtsAt(Append(es, e), n) = ThoughtsAt(es, n)
                \o IF Place(e) = n THEN <<OpaqueBlock(e.protocol, e.data)>> ELSE <<>>
<1>1. PICK m, d, p, q : /\ m = Len(es) /\ d = Append(es, e)
                        /\ p = {j \in DOMAIN d : Place(d[j]) = n}
                        /\ q = {j \in DOMAIN es : Place(es[j]) = n}
  OBVIOUS
<1>2. /\ m \in Nat /\ DOMAIN es = 1 .. m /\ DOMAIN d = 1 .. m + 1 /\ d[m + 1] = e
      /\ \A j \in 1 .. m : d[j] = es[j]
  BY <1>1, LenProperties, AppendProperties
<1>3. Kept(d, p) = Kept(es, p) \o IF m + 1 \in p THEN <<e>> ELSE <<>>
  <2>1. Kept(Append(es, e), p) = Kept(es, p) \o IF Len(es) + 1 \in p THEN <<e>> ELSE <<>>
    BY KeptAppend
  <2> QED BY <1>1, <2>1
<1>4. m + 1 \in p <=> Place(e) = n
  BY <1>1, <1>2
<1>5. \A j \in 1 .. Len(es) : j \in p <=> j \in q
  BY <1>1, <1>2
<1>6. Kept(es, p) = Kept(es, q)
  BY <1>5, KeptSame
<1>7. PICK k \in Seq(Entries) : k = Kept(es, q)
  BY KeptType
<1>8. Kept(d, p) = k \o IF Place(e) = n THEN <<e>> ELSE <<>>
  BY <1>3, <1>4, <1>6, <1>7
<1>9. ASSUME NEW s \in Seq(Entries)
      PROVE  [j \in DOMAIN s |-> OpaqueBlock(s[j].protocol, s[j].data)] \in Seq(Thoughts)
  <2>1. \A x \in Entries : OpaqueBlock(x.protocol, x.data) \in Thoughts
    BY EntryGives
  <2>2. DOMAIN s = 1 .. Len(s) /\ Len(s) \in Nat /\ \A j \in 1 .. Len(s) : s[j] \in Entries
    BY LenProperties
  <2> QED BY <2>1, <2>2
<1>10. ThoughtsAt(es, n) = [j \in DOMAIN k |-> OpaqueBlock(k[j].protocol, k[j].data)]
  BY <1>1, <1>7 DEF ThoughtsAt
<1>11. CASE Place(e) # n
  <2>1. Kept(d, p) = k
    BY <1>7, <1>8, <1>11, ConcatEmptySeq
  <2>2. ThoughtsAt(d, n) = ThoughtsAt(es, n)
    BY <1>1, <1>10, <2>1 DEF ThoughtsAt
  <2> QED BY <1>1, <1>7, <1>9, <1>10, <1>11, <2>2, ConcatEmptySeq
<1>12. CASE Place(e) = n
  <2>1. PICK r, l : r = Append(k, e) /\ l = Len(k)
    OBVIOUS
  <2>2. Kept(d, p) = r
    BY <1>8, <1>12, <2>1, AppendIsConcat
  <2>3. /\ l \in Nat /\ DOMAIN k = 1 .. l /\ DOMAIN r = 1 .. l + 1 /\ r[l + 1] = e
        /\ \A j \in 1 .. l : r[j] = k[j]
    BY <2>1, LenProperties, AppendProperties
  <2>4. PICK x : x = OpaqueBlock(e.protocol, e.data)
    OBVIOUS
  <2>5. PICK u, v : /\ u = [j \in DOMAIN k |-> OpaqueBlock(k[j].protocol, k[j].data)]
                    /\ v = [j \in DOMAIN r |-> OpaqueBlock(r[j].protocol, r[j].data)]
    OBVIOUS
  <2>6. u \in Seq(Thoughts) /\ x \in Thoughts /\ v \in Seq(Thoughts)
    BY <1>9, <2>1, <2>4, <2>5, AppendProperties, EntryGives
  <2>7. Len(u) = l /\ Len(v) = l + 1
    BY <2>3, <2>5, <2>6
  <2>8. v = Append(u, x)
    <3>1. \A j \in 1 .. l : v[j] = u[j]
      BY <2>3, <2>5
    <3>2. v[l + 1] = x
      BY <2>3, <2>4, <2>5
    <3>3. \A j \in 1 .. l + 1 : j \in 1 .. l \/ j = l + 1
      BY <2>3
    <3>4. /\ Append(u, x) \in Seq(Thoughts) /\ Len(Append(u, x)) = l + 1
          /\ \A j \in 1 .. l : Append(u, x)[j] = u[j]
          /\ Append(u, x)[l + 1] = x
      BY <2>6, <2>7, AppendProperties
    <3>5. \A j \in 1 .. Len(v) : v[j] = Append(u, x)[j]
      BY <2>7, <3>1, <3>2, <3>3, <3>4
    <3> QED BY <2>6, <2>7, <3>4, <3>5, SeqEqual
  <2>9. v = u \o <<x>>
    BY <2>6, <2>8, AppendIsConcat
  <2>10. ThoughtsAt(d, n) = v
    BY <1>1, <2>2, <2>5 DEF ThoughtsAt
  <2> QED BY <1>1, <1>10, <1>12, <2>4, <2>5, <2>6, <2>9, <2>10
<1> QED BY <1>11, <1>12

\* v is u with y behind it.
Grows(u, y, v) ==
    /\ v = [j \in 1 .. Len(u) + 1 |-> v[j]]
    /\ \A j \in 1 .. Len(u) : v[j] = u[j]
    /\ v[Len(u) + 1] = y

LEMMA Grown ==
    ASSUME NEW U, NEW u \in Seq(U), NEW y \in U, NEW v, Grows(u, y, v)
    PROVE  v = Append(u, y)
<1>0. PICK n \in Nat : n = Len(u)
  BY LenProperties
<1>1. /\ Append(u, y) \in Seq(U) /\ Len(Append(u, y)) = n + 1
      /\ \A j \in 1 .. n : Append(u, y)[j] = u[j]
      /\ Append(u, y)[n + 1] = y
  BY <1>0, AppendProperties
<1>2. \A j \in 1 .. n + 1 : j \in 1 .. n \/ j = n + 1
  OBVIOUS
<1>3. \A j \in 1 .. n + 1 : v[j] = Append(u, y)[j]
  BY <1>0, <1>1, <1>2 DEF Grows
<1>4. \A j \in 1 .. n + 1 : v[j] \in U
  BY <1>1, <1>3, ElementOfSeq
<1>5. v \in Seq(U) /\ Len(v) = n + 1
  BY <1>0, <1>4 DEF Grows
<1> QED BY <1>1, <1>3, <1>5, SeqEqual

LEMMA PrefixAppend ==
    ASSUME NEW T, NEW s \in Seq(T), NEW x \in T, NEW k \in 0 .. Len(s)
    PROVE  /\ SubSeq(Append(s, x), 1, k) = SubSeq(s, 1, k)
           /\ SubSeq(s, 1, k) \in Seq(T)
<1>1. PICK n, t : n = Len(s) /\ t = Append(s, x)
  OBVIOUS
<1>2. /\ n \in Nat /\ k \in Nat /\ k <= n /\ Len(t) = n + 1
      /\ \A j \in 1 .. n : t[j] = s[j] /\ s[j] \in T
  BY <1>1, LenProperties, AppendProperties
<1>3. 1 \in Int /\ k \in Int /\ \A j \in 1 .. k : s[j] \in T /\ t[j] = s[j]
  BY <1>2
<1>4. \A j \in 1 .. k : t[j] \in T
  BY <1>3
<1>5. /\ SubSeq(s, 1, k) \in Seq(T)
      /\ Len(SubSeq(s, 1, k)) = IF 1 <= k THEN k - 1 + 1 ELSE 0
      /\ \A j \in 1 .. k - 1 + 1 : SubSeq(s, 1, k)[j] = s[1 + j - 1]
  BY <1>3, SubSeqProperties
<1>6. /\ SubSeq(t, 1, k) \in Seq(T)
      /\ Len(SubSeq(t, 1, k)) = IF 1 <= k THEN k - 1 + 1 ELSE 0
      /\ \A j \in 1 .. k - 1 + 1 : SubSeq(t, 1, k)[j] = t[1 + j - 1]
  BY <1>3, <1>4, SubSeqProperties
<1>7. \A j \in 1 .. k : j \in 1 .. k - 1 + 1 /\ 1 + j - 1 = j
  BY <1>2
<1>8. Len(SubSeq(s, 1, k)) = k /\ Len(SubSeq(t, 1, k)) = k
  BY <1>2, <1>5, <1>6
<1>9. \A j \in 1 .. k : SubSeq(t, 1, k)[j] = SubSeq(s, 1, k)[j]
  BY <1>3, <1>5, <1>6, <1>7
<1>10. SubSeq(t, 1, k) = SubSeq(s, 1, k)
  BY <1>5, <1>6, <1>8, <1>9, SeqEqual
<1> QED BY <1>1, <1>5, <1>10

EntryOf(c, j) ==
    IF c[j].class = "opaque" THEN <<PayloadEntry(c[j], Len(Visible(SubSeq(c, 1, j - 1))))>>
    ELSE <<>>

LEMMA EntryType ==
    ASSUME NEW c \in Seq(Blocks), NEW j \in 1 .. Len(c)
    PROVE  EntryOf(c, j) \in Seq(Entries)
<1>1. Len(c) \in Nat /\ c[j] \in Blocks
  BY LenProperties
<1>2. CASE c[j].class = "opaque"
  <2>1. c[j] \in Thoughts
    BY <1>1, <1>2 DEF Blocks, Spokens, Texts, Calls, Results
  <2>2. SubSeq(c, 1, j - 1) \in Seq(Blocks)
    <3>1. 1 \in Int /\ j - 1 \in Int /\ \A i \in 1 .. j - 1 : c[i] \in Blocks
      BY <1>1, LenProperties
    <3> QED BY <3>1, SubSeqProperties
  <2>3. Len(Visible(SubSeq(c, 1, j - 1))) \in Nat
    BY <2>2, ClassType, LenProperties
  <2>4. PICK e \in Entries : e = PayloadEntry(c[j], Len(Visible(SubSeq(c, 1, j - 1))))
    BY <2>1, <2>3, EntryReturns
  <2> QED BY <1>2, <2>4 DEF EntryOf
<1>3. CASE c[j].class # "opaque"
  BY <1>3, EmptySeq DEF EntryOf
<1> QED BY <1>2, <1>3

\* The encoding of one more block.
LEMMA EncodeAppend ==
    ASSUME NEW c \in Seq(Blocks), NEW b \in Blocks
    PROVE  LET e == EncodeContent(c)
               f == EncodeContent(Append(c, b))
           IN /\ e.content \in Seq(Raws) /\ e.opaque \in Seq(Entries)
              /\ Len(e.content) = Len(Visible(c))
              /\ b \in Spokens => /\ f.content = Append(e.content, EncodeBlock(b))
                                  /\ f.opaque = e.opaque
              /\ b \in Thoughts => /\ f.content = e.content
                                   /\ f.opaque = Append(e.opaque, PayloadEntry(b, Len(e.content)))
<1>1. PICK n, d, g, h : /\ n = Len(c) /\ d = Append(c, b)
                        /\ g = [j \in DOMAIN c |-> EntryOf(c, j)]
                        /\ h = [j \in DOMAIN d |-> EntryOf(d, j)]
  OBVIOUS
<1>2. /\ n \in Nat /\ DOMAIN c = 1 .. n /\ DOMAIN d = 1 .. n + 1 /\ d[n + 1] = b
      /\ \A j \in 1 .. n : d[j] = c[j]
      /\ d \in Seq(Blocks) /\ Len(d) = n + 1
  BY <1>1, LenProperties, AppendProperties
<1>3. PICK y : y = EntryOf(d, n + 1)
  OBVIOUS
<1>4. g \in Seq(Seq(Entries)) /\ Len(g) = n
  <2>1. \A j \in 1 .. n : g[j] \in Seq(Entries)
    BY <1>1, <1>2, EntryType
  <2> QED BY <1>1, <1>2, <2>1
<1>5. h = Append(g, y)
  <2>1. \A j \in 1 .. n : h[j] = g[j]
    <3>1. TAKE j \in 1 .. n
    <3>2. j - 1 \in 0 .. Len(c) /\ j \in 1 .. n + 1
      BY <1>1, <1>2
    <3>3. SubSeq(d, 1, j - 1) = SubSeq(c, 1, j - 1)
      BY <1>1, <3>2, PrefixAppend
    <3>4. EntryOf(d, j) = EntryOf(c, j)
      BY <1>2, <3>3 DEF EntryOf
    <3> QED BY <1>1, <1>2, <3>2, <3>4
  <2>2. h[n + 1] = y /\ h = [j \in 1 .. n + 1 |-> h[j]]
    BY <1>1, <1>2, <1>3
  <2>3. y \in Seq(Entries)
    <3>1. n + 1 \in 1 .. Len(d)
      BY <1>2
    <3> QED BY <1>2, <1>3, <3>1, EntryType
  <2>4. Grows(g, y, h)
    BY <1>4, <2>1, <2>2 DEF Grows
  <2> QED BY <1>4, <2>3, <2>4, Grown
<1>6. y = IF b.class = "opaque" THEN <<PayloadEntry(b, Len(Visible(c)))>> ELSE <<>>
  <2>1. n + 1 - 1 = n /\ n \in 0 .. Len(c)
    BY <1>1, <1>2
  <2>2. SubSeq(d, 1, n) = c
    BY <1>1, <2>1, PrefixAppend, SubSeqFull
  <2>3. d[n + 1] = b
    BY <1>2
  <2>4. PICK i, z : i = n + 1 /\ z = SubSeq(d, 1, i - 1)
    OBVIOUS
  <2>5. EntryOf(d, i) = IF d[i].class = "opaque" THEN <<PayloadEntry(d[i], Len(Visible(z)))>> ELSE <<>>
    BY <2>4, Zenon DEF EntryOf
  <2>6. z = c
    <3>1. i - 1 = n
      BY <1>2, <2>4
    <3> QED BY <2>2, <2>4, <3>1
  <2>7. d[i] = b
    BY <2>3, <2>4
  <2>8. y = EntryOf(d, i)
    BY <1>3, <2>4, Zenon
  <2> QED BY <2>5, <2>6, <2>7, <2>8, Zenon
<1>7. y \in Seq(Entries)
  <2>1. n + 1 \in 1 .. Len(d)
    BY <1>2
  <2> QED BY <1>2, <1>3, <2>1, EntryType
<1>8. FlattenSeq(g) \in Seq(Entries) /\ FlattenSeq(h) = FlattenSeq(g) \o y
  BY <1>4, <1>5, <1>7, FlattenAppend
<1>9. /\ EncodeContent(c).opaque = FlattenSeq(g)
      /\ EncodeContent(d).opaque = FlattenSeq(h)
  BY <1>1 DEF EncodeContent, EntryOf
<1>10. PICK u, v : u = EncodeContent(c).content /\ v = EncodeContent(d).content
  OBVIOUS
<1>11. PICK s \in Seq(Spokens), r \in Seq(Spokens) : s = Visible(c) /\ r = Visible(d)
  BY <1>2, ClassType
<1>12. u = [j \in DOMAIN s |-> EncodeBlock(s[j])] /\ v = [j \in DOMAIN r |-> EncodeBlock(r[j])]
  BY <1>10, <1>11 DEF EncodeContent
<1>13. PICK m : m = Len(s)
  OBVIOUS
<1>14. m \in Nat /\ DOMAIN s = 1 .. m /\ \A j \in 1 .. m : s[j] \in Spokens
  BY <1>13, LenProperties
<1>15. \A j \in 1 .. m : u[j] \in Raws
  BY <1>12, <1>14 DEF Raws
<1>16. u \in Seq(Raws) /\ Len(u) = m
  BY <1>12, <1>14, <1>15
<1>17. r = s \o IF b.class # "opaque" THEN <<b>> ELSE <<>>
  BY <1>1, <1>11, ClassAppend
<1>18. ASSUME b \in Spokens PROVE v = Append(u, EncodeBlock(b)) /\ FlattenSeq(h) = FlattenSeq(g)
  <2>1. b.class # "opaque"
    BY <1>18 DEF Spokens, Texts, Calls, Results
  <2>2. r = Append(s, b)
    BY <1>17, <1>18, <2>1, AppendIsConcat
  <2>3. /\ DOMAIN r = 1 .. m + 1 /\ r[m + 1] = b /\ \A j \in 1 .. m : r[j] = s[j]
    BY <1>13, <1>14, <1>18, <2>2, LenProperties, AppendProperties
  <2>4. \A j \in 1 .. m : v[j] = u[j]
    BY <1>12, <1>14, <2>3
  <2>5. v[m + 1] = EncodeBlock(b) /\ v = [j \in 1 .. m + 1 |-> v[j]]
    BY <1>12, <1>14, <2>3
  <2>6. EncodeBlock(b) \in Raws
    BY <1>18 DEF Raws
  <2>7. v = Append(u, EncodeBlock(b))
    <3>1. Grows(u, EncodeBlock(b), v)
      BY <1>16, <2>4, <2>5 DEF Grows
    <3> QED BY <1>16, <2>6, <3>1, Grown
  <2>8. FlattenSeq(h) = FlattenSeq(g)
    BY <1>6, <1>8, <2>1, ConcatEmptySeq
  <2> QED BY <2>7, <2>8
<1>19. ASSUME b \in Thoughts
       PROVE  v = u /\ FlattenSeq(h) = Append(FlattenSeq(g), PayloadEntry(b, m))
  <2>1. b.class = "opaque"
    BY <1>19 DEF Thoughts
  <2>2. r = s
    BY <1>17, <2>1, ConcatEmptySeq
  <2>3. PayloadEntry(b, m) \in Entries
    BY <1>14, <1>19, EntryReturns
  <2>4. FlattenSeq(h) = FlattenSeq(g) \o <<PayloadEntry(b, m)>>
    BY <1>6, <1>8, <1>11, <1>13, <2>1
  <2> QED BY <1>8, <1>12, <2>2, <2>3, <2>4, AppendIsConcat
<1> QED BY <1>1, <1>8, <1>9, <1>10, <1>11, <1>13, <1>16, <1>18, <1>19

\* What decode_message makes of the blocks and the entries of a row.
Decoded(content, entries) ==
    FlattenSeq([j \in DOMAIN content |->
                    ThoughtsAt(entries, j - 1) \o <<DecodeBlock(content[j])>>])
        \o ThoughtsAt(entries, Len(content))

Before(entries, n) == \A j \in DOMAIN entries : Place(entries[j]) <= n

LEMMA ThoughtsNowhere ==
    ASSUME NEW es \in Seq(Entries), NEW n \in Nat, Before(es, n)
    PROVE  ThoughtsAt(es, n + 1) = <<>>
<1>1. \A j \in DOMAIN es : Place(es[j]) # n + 1
  <2>1. TAKE j \in DOMAIN es
  <2>2. es[j] \in Entries
    BY LenProperties
  <2>3. Place(es[j]) \in Nat
    BY <2>2, EntryGives
  <2> QED BY <2>3 DEF Before
<1>2. PICK q : q = {j \in DOMAIN es : Place(es[j]) = n + 1}
  OBVIOUS
<1>3. \A j \in 1 .. Len(es) : j \notin q
  BY <1>1, <1>2
<1>4. Kept(es, q) = <<>>
  BY <1>3, KeptNone
<1>5. ThoughtsAt(es, n + 1) = [j \in DOMAIN <<>> |-> OpaqueBlock(<<>>[j].protocol, <<>>[j].data)]
  BY <1>2, <1>4 DEF ThoughtsAt
<1> QED BY <1>5

\* The pieces a row is put together from.
PieceOf(content, entries, j) == ThoughtsAt(entries, j - 1) \o <<DecodeBlock(content[j])>>

LEMMA ThoughtsType ==
    ASSUME NEW es \in Seq(Entries), NEW n
    PROVE  ThoughtsAt(es, n) \in Seq(Blocks)
<1>1. CASE Entries = {}
  <2>1. es = <<>>
    BY <1>1, EmptySeq, ElementOfSeq
  <2>2. Kept(es, {j \in DOMAIN es : Place(es[j]) = n}) = <<>>
    BY <2>1, KeptNothing
  <2>3. ThoughtsAt(es, n) = [j \in DOMAIN <<>> |-> OpaqueBlock(<<>>[j].protocol, <<>>[j].data)]
    BY <2>2 DEF ThoughtsAt
  <2> QED BY <2>3
<1>2. CASE Entries # {}
  <2>1. PICK e \in Entries : TRUE
    BY <1>2
  <2>2. ThoughtsAt(es, n) \in Seq(Thoughts)
    BY <2>1, ThoughtsAppend
  <2>3. Thoughts \subseteq Blocks
    BY DEF Blocks
  <2> QED BY <2>2, <2>3, SeqMonotonic
<1> QED BY <1>1, <1>2

LEMMA PieceType ==
    ASSUME NEW content \in Seq(Raws), NEW es \in Seq(Entries), NEW j \in 1 .. Len(content)
    PROVE  PieceOf(content, es, j) \in Seq(Blocks)
<1>1. DecodeBlock(content[j]) \in Blocks
  BY RawReturns, ElementOfSeq DEF Blocks
<1>2. <<DecodeBlock(content[j])>> \in Seq(Blocks)
  BY <1>1
<1> QED BY <1>2, ThoughtsType, ConcatProperties DEF PieceOf

PiecesOf(content, es) == [j \in DOMAIN content |-> PieceOf(content, es, j)]

LEMMA PiecesType ==
    ASSUME NEW content \in Seq(Raws), NEW es \in Seq(Entries)
    PROVE  /\ PiecesOf(content, es) \in Seq(Seq(Blocks))
           /\ Len(PiecesOf(content, es)) = Len(content)
           /\ FlattenSeq(PiecesOf(content, es)) \in Seq(Blocks)
           /\ Decoded(content, es) = FlattenSeq(PiecesOf(content, es)) \o ThoughtsAt(es, Len(content))
<1>1. PICK n : n = Len(content)
  OBVIOUS
<1>2. n \in Nat /\ DOMAIN content = 1 .. n
  BY <1>1, LenProperties
<1>3. \A j \in 1 .. n : PiecesOf(content, es)[j] \in Seq(Blocks)
  BY <1>1, <1>2, PieceType DEF PiecesOf
<1>4. PiecesOf(content, es) \in Seq(Seq(Blocks)) /\ Len(PiecesOf(content, es)) = n
  BY <1>2, <1>3 DEF PiecesOf
<1>5. FlattenSeq(PiecesOf(content, es)) \in Seq(Blocks)
  BY <1>4, FlattenAppend, EmptySeq
<1> QED BY <1>1, <1>4, <1>5 DEF Decoded, PiecesOf, PieceOf

\* One more block of the content, behind all thoughts.
LEMMA DecodedVisible ==
    ASSUME NEW content \in Seq(Raws), NEW raw \in Raws, NEW es \in Seq(Entries),
           Before(es, Len(content))
    PROVE  Decoded(Append(content, raw), es) = Append(Decoded(content, es), DecodeBlock(raw))
<1>1. PICK n, d, g, h, y : /\ n = Len(content) /\ d = Append(content, raw)
                           /\ g = PiecesOf(content, es) /\ h = PiecesOf(d, es)
                           /\ y = PieceOf(d, es, n + 1)
  OBVIOUS
<1>2. /\ n \in Nat /\ DOMAIN content = 1 .. n /\ DOMAIN d = 1 .. n + 1 /\ d[n + 1] = raw
      /\ \A j \in 1 .. n : d[j] = content[j]
      /\ d \in Seq(Raws) /\ Len(d) = n + 1
  BY <1>1, LenProperties, AppendProperties
<1>3. g \in Seq(Seq(Blocks)) /\ Len(g) = n /\ FlattenSeq(g) \in Seq(Blocks)
  BY <1>1, PiecesType
<1>4. y \in Seq(Blocks)
  <2>1. n + 1 \in 1 .. Len(d)
    BY <1>2
  <2> QED BY <1>1, <1>2, <2>1, PieceType
<1>5. h = Append(g, y)
  <2>1. \A j \in 1 .. n : h[j] = g[j]
    <3>1. TAKE j \in 1 .. n
    <3>2. j \in 1 .. n + 1 /\ d[j] = content[j]
      BY <1>2
    <3>3. PieceOf(d, es, j) = PieceOf(content, es, j)
      BY <3>2 DEF PieceOf
    <3> QED BY <1>1, <1>2, <3>2, <3>3 DEF PiecesOf
  <2>2. h = [j \in 1 .. n + 1 |-> h[j]] /\ h[n + 1] = y
    BY <1>1, <1>2 DEF PiecesOf
  <2>3. Grows(g, y, h)
    BY <1>3, <2>1, <2>2 DEF Grows
  <2> QED BY <1>3, <1>4, <2>3, Grown
<1>6. FlattenSeq(h) = FlattenSeq(g) \o y
  BY <1>3, <1>4, <1>5, FlattenAppend
<1>7. PICK at, b : at = ThoughtsAt(es, n) /\ b = DecodeBlock(raw)
  OBVIOUS
<1>8. at \in Seq(Blocks) /\ b \in Blocks /\ <<b>> \in Seq(Blocks)
  BY <1>7, ThoughtsType, RawReturns DEF Blocks
<1>9. y = at \o <<b>>
  <2>1. n + 1 - 1 = n
    BY <1>2
  <2> QED BY <1>1, <1>2, <1>7, <2>1 DEF PieceOf
<1>10. ThoughtsAt(es, n + 1) = <<>>
  BY <1>1, <1>2, ThoughtsNowhere
<1>11. Decoded(d, es) = FlattenSeq(h)
  <2>1. Decoded(d, es) = FlattenSeq(h) \o <<>> /\ FlattenSeq(h) \in Seq(Blocks)
    BY <1>1, <1>2, <1>10, PiecesType
  <2> QED BY <2>1, ConcatEmptySeq
<1>12. Decoded(content, es) = FlattenSeq(g) \o at
  BY <1>1, <1>7, PiecesType
<1>13. FlattenSeq(g) \o (at \o <<b>>) = (FlattenSeq(g) \o at) \o <<b>>
  BY <1>3, <1>8, ConcatAssociative
<1>14. FlattenSeq(g) \o at \in Seq(Blocks)
  BY <1>3, <1>8, ConcatProperties
<1> QED BY <1>1, <1>6, <1>7, <1>8, <1>9, <1>11, <1>12, <1>13, <1>14, AppendIsConcat

\* One more thought, whose place is the end of the content.
LEMMA DecodedThought ==
    ASSUME NEW content \in Seq(Raws), NEW es \in Seq(Entries), NEW e \in Entries,
           Place(e) = Len(content)
    PROVE  Decoded(content, Append(es, e))
                = Append(Decoded(content, es), OpaqueBlock(e.protocol, e.data))
<1>1. PICK n, es2, b : /\ n = Len(content) /\ es2 = Append(es, e)
                       /\ b = OpaqueBlock(e.protocol, e.data)
  OBVIOUS
<1>2. n \in Nat /\ DOMAIN content = 1 .. n /\ es2 \in Seq(Entries)
  BY <1>1, LenProperties, AppendProperties
<1>3. PiecesOf(content, es2) = PiecesOf(content, es)
  <2>1. ASSUME NEW j \in 1 .. n PROVE PieceOf(content, es2, j) = PieceOf(content, es, j)
    <3>1. Place(e) # j - 1
      BY <1>1, <1>2
    <3>2. ThoughtsAt(es2, j - 1) = ThoughtsAt(es, j - 1) \o <<>>
      BY <1>1, <3>1, ThoughtsAppend
    <3>3. ThoughtsAt(es2, j - 1) = ThoughtsAt(es, j - 1)
      BY <3>2, ThoughtsType, ConcatEmptySeq
    <3> QED BY <3>3 DEF PieceOf
  <2> QED BY <1>2, <2>1 DEF PiecesOf
<1>4. ThoughtsAt(es2, n) = ThoughtsAt(es, n) \o <<b>>
  BY <1>1, ThoughtsAppend
<1>5. PICK f, at : f = FlattenSeq(PiecesOf(content, es)) /\ at = ThoughtsAt(es, n)
  OBVIOUS
<1>6. f \in Seq(Blocks) /\ at \in Seq(Blocks) /\ b \in Blocks /\ <<b>> \in Seq(Blocks)
  <2>1. b \in Blocks
    BY <1>1, EntryGives DEF Blocks
  <2> QED BY <1>5, <2>1, PiecesType, ThoughtsType
<1>7. Decoded(content, es2) = f \o (at \o <<b>>) /\ Decoded(content, es) = f \o at
  BY <1>1, <1>2, <1>3, <1>4, <1>5, PiecesType
<1>8. f \o (at \o <<b>>) = (f \o at) \o <<b>> /\ f \o at \in Seq(Blocks)
  BY <1>6, ConcatAssociative, ConcatProperties
<1> QED BY <1>1, <1>6, <1>7, <1>8, AppendIsConcat

\* Encoding and decoding give back what was encoded.
RoundTrip(c) ==
    LET e == EncodeContent(c)
    IN /\ Before(e.opaque, Len(e.content))
       /\ Decoded(e.content, e.opaque) = c
       /\ Decoded(e.content, <<>>) = Visible(c)

LEMMA NothingReturns == RoundTrip(<<>>)
<1>1. Visible(<<>>) = <<>>
  BY KeptNothing DEF Visible
<1>2. EncodeContent(<<>>).content = <<>> /\ EncodeContent(<<>>).opaque = <<>>
  <2>1. EncodeContent(<<>>).content = [j \in DOMAIN <<>> |-> EncodeBlock(<<>>[j])]
    BY <1>1 DEF EncodeContent
  <2>2. EncodeContent(<<>>).opaque = FlattenSeq([j \in DOMAIN <<>> |-> EntryOf(<<>>, j)])
    BY DEF EncodeContent, EntryOf
  <2>3. \A f : [j \in DOMAIN <<>> |-> f[j]] = <<>>
    OBVIOUS
  <2>4. [j \in DOMAIN <<>> |-> EntryOf(<<>>, j)] = <<>>
    OBVIOUS
  <2>5. [j \in DOMAIN <<>> |-> EncodeBlock(<<>>[j])] = <<>>
    OBVIOUS
  <2> QED BY <2>1, <2>2, <2>4, <2>5, FlattenNothing
<1>3. ThoughtsAt(<<>>, 0) = <<>>
  <2>1. Kept(<<>>, {j \in DOMAIN <<>> : Place(<<>>[j]) = 0}) = <<>>
    BY KeptNothing
  <2> QED BY <2>1 DEF ThoughtsAt
<1>4. PiecesOf(<<>>, <<>>) = <<>>
  BY DEF PiecesOf
<1>5. Decoded(<<>>, <<>>) = <<>> \o <<>>
  <2>1. Decoded(<<>>, <<>>) = FlattenSeq(PiecesOf(<<>>, <<>>)) \o ThoughtsAt(<<>>, 0)
    BY EmptySeq, PiecesType
  <2> QED BY <1>3, <1>4, <2>1, FlattenNothing
<1>6. Decoded(<<>>, <<>>) = <<>>
  BY <1>5
<1>7. Before(<<>>, Len(<<>>))
  BY DEF Before
<1> QED BY <1>1, <1>2, <1>6, <1>7 DEF RoundTrip

LEMMA MoreReturns ==
    ASSUME NEW c \in Seq(Blocks), NEW b \in Blocks, RoundTrip(c)
    PROVE  RoundTrip(Append(c, b))
<1>1. PICK content, es, content2, es2 :
         /\ content = EncodeContent(c).content /\ es = EncodeContent(c).opaque
         /\ content2 = EncodeContent(Append(c, b)).content
         /\ es2 = EncodeContent(Append(c, b)).opaque
  OBVIOUS
<1>2. content \in Seq(Raws) /\ es \in Seq(Entries) /\ Len(content) \in Nat
  BY <1>1, EncodeAppend, LenProperties
<1>3. /\ Before(es, Len(content)) /\ Decoded(content, es) = c
      /\ Decoded(content, <<>>) = Visible(c)
  BY <1>1 DEF RoundTrip
<1>4. Visible(c) \in Seq(Blocks)
  <2>1. Spokens \subseteq Blocks
    BY DEF Blocks
  <2> QED BY <2>1, ClassType, SeqMonotonic
<1>5. CASE b \in Spokens
  <2>1. content2 = Append(content, EncodeBlock(b)) /\ es2 = es
    BY <1>1, <1>5, EncodeAppend
  <2>2. EncodeBlock(b) \in Raws /\ DecodeBlock(EncodeBlock(b)) = b
    BY <1>5, BlockReturns DEF Raws
  <2>3. Decoded(content2, es2) = Append(c, b)
    BY <1>2, <1>3, <2>1, <2>2, DecodedVisible
  <2>4. <<>> \in Seq(Entries) /\ Before(<<>>, Len(content))
    BY EmptySeq DEF Before
  <2>5. Decoded(content2, <<>>) = Append(Visible(c), b)
    BY <1>2, <1>3, <2>1, <2>2, <2>4, DecodedVisible
  <2>6. Visible(Append(c, b)) = Append(Visible(c), b)
    <3>1. b.class # "opaque"
      BY <1>5 DEF Spokens, Texts, Calls, Results
    <3>2. Visible(Append(c, b)) = Visible(c) \o <<b>>
      BY <3>1, ClassAppend
    <3> QED BY <1>4, <3>2, AppendIsConcat
  <2>7. Before(es2, Len(content2))
    <3>1. Len(content2) = Len(content) + 1
      BY <1>2, <2>1, <2>2, AppendProperties
    <3>2. \A j \in DOMAIN es : Place(es[j]) \in Nat
      BY <1>2, EntryGives, ElementOfSeq, LenProperties
    <3> QED BY <1>2, <1>3, <2>1, <3>1, <3>2 DEF Before
  <2> QED BY <1>1, <2>3, <2>5, <2>6, <2>7 DEF RoundTrip
<1>6. CASE b \in Thoughts
  <2>1. PICK e : e = PayloadEntry(b, Len(content))
    OBVIOUS
  <2>2. /\ e \in Entries /\ Place(e) = Len(content)
        /\ OpaqueBlock(e.protocol, e.data) = b
    BY <1>2, <1>6, <2>1, EntryReturns
  <2>3. content2 = content /\ es2 = Append(es, e)
    BY <1>1, <1>6, <2>1, EncodeAppend
  <2>4. Decoded(content2, es2) = Append(c, b)
    BY <1>2, <1>3, <2>2, <2>3, DecodedThought
  <2>5. Visible(Append(c, b)) = Visible(c)
    <3>1. b.class = "opaque"
      BY <1>6 DEF Thoughts
    <3> QED BY <1>4, <3>1, ClassAppend, ConcatEmptySeq
  <2>6. Before(es2, Len(content2))
    <3>1. PICK m : m = Len(es)
      OBVIOUS
    <3>2. /\ m \in Nat /\ DOMAIN es = 1 .. m /\ DOMAIN es2 = 1 .. m + 1 /\ es2[m + 1] = e
          /\ \A j \in 1 .. m : es2[j] = es[j]
      BY <1>2, <2>2, <2>3, <3>1, LenProperties, AppendProperties
    <3>3. \A j \in 1 .. m + 1 : j \in 1 .. m \/ j = m + 1
      BY <3>2
    <3>4. Len(content) <= Len(content)
      BY <1>2
    <3> QED BY <1>3, <2>2, <2>3, <3>2, <3>3, <3>4 DEF Before
  <2> QED BY <1>1, <1>3, <2>3, <2>4, <2>5, <2>6 DEF RoundTrip
<1> QED BY <1>5, <1>6 DEF Blocks

LEMMA ContentReturns == \A c \in Seq(Blocks) : RoundTrip(c)
<1> DEFINE S == {c \in Seq(Blocks) : RoundTrip(c)}
<1>1. <<>> \in S
  BY NothingReturns, EmptySeq
<1>2. ASSUME NEW c \in Seq(Blocks), NEW b \in Blocks, c \in S PROVE Append(c, b) \in S
  BY <1>2, MoreReturns, AppendProperties
<1> HIDE DEF S
<1>3. Seq(Blocks) \subseteq S
  BY <1>1, <1>2, SeqInduct
<1> QED BY <1>3 DEF S

-----------------------------------------------------------------------------
(* Rows keep their messages *)

PayloadOf(c) ==
    LET opaque == EncodeContent(c).opaque
    IN CASE Len(opaque) = 0 -> NoPayload
         [] Len(opaque) = 1 -> opaque[1]
         [] Len(opaque) > 1 -> [blocks |-> opaque]

LEMMA PayloadReturns ==
    ASSUME NEW c \in Seq(Blocks)
    PROVE  PayloadBlocks(PayloadOf(c)) = EncodeContent(c).opaque
<1>1. PICK es \in Seq(Entries) : es = EncodeContent(c).opaque
  <2>1. CASE Blocks = {}
    <3>1. c = <<>>
      BY <2>1, EmptySeq, ElementOfSeq
    <3>2. EncodeContent(c).opaque = FlattenSeq([j \in DOMAIN <<>> |-> EntryOf(<<>>, j)])
      BY <3>1 DEF EncodeContent, EntryOf
    <3>3. [j \in DOMAIN <<>> |-> EntryOf(<<>>, j)] = <<>>
      OBVIOUS
    <3> QED BY <3>2, <3>3, FlattenNothing, EmptySeq
  <2>2. CASE Blocks # {}
    BY <2>2, EncodeAppend
  <2> QED BY <2>1, <2>2
<1>2. Len(es) \in Nat
  BY LenProperties
<1>3. CASE Len(es) = 0
  <2>1. es = <<>>
    BY <1>3, EmptySeq
  <2>2. PayloadOf(c) = NoPayload
    BY <1>1, <1>3 DEF PayloadOf
  <2> QED BY <1>1, <2>1, <2>2 DEF PayloadBlocks
<1>4. CASE Len(es) = 1
  <2>1. es[1] \in Entries
    BY <1>4, ElementOfSeq
  <2>2. PayloadOf(c) = es[1]
    BY <1>1, <1>4 DEF PayloadOf
  <2>3. PayloadBlocks(es[1]) = <<es[1]>>
    BY <2>1, EntryGives DEF PayloadBlocks
  <2>4. es = <<es[1]>>
    <3>1. <<es[1]>> \in Seq(Entries) /\ Len(<<es[1]>>) = 1
      BY <2>1
    <3>2. \A j \in 1 .. Len(es) : es[j] = <<es[1]>>[j]
      BY <1>4
    <3> QED BY <1>4, <3>1, <3>2, SeqEqual
  <2> QED BY <1>1, <2>2, <2>3, <2>4
<1>5. CASE Len(es) > 1
  <2>1. PayloadOf(c) = [blocks |-> es]
    BY <1>1, <1>5 DEF PayloadOf
  <2>2. "blocks" \in DOMAIN [blocks |-> es] /\ [blocks |-> es] # NoPayload
    <3>1. "blocks" \notin DOMAIN NoPayload
      BY DEF NoPayload
    <3> QED BY <3>1
  <2> QED BY <1>1, <2>1, <2>2 DEF PayloadBlocks
<1>6. Len(es) = 0 \/ Len(es) = 1 \/ Len(es) > 1
  BY <1>2
<1> QED BY <1>3, <1>4, <1>5, <1>6, Zenon

Roles == {"user", "assistant", "tool"}
Utterances == [role : Roles, content : Seq(Blocks), run : Nat]
Messages == [role : Roles, content : Seq(Blocks)]

\* A row of a message; its payload may be cleared.
RowFits(row, m) ==
    /\ row = [role |-> m.role, content |-> EncodeContent(m.content).content, run |-> m.run,
              payload |-> row.payload]
    /\ row.payload \in {NoPayload, PayloadOf(m.content)}

Speaking == talk.phase # "over"

TalkTypes ==
    /\ talk \in [run : Nat, protocol : Speech \cup {"none"},
                 phase : {"over", "call", "answer", "tools", "end"}]
    /\ Speaking => talk.protocol \in Speech
    /\ said \in Seq(Utterances)
    /\ stored = [k \in 1 .. Len(said) |-> stored[k]]
    /\ Speaking => Len(said) > 0

RowsFit ==
    \A k \in 1 .. Len(said) :
        /\ RowFits(stored[k], said[k])
        /\ said[k].run <= talk.run
        /\ said[k].run = talk.run /\ Speaking => stored[k].payload = PayloadOf(said[k].content)

LEMMA RowReturns ==
    ASSUME NEW m \in Utterances, NEW row, RowFits(row, m)
    PROVE  /\ DecodeMessage(row, FALSE) = Message(m.role, Visible(m.content))
           /\ row.payload = PayloadOf(m.content) =>
                DecodeMessage(row, TRUE) = Message(m.role, m.content)
<1>1. PICK c \in Seq(Blocks) : c = m.content
  BY DEF Utterances
<1>2. row.role = m.role /\ row.content = EncodeContent(c).content
  BY <1>1 DEF RowFits
<1>3. /\ Decoded(row.content, <<>>) = Visible(c)
      /\ Decoded(row.content, EncodeContent(c).opaque) = c
  BY <1>2, ContentReturns DEF RoundTrip
<1>4. DecodeMessage(row, FALSE) = Message(row.role, Decoded(row.content, <<>>))
  BY DEF DecodeMessage, Decoded
<1>5. DecodeMessage(row, TRUE) = Message(row.role, Decoded(row.content, PayloadBlocks(row.payload)))
  BY DEF DecodeMessage, Decoded
<1>6. ASSUME row.payload = PayloadOf(c) PROVE PayloadBlocks(row.payload) = EncodeContent(c).opaque
  BY <1>6, PayloadReturns
<1> QED BY <1>1, <1>2, <1>3, <1>4, <1>5, <1>6

LEMMA RowsKeep == ASSUME TalkTypes, RowsFit PROVE RowsKeepMessages
<1>1. SUFFICES ASSUME NEW k \in DOMAIN stored
               PROVE  /\ DecodeMessage(stored[k], FALSE)
                            = Message(said[k].role, Visible(said[k].content))
                      /\ stored[k].payload # NoPayload =>
                            DecodeMessage(stored[k], TRUE) = Message(said[k].role, said[k].content)
                      /\ stored[k].run = talk.run /\ talk.phase # "over" =>
                            DecodeMessage(stored[k], TRUE) = Message(said[k].role, said[k].content)
  BY Zenon DEF RowsKeepMessages
<1>2. k \in 1 .. Len(said)
  BY DEF TalkTypes
<1>3. said[k] \in Utterances
  BY <1>2, ElementOfSeq DEF TalkTypes
<1>4. /\ RowFits(stored[k], said[k])
      /\ said[k].run = talk.run /\ Speaking => stored[k].payload = PayloadOf(said[k].content)
  BY <1>2 DEF RowsFit
<1>5. /\ stored[k].payload \in {NoPayload, PayloadOf(said[k].content)}
      /\ stored[k].run = said[k].run
  BY <1>4 DEF RowFits
<1> QED BY <1>3, <1>4, <1>5, RowReturns DEF Speaking

-----------------------------------------------------------------------------
(* Each step adds a message to the table and to what was said *)

\* One message more in the table.
LEMMA RowAdded ==
    ASSUME TalkTypes, RowsFit, NEW m \in Utterances, NEW row, said' = Append(said, m),
           stored' = Append(stored, row), RowFits(row, m), row.payload = PayloadOf(m.content),
           talk'.run \in Nat, talk'.run = m.run,
           talk'.run = talk.run => Speaking, talk.run <= talk'.run
    PROVE  /\ said' \in Seq(Utterances)
           /\ stored' = [k \in 1 .. Len(said') |-> stored'[k]]
           /\ RowsFit'
<1>1. PICK n : n = Len(said)
  OBVIOUS
<1>2. /\ n \in Nat /\ said' \in Seq(Utterances) /\ Len(said') = n + 1 /\ said'[n + 1] = m
      /\ \A k \in 1 .. n : said'[k] = said[k] /\ said[k] \in Utterances
  BY <1>1, LenProperties, AppendProperties DEF TalkTypes
<1>3. stored \in Seq({stored[k] : k \in 1 .. n} \cup {row}) /\ Len(stored) = n
  BY <1>1, <1>2 DEF TalkTypes
<1>4. /\ stored' = [k \in 1 .. n + 1 |-> stored'[k]] /\ stored'[n + 1] = row
      /\ \A k \in 1 .. n : stored'[k] = stored[k]
  <2>1. /\ stored' \in Seq({stored[k] : k \in 1 .. n} \cup {row}) /\ Len(stored') = n + 1
        /\ stored'[n + 1] = row /\ \A k \in 1 .. n : stored'[k] = stored[k]
    BY <1>3, AppendProperties
  <2> QED BY <2>1, LenProperties
<1>5. ASSUME NEW k \in 1 .. n + 1
      PROVE  /\ RowFits(stored'[k], said'[k]) /\ said'[k].run <= talk'.run
             /\ said'[k].run = talk'.run /\ Speaking' =>
                    stored'[k].payload = PayloadOf(said'[k].content)
  <2>1. CASE k = n + 1
    BY <1>2, <1>4, <2>1
  <2>2. CASE k # n + 1
    <3>1. k \in 1 .. n /\ stored'[k] = stored[k] /\ said'[k] = said[k]
      BY <1>2, <1>4, <2>2
    <3>2. /\ RowFits(stored[k], said[k]) /\ said[k].run <= talk.run
          /\ said[k].run = talk.run /\ Speaking => stored[k].payload = PayloadOf(said[k].content)
      BY <1>1, <3>1 DEF RowsFit
    <3>3. said[k].run \in Nat /\ talk.run \in Nat
      BY <1>2, <3>1 DEF TalkTypes, Utterances
    <3>4. said[k].run <= talk'.run
      BY <3>2, <3>3
    <3>5. said[k].run = talk'.run => said[k].run = talk.run /\ Speaking
      BY <3>2, <3>3
    <3> QED BY <3>1, <3>2, <3>4, <3>5
  <2> QED BY <2>1, <2>2
<1> QED BY <1>2, <1>4, <1>5 DEF RowsFit

LEMMA RowMade ==
    ASSUME NEW role \in Roles, NEW content \in Seq(Blocks), NEW row, NEW m, talk.run \in Nat,
           row = ModelRow(Message(role, content)),
           m = [role |-> role, content |-> content, run |-> talk.run]
    PROVE  m \in Utterances /\ RowFits(row, m) /\ row.payload = PayloadOf(m.content)
<1>1. m \in Utterances
  BY DEF Utterances
<1>2. row = [role |-> role, content |-> EncodeContent(content).content, run |-> talk.run,
             payload |-> PayloadOf(content)]
  BY DEF ModelRow, Message, PayloadOf
<1> QED BY <1>1, <1>2 DEF RowFits

LEMMA StampType == ASSUME TalkTypes, NEW j \in Nat PROVE Stamp(j) \in Stamps
<1>1. Len(said) + 1 \in Nat
  BY LenProperties DEF TalkTypes
<1> QED BY <1>1 DEF Stamp, Stamps

LEMMA UtterAdds ==
    ASSUME TalkTypes, RowsFit, Speaking, NEW role \in Roles, NEW content \in Seq(Blocks),
           Utter(Message(role, content)), talk'.run = talk.run
    PROVE  /\ said' = Append(said, [role |-> role, content |-> content, run |-> talk.run])
           /\ history' = Append(history, Message(role, content))
           /\ said' \in Seq(Utterances) /\ Len(said') > 0
           /\ stored' = [k \in 1 .. Len(said') |-> stored'[k]]
           /\ RowsFit'
<1>1. PICK row, m : /\ row = ModelRow(Message(role, content))
                    /\ m = [role |-> role, content |-> content, run |-> talk.run]
  OBVIOUS
<1>2. talk.run \in Nat
  BY DEF TalkTypes
<1>3. m \in Utterances /\ RowFits(row, m) /\ row.payload = PayloadOf(m.content)
  BY <1>1, <1>2, RowMade
<1>4. /\ said' = Append(said, m) /\ stored' = Append(stored, row)
      /\ history' = Append(history, Message(role, content))
  BY <1>1 DEF Utter, Message
<1>5. talk'.run \in Nat /\ talk'.run = m.run /\ talk.run <= talk'.run
  BY <1>1, <1>2
<1>6. /\ said' \in Seq(Utterances) /\ stored' = [k \in 1 .. Len(said') |-> stored'[k]] /\ RowsFit'
  BY <1>3, <1>4, <1>5, RowAdded
<1>7. Len(said') > 0
  <2>1. Len(said') = Len(said) + 1 /\ Len(said) \in Nat
    BY <1>3, <1>4, AppendProperties, LenProperties DEF TalkTypes
  <2> QED BY <2>1
<1> QED BY <1>1, <1>4, <1>6, <1>7

LEMMA SpokenType ==
    ASSUME TalkTypes, Speaking, NEW n \in Nat, NEW kinds \in [1 .. n -> SpokenKinds]
    PROVE  /\ Spoken(kinds) \in Seq(Blocks) /\ Len(Spoken(kinds)) = n
           /\ \A j \in 1 .. n :
                /\ Spoken(kinds)[j] \in Texts \cup Calls \cup Thoughts
                /\ Spoken(kinds)[j].class = kinds[j]
                /\ kinds[j] = "call" => Spoken(kinds)[j].id = j
                /\ kinds[j] = "opaque" => Spoken(kinds)[j].protocol = talk.protocol
<1>1. ASSUME NEW j \in 1 .. n
      PROVE  /\ Spoken(kinds)[j] \in Texts \cup Calls \cup Thoughts
             /\ Spoken(kinds)[j].class = kinds[j]
             /\ kinds[j] = "call" => Spoken(kinds)[j].id = j
             /\ kinds[j] = "opaque" => Spoken(kinds)[j].protocol = talk.protocol
  <2>1. j \in Nat /\ Stamp(j) \in Stamps /\ talk.protocol \in Speech
    BY StampType DEF TalkTypes
  <2>2. CASE kinds[j] = "text"
    BY <2>1, <2>2 DEF Spoken, SpokenBlock, TextBlock, Texts
  <2>3. CASE kinds[j] = "call"
    BY <2>1, <2>3 DEF Spoken, SpokenBlock, ToolCallBlock, Calls
  <2>4. CASE kinds[j] = "opaque"
    BY <2>1, <2>4 DEF Spoken, SpokenBlock, OpaqueBlock, Thoughts
  <2> QED BY <2>2, <2>3, <2>4 DEF SpokenKinds
<1>2. \A j \in 1 .. n : Spoken(kinds)[j] \in Blocks
  BY <1>1 DEF Blocks, Spokens
<1>3. Spoken(kinds) \in Seq(Blocks) /\ Len(Spoken(kinds)) = n
  <2>1. DOMAIN kinds = 1 .. n
    OBVIOUS
  <2>2. Spoken(kinds) = [j \in 1 .. n |-> Spoken(kinds)[j]]
    BY <2>1 DEF Spoken
  <2> QED BY <1>2, <2>2
<1> QED BY <1>1, <1>3

\* What the tools answer to a list of calls.
Replies(calls, replied) ==
    /\ replied \in Seq(Results) /\ Len(replied) = Len(calls)
    /\ \A j \in 1 .. Len(calls) : replied[j].tool_call_id = calls[j].id

ToolContent ==
    LET calls == OfClass(Last(said).content, "call")
    IN [j \in DOMAIN calls |-> ToolResultBlock(calls[j].id, Stamp(j), FALSE)]

LEMMA ToolContentType ==
    ASSUME TalkTypes, Speaking
    PROVE  /\ Replies(OfClass(Last(said).content, "call"), ToolContent)
           /\ ToolContent \in Seq(Blocks)
<1>1. Last(said) \in Utterances
  <2>1. Len(said) \in Nat /\ Len(said) \in 1 .. Len(said)
    BY LenProperties DEF TalkTypes
  <2> QED BY <2>1, ElementOfSeq DEF TalkTypes, Last
<1>2. PICK calls, n : calls = OfClass(Last(said).content, "call") /\ n = Len(calls)
  OBVIOUS
<1>3. calls \in Seq({b \in Blocks : b.class = "call"})
  <2>1. Last(said).content \in Seq(Blocks)
    BY <1>1 DEF Utterances
  <2> QED BY <1>2, <2>1, ClassType
<1>4. /\ n \in Nat /\ DOMAIN calls = 1 .. n
      /\ \A j \in 1 .. n : calls[j] \in Blocks /\ calls[j].class = "call"
  BY <1>2, <1>3, LenProperties
<1>5. \A j \in 1 .. n : calls[j].id \in Nat
  BY <1>4 DEF Blocks, Spokens, Texts, Calls, Results, Thoughts
<1>6. ASSUME NEW j \in 1 .. n
      PROVE  ToolContent[j] \in Results /\ ToolContent[j].tool_call_id = calls[j].id
  <2>1. j \in Nat /\ Stamp(j) \in Stamps
    BY <1>4, StampType
  <2>2. ToolContent[j] = ToolResultBlock(calls[j].id, Stamp(j), FALSE)
    BY <1>2, <1>4 DEF ToolContent
  <2> QED BY <1>5, <2>1, <2>2 DEF ToolResultBlock, Results
<1>7. ToolContent = [j \in 1 .. n |-> ToolContent[j]]
  BY <1>2, <1>4 DEF ToolContent
<1>8. ToolContent \in Seq(Results) /\ Len(ToolContent) = n
  BY <1>4, <1>6, <1>7
<1>9. Results \subseteq Blocks
  BY DEF Blocks, Spokens
<1> QED BY <1>2, <1>6, <1>8, <1>9, SeqMonotonic DEF Replies

QuestionRow == Message("user", <<TextBlock(Stamp(1))>>)

LEMMA AskKeeps ==
    ASSUME TalkTypes, RowsFit, NEW kind \in Speech, AskQuestion(kind)
    PROVE  /\ TalkTypes' /\ RowsFit'
           /\ said' = Append(said, [role |-> "user", content |-> <<TextBlock(Stamp(1))>>,
                                    run |-> talk.run + 1])
           /\ TextBlock(Stamp(1)) \in Texts
<1>1. PICK content, row, m :
         /\ content = <<TextBlock(Stamp(1))>>
         /\ row = [ModelRow(Message("user", content)) EXCEPT !.run = talk.run + 1]
         /\ m = [role |-> "user", content |-> content, run |-> talk.run + 1]
  OBVIOUS
<1>2. /\ talk.phase = "over" /\ talk' = [run |-> talk.run + 1, protocol |-> kind, phase |-> "call"]
      /\ stored' = Append(stored, row) /\ said' = Append(said, m)
  BY <1>1 DEF AskQuestion, Message
<1>3. talk.run \in Nat
  BY DEF TalkTypes
<1>4. TextBlock(Stamp(1)) \in Texts
  BY StampType DEF TextBlock, Texts
<1>5. content \in Seq(Blocks)
  <2>1. TextBlock(Stamp(1)) \in Blocks
    BY <1>4 DEF Blocks, Spokens
  <2> QED BY <1>1, <2>1
<1>6. m \in Utterances
  BY <1>1, <1>3, <1>5 DEF Utterances, Roles
<1>7. row = [role |-> "user", content |-> EncodeContent(content).content, run |-> talk.run + 1,
             payload |-> PayloadOf(content)]
  BY <1>1 DEF ModelRow, Message, PayloadOf
<1>8. RowFits(row, m) /\ row.payload = PayloadOf(m.content)
  BY <1>1, <1>7 DEF RowFits
<1>9. talk'.run \in Nat /\ talk'.run = m.run /\ talk'.run # talk.run /\ talk.run <= talk'.run
  BY <1>1, <1>2, <1>3
<1>10. /\ said' \in Seq(Utterances) /\ stored' = [k \in 1 .. Len(said') |-> stored'[k]] /\ RowsFit'
  BY <1>2, <1>6, <1>8, <1>9, RowAdded
<1>11. Len(said') > 0
  <2>1. Len(said') = Len(said) + 1 /\ Len(said) \in Nat
    BY <1>2, <1>6, AppendProperties, LenProperties DEF TalkTypes
  <2> QED BY <2>1
<1>12. TalkTypes'
  BY <1>2, <1>3, <1>10, <1>11 DEF TalkTypes, Speaking
<1> QED BY <1>1, <1>2, <1>4, <1>10, <1>12

LEMMA SpeaksKeeps ==
    ASSUME TalkTypes, RowsFit, ModelSpeaks
    PROVE  /\ TalkTypes' /\ RowsFit'
           /\ \E n \in Nat : \E kinds \in [1 .. n -> SpokenKinds] :
                 /\ said' = Append(said, [role |-> "assistant", content |-> Spoken(kinds),
                                          run |-> talk.run])
                 /\ history' = Append(history, Message("assistant", Spoken(kinds)))
                 /\ talk' = [talk EXCEPT !.phase = IF \E j \in DOMAIN kinds : kinds[j] = "call"
                                                   THEN "tools" ELSE "end"]
<1>1. Speaking
  BY DEF ModelSpeaks, Speaking
<1>2. PICK n \in Nat : \E kinds \in [1 .. n -> SpokenKinds] :
         /\ Utter(Message("assistant", Spoken(kinds)))
         /\ Phase(IF \E j \in DOMAIN kinds : kinds[j] = "call" THEN "tools" ELSE "end")
  <2>1. PICK kinds \in UNION {[1 .. n -> SpokenKinds] : n \in 0 .. MaxSpoken} :
           /\ Utter(Message("assistant", Spoken(kinds)))
           /\ Phase(IF \E j \in DOMAIN kinds : kinds[j] = "call" THEN "tools" ELSE "end")
    BY DEF ModelSpeaks
  <2>2. PICK n \in 0 .. MaxSpoken : kinds \in [1 .. n -> SpokenKinds]
    BY <2>1
  <2>3. n \in Nat
    BY <2>2, SpokenAssumption
  <2> QED BY <2>1, <2>2, <2>3
<1>3. PICK kinds \in [1 .. n -> SpokenKinds] :
         /\ Utter(Message("assistant", Spoken(kinds)))
         /\ Phase(IF \E j \in DOMAIN kinds : kinds[j] = "call" THEN "tools" ELSE "end")
  BY <1>2
<1>4. PICK phase \in {"tools", "end"} :
         phase = IF \E j \in DOMAIN kinds : kinds[j] = "call" THEN "tools" ELSE "end"
  OBVIOUS
<1>5. talk' = [talk EXCEPT !.phase = phase]
  BY <1>3, <1>4 DEF Phase
<1>6. /\ talk'.run = talk.run /\ talk'.protocol = talk.protocol /\ talk'.phase = phase
      /\ talk' \in [run : Nat, protocol : Speech \cup {"none"},
                    phase : {"over", "call", "answer", "tools", "end"}]
  BY <1>5 DEF TalkTypes
<1>7. Spoken(kinds) \in Seq(Blocks) /\ "assistant" \in Roles
  BY <1>1, SpokenType DEF Roles
<1>8. /\ said' = Append(said, [role |-> "assistant", content |-> Spoken(kinds), run |-> talk.run])
      /\ history' = Append(history, Message("assistant", Spoken(kinds)))
      /\ said' \in Seq(Utterances) /\ Len(said') > 0
      /\ stored' = [k \in 1 .. Len(said') |-> stored'[k]]
      /\ RowsFit'
  BY <1>1, <1>3, <1>6, <1>7, UtterAdds
<1>9. TalkTypes'
  BY <1>1, <1>6, <1>8 DEF TalkTypes, Speaking
<1> QED BY <1>4, <1>5, <1>8, <1>9

LEMMA ToolsKeeps ==
    ASSUME TalkTypes, RowsFit, ToolsAnswer
    PROVE  /\ TalkTypes' /\ RowsFit'
           /\ said' = Append(said, [role |-> "tool", content |-> ToolContent, run |-> talk.run])
           /\ history' = Append(history, Message("tool", ToolContent))
           /\ talk' = [talk EXCEPT !.phase = "call"]
<1>1. Speaking
  BY DEF ToolsAnswer, Speaking
<1>2. Utter(Message("tool", ToolContent)) /\ talk' = [talk EXCEPT !.phase = "call"]
  BY DEF ToolsAnswer, ToolContent, Phase
<1>3. /\ talk'.run = talk.run /\ talk'.protocol = talk.protocol /\ talk'.phase = "call"
      /\ talk' \in [run : Nat, protocol : Speech \cup {"none"},
                    phase : {"over", "call", "answer", "tools", "end"}]
  BY <1>2 DEF TalkTypes
<1>4. ToolContent \in Seq(Blocks) /\ "tool" \in Roles
  BY <1>1, ToolContentType DEF Roles
<1>5. /\ said' = Append(said, [role |-> "tool", content |-> ToolContent, run |-> talk.run])
      /\ history' = Append(history, Message("tool", ToolContent))
      /\ said' \in Seq(Utterances) /\ Len(said') > 0
      /\ stored' = [k \in 1 .. Len(said') |-> stored'[k]]
      /\ RowsFit'
  BY <1>1, <1>2, <1>3, <1>4, UtterAdds
<1>6. TalkTypes'
  BY <1>1, <1>3, <1>5 DEF TalkTypes, Speaking
<1> QED BY <1>2, <1>5, <1>6

\* A step that neither writes a row nor ends a run.
LEMMA PhaseKeeps ==
    ASSUME TalkTypes, RowsFit, UNCHANGED <<stored, said>>,
           NEW phase \in {"call", "answer", "tools", "end"}, Phase(phase), Speaking
    PROVE  TalkTypes' /\ RowsFit'
<1>1. /\ talk'.run = talk.run /\ talk'.protocol = talk.protocol /\ talk'.phase = phase
      /\ talk' \in [run : Nat, protocol : Speech \cup {"none"},
                    phase : {"over", "call", "answer", "tools", "end"}]
  BY DEF TalkTypes, Phase
<1>2. TalkTypes'
  BY <1>1 DEF TalkTypes, Speaking
<1> QED BY <1>1, <1>2 DEF RowsFit, Speaking

LEMMA ClosesKeeps == ASSUME TalkTypes, RowsFit, RunCloses PROVE TalkTypes' /\ RowsFit'
<1>1. /\ talk'.run = talk.run /\ talk'.phase = "over" /\ said' = said
      /\ talk' \in [run : Nat, protocol : Speech \cup {"none"},
                    phase : {"over", "call", "answer", "tools", "end"}]
  BY DEF TalkTypes, RunCloses, Phase
<1>2. PICK n : n = Len(said)
  OBVIOUS
<1>3. DOMAIN stored = 1 .. n
  BY <1>2 DEF TalkTypes
<1>4. PICK cleared \in BOOLEAN : stored' = [k \in 1 .. n |->
         IF cleared /\ stored[k].run = talk.run THEN [stored[k] EXCEPT !.payload = NoPayload]
         ELSE stored[k]]
  BY <1>3 DEF RunCloses
<1>5. stored' = [k \in 1 .. n |-> stored'[k]]
  BY <1>4
<1>6. ASSUME NEW k \in 1 .. n PROVE RowFits(stored'[k], said[k]) /\ said[k].run <= talk.run
  <2>1. RowFits(stored[k], said[k]) /\ said[k].run <= talk.run
    BY <1>2 DEF RowsFit
  <2>2. RowFits([stored[k] EXCEPT !.payload = NoPayload], said[k])
    BY <2>1 DEF RowFits
  <2>3. stored'[k] \in {stored[k], [stored[k] EXCEPT !.payload = NoPayload]}
    BY <1>4
  <2> QED BY <2>1, <2>2, <2>3
<1> QED BY <1>1, <1>2, <1>5, <1>6 DEF TalkTypes, RowsFit, Speaking

LEMMA RowsStay == ASSUME TalkTypes, RowsFit, [TalkNext]_talkVars PROVE TalkTypes' /\ RowsFit'
<1>1. ASSUME NEW kind \in Speech, AskQuestion(kind) PROVE TalkTypes' /\ RowsFit'
  BY <1>1, AskKeeps
<1>2. CASE CallVendor
  BY <1>2, PhaseKeeps DEF CallVendor, Speaking
<1>3. CASE ModelSpeaks
  BY <1>3, SpeaksKeeps
<1>4. CASE ToolsAnswer
  BY <1>4, ToolsKeeps
<1>5. CASE RunBreaks
  BY <1>5, PhaseKeeps DEF RunBreaks, Speaking
<1>6. CASE RunCloses
  BY <1>6, ClosesKeeps
<1>7. CASE UNCHANGED talkVars
  BY <1>7 DEF talkVars, TalkTypes, RowsFit, Speaking
<1> QED BY <1>1, <1>2, <1>3, <1>4, <1>5, <1>6, <1>7 DEF TalkNext

LEMMA RowsStart == ASSUME TalkInit PROVE TalkTypes /\ RowsFit
<1>1. Len(said) = 0 /\ said \in Seq(Utterances) /\ stored = <<>>
  BY EmptySeq DEF TalkInit
<1>2. stored = [k \in 1 .. Len(said) |-> stored[k]]
  BY <1>1
<1> QED BY <1>1, <1>2 DEF TalkInit, TalkTypes, RowsFit, Speaking

\* A row gives its message back: whole as long as its payload is kept, and in
\* particular to the run it belongs to, and without its thoughts at any time
\* (encode_content, append_model_message, decode_message).
THEOREM RowsGiveBack == TalkSpec => []RowsKeepMessages
<1>1. TalkInit => TalkTypes /\ RowsFit
  BY RowsStart
<1>2. TalkTypes /\ RowsFit /\ [TalkNext]_talkVars => (TalkTypes /\ RowsFit)'
  BY RowsStay
<1>3. TalkTypes /\ RowsFit => RowsKeepMessages
  BY RowsKeep
<1> QED BY <1>1, <1>2, <1>3, PTL DEF TalkSpec

-----------------------------------------------------------------------------
(* What the parts of parts amount to *)

Bind(s, f) == FlattenSeq([i \in DOMAIN s |-> f[s[i]]])

LEMMA BindNothing == \A f : Bind(<<>>, f) = <<>>
<1>1. TAKE f
<1>2. [i \in DOMAIN <<>> |-> f[<<>>[i]]] = <<>>
  OBVIOUS
<1> QED BY <1>2, FlattenNothing DEF Bind

Binds(s, f, S, T) ==
    /\ Bind(s, f) \in Seq(T)
    /\ \A x \in S : Bind(Append(s, x), f) = Bind(s, f) \o f[x]

LEMMA BindAppend ==
    ASSUME NEW S, NEW T, NEW f \in [S -> Seq(T)], NEW s \in Seq(S)
    PROVE  Binds(s, f, S, T)
<1>1. PICK n, g : n = Len(s) /\ g = [i \in DOMAIN s |-> f[s[i]]]
  OBVIOUS
<1>2. n \in Nat /\ DOMAIN s = 1 .. n /\ \A i \in 1 .. n : s[i] \in S
  BY <1>1, LenProperties
<1>3. g \in Seq(Seq(T)) /\ Len(g) = n
  <2>1. \A i \in 1 .. n : g[i] \in Seq(T)
    BY <1>1, <1>2
  <2> QED BY <1>1, <1>2, <2>1
<1>4. FlattenSeq(g) \in Seq(T)
  BY <1>3, FlattenAppend, EmptySeq
<1>5. ASSUME NEW x \in S PROVE Bind(Append(s, x), f) = Bind(s, f) \o f[x]
  <2>1. PICK t, h : t = Append(s, x) /\ h = [i \in DOMAIN t |-> f[t[i]]]
    OBVIOUS
  <2>2. /\ DOMAIN t = 1 .. n + 1 /\ t[n + 1] = x /\ \A i \in 1 .. n : t[i] = s[i]
    BY <1>1, <1>2, <2>1, LenProperties, AppendProperties
  <2>3. \A i \in 1 .. n : i \in 1 .. n + 1 /\ h[i] = g[i]
    BY <1>1, <1>2, <2>1, <2>2
  <2>4. h = [i \in 1 .. n + 1 |-> h[i]] /\ h[n + 1] = f[x]
    BY <1>2, <2>1, <2>2
  <2>5. Grows(g, f[x], h)
    BY <1>3, <2>3, <2>4 DEF Grows
  <2>6. h = Append(g, f[x])
    BY <1>3, <2>5, Grown
  <2>7. f[x] \in Seq(T)
    OBVIOUS
  <2>8. FlattenSeq(Append(g, f[x])) = FlattenSeq(g) \o f[x]
    BY <1>3, <2>7, FlattenAppend
  <2>9. Bind(t, f) = FlattenSeq(h)
    BY <2>1 DEF Bind
  <2>10. Bind(s, f) = FlattenSeq(g)
    BY <1>1 DEF Bind
  <2> QED BY <2>1, <2>6, <2>8, <2>9, <2>10
<1>6. Bind(s, f) = FlattenSeq(g)
  BY <1>1 DEF Bind
<1> QED BY <1>4, <1>5, <1>6 DEF Binds

LEMMA BindType ==
    ASSUME NEW S, NEW T, NEW f \in [S -> Seq(T)], NEW s \in Seq(S)
    PROVE  Bind(s, f) \in Seq(T)
<1>1. Binds(s, f, S, T)
  BY BindAppend
<1> QED BY <1>1 DEF Binds

LEMMA BindMore ==
    ASSUME NEW S, NEW T, NEW f \in [S -> Seq(T)], NEW s \in Seq(S), NEW x \in S
    PROVE  Bind(Append(s, x), f) = Bind(s, f) \o f[x]
<1>1. Binds(s, f, S, T)
  BY BindAppend
<1> QED BY <1>1 DEF Binds

Regroups(a, b, c) == (a \o b) \o c = a \o (b \o c)

LEMMA ConcatRegroups ==
    ASSUME NEW T, NEW a \in Seq(T), NEW b \in Seq(T), NEW c \in Seq(T)
    PROVE  Regroups(a, b, c)
BY ConcatAssociative DEF Regroups

LEMMA BindConcat ==
    ASSUME NEW S, NEW T, NEW f \in [S -> Seq(T)], NEW s \in Seq(S), NEW t \in Seq(S)
    PROVE  Bind(s \o t, f) = Bind(s, f) \o Bind(t, f)
<1> DEFINE G == {u \in Seq(S) : Bind(s \o u, f) = Bind(s, f) \o Bind(u, f)}
<1>1. <<>> \in G
  <2>1. s \o <<>> = s /\ Bind(s, f) \in Seq(T)
    BY ConcatEmptySeq, BindType
  <2> QED BY <2>1, BindNothing, ConcatEmptySeq, EmptySeq
<1>2. ASSUME NEW u \in Seq(S), NEW x \in S, u \in G PROVE Append(u, x) \in G
  <2>1. s \o Append(u, x) = Append(s \o u, x)
    <3>1. s \o (u \o <<x>>) = (s \o u) \o <<x>>
      BY ConcatAssociative
    <3> QED BY <3>1, AppendIsConcat, ConcatProperties
  <2>2. Bind(Append(s \o u, x), f) = Bind(s \o u, f) \o f[x]
    <3>1. PICK w \in Seq(S) : w = s \o u
      BY ConcatProperties
    <3>2. Bind(Append(w, x), f) = Bind(w, f) \o f[x]
      BY BindMore
    <3> QED BY <3>1, <3>2
  <2>3. Bind(Append(u, x), f) = Bind(u, f) \o f[x]
    BY BindMore, Zenon
  <2>4. (Bind(s, f) \o Bind(u, f)) \o f[x] = Bind(s, f) \o (Bind(u, f) \o f[x])
    <3>1. Bind(s, f) \in Seq(T) /\ Bind(u, f) \in Seq(T)
      BY BindType
    <3>2. f[x] \in Seq(T)
      OBVIOUS
    <3>3. Regroups(Bind(s, f), Bind(u, f), f[x])
      BY <3>1, <3>2, ConcatRegroups, Zenon
    <3> QED BY <3>3 DEF Regroups
  <2> QED BY <1>2, <2>1, <2>2, <2>3, <2>4, AppendProperties
<1> HIDE DEF G
<1>3. Seq(S) \subseteq G
  BY <1>1, <1>2, SeqInduct
<1> QED BY <1>3 DEF G

LEMMA BindFlatten ==
    ASSUME NEW S, NEW T, NEW f \in [S -> Seq(T)], NEW ss \in Seq(Seq(S))
    PROVE  Bind(FlattenSeq(ss), f) = FlattenSeq([k \in DOMAIN ss |-> Bind(ss[k], f)])
<1> DEFINE h == [s \in Seq(S) |-> Bind(s, f)]
<1>1. h \in [Seq(S) -> Seq(T)] /\ \A s \in Seq(S) : h[s] = Bind(s, f)
  BY BindType
<1> HIDE DEF h
<1> DEFINE G == {r \in Seq(Seq(S)) : Bind(FlattenSeq(r), f) = Bind(r, h)}
<1>2. <<>> \in G
  BY BindNothing, FlattenNothing, EmptySeq
<1>3. ASSUME NEW r \in Seq(Seq(S)), NEW s \in Seq(S), r \in G PROVE Append(r, s) \in G
  <2>1. FlattenSeq(Append(r, s)) = FlattenSeq(r) \o s /\ FlattenSeq(r) \in Seq(S)
    BY FlattenAppend
  <2>2. Bind(FlattenSeq(r) \o s, f) = Bind(FlattenSeq(r), f) \o Bind(s, f)
    BY <2>1, BindConcat
  <2>3. Bind(Append(r, s), h) = Bind(r, h) \o h[s]
    BY <1>1, BindMore
  <2> QED BY <1>1, <1>3, <2>1, <2>2, <2>3, AppendProperties
<1> HIDE DEF G
<1>4. Seq(Seq(S)) \subseteq G
  BY <1>2, <1>3, SeqInduct
<1>5. Bind(FlattenSeq(ss), f) = Bind(ss, h)
  BY <1>4 DEF G
<1>6. [k \in DOMAIN ss |-> h[ss[k]]] = [k \in DOMAIN ss |-> Bind(ss[k], f)]
  BY <1>1, LenProperties
<1> QED BY <1>5, <1>6 DEF Bind

Singly(g, S) == [x \in S |-> <<g[x]>>]
Each(s, g) == [i \in DOMAIN s |-> g[s[i]]]

LEMMA SinglyType ==
    ASSUME NEW S, NEW T, NEW g \in [S -> T]
    PROVE  Singly(g, S) \in [S -> Seq(T)]
BY DEF Singly

LEMMA BindSingles ==
    ASSUME NEW S, NEW T, NEW g \in [S -> T], NEW s \in Seq(S)
    PROVE  Bind(s, Singly(g, S)) = Each(s, g)
<1>1. PICK f : f = Singly(g, S)
  OBVIOUS
<1>2. f \in [S -> Seq(T)] /\ \A x \in S : f[x] = <<g[x]>>
  BY <1>1 DEF Singly
<1> DEFINE G == {u \in Seq(S) : Bind(u, f) = [i \in DOMAIN u |-> g[u[i]]]}
<1>3. <<>> \in G
  <2>1. [i \in DOMAIN <<>> |-> g[<<>>[i]]] = <<>>
    OBVIOUS
  <2> QED BY <2>1, BindNothing, EmptySeq
<1>4. ASSUME NEW u \in Seq(S), NEW x \in S, u \in G PROVE Append(u, x) \in G
  <2>1. PICK n, t, v, w : /\ n = Len(u) /\ t = Append(u, x)
                          /\ v = [i \in DOMAIN u |-> g[u[i]]] /\ w = [i \in DOMAIN t |-> g[t[i]]]
    OBVIOUS
  <2>2. /\ n \in Nat /\ DOMAIN u = 1 .. n /\ DOMAIN t = 1 .. n + 1 /\ t[n + 1] = x
        /\ \A i \in 1 .. n : t[i] = u[i] /\ u[i] \in S
        /\ t \in Seq(S)
    BY <2>1, LenProperties, AppendProperties
  <2>3. v \in Seq(T) /\ Len(v) = n
    BY <2>1, <2>2
  <2>4. \A i \in 1 .. n : i \in 1 .. n + 1 /\ w[i] = v[i]
    BY <2>1, <2>2
  <2>5. w = [i \in 1 .. n + 1 |-> w[i]] /\ w[n + 1] = g[x]
    BY <2>1, <2>2
  <2>6. Grows(v, g[x], w)
    BY <2>3, <2>4, <2>5 DEF Grows
  <2>7. w = Append(v, g[x]) /\ g[x] \in T
    BY <2>3, <2>6, Grown
  <2>8. w = v \o <<g[x]>>
    BY <2>3, <2>7, AppendIsConcat
  <2>9. Bind(t, f) = Bind(u, f) \o <<g[x]>>
    <3>1. Bind(Append(u, x), f) = Bind(u, f) \o f[x]
      BY <1>2, BindMore
    <3> QED BY <1>2, <2>1, <3>1
  <2> QED BY <1>4, <2>1, <2>2, <2>8, <2>9
<1> HIDE DEF G
<1>5. Seq(S) \subseteq G
  BY <1>3, <1>4, SeqInduct
<1> QED BY <1>1, <1>5 DEF G, Each

LEMMA FlattenOne ==
    ASSUME NEW T, NEW s \in Seq(T)
    PROVE  FlattenSeq(<<s>>) = s
<1>1. <<>> \in Seq(Seq(T)) /\ Append(<<>>, s) = <<s>>
  BY EmptySeq
<1>2. FlattenSeq(Append(<<>>, s)) = FlattenSeq(<<>>) \o s
  BY <1>1, FlattenAppend
<1> QED BY <1>1, <1>2, FlattenNothing, ConcatEmptySeq

-----------------------------------------------------------------------------
(* What a vendor hears of a message *)

ChatKind == "openai_chat_completions"

Heeds == [what : {"text", "call", "result", "thought"}, of : Roles \cup Nat \cup Speech,
          body : Stamps]

\* The part of a content that the protocol can say.
Sayable(kind, c) ==
    IF kind = ChatKind THEN OfClass(c, "text") \o OfClass(c, "call") \o OfClass(c, "result")
    ELSE c

Tell(kind, m) ==
    LET c == Sayable(kind, m.content)
    IN [j \in DOMAIN c |-> Meaning(m.role, c[j])]

\* Messages that may be sent with a protocol: of thoughts only its own.
Sendable(kind) ==
    {m \in Messages :
        \A j \in 1 .. Len(m.content) :
            LET b == m.content[j]
            IN /\ b \in Thoughts => b.protocol = kind
               /\ m.role = "tool" <=> b \in Results}

LEMMA MeaningType == \A role \in Roles, b \in Blocks : Meaning(role, b) \in Heeds
<1>1. TAKE role \in Roles, b \in Blocks
<1>2. CASE b \in Texts
  BY <1>2 DEF Meaning, Heed, Heeds, Texts
<1>3. CASE b \in Calls
  BY <1>3 DEF Meaning, Heed, Heeds, Calls
<1>4. CASE b \in Results
  BY <1>4 DEF Meaning, Heed, Heeds, Results
<1>5. CASE b \in Thoughts
  BY <1>5 DEF Meaning, Heed, Heeds, Thoughts
<1> QED BY <1>2, <1>3, <1>4, <1>5 DEF Blocks, Spokens

LEMMA BlockClasses ==
    \A b \in Blocks : /\ b.class = "text" <=> b \in Texts
                      /\ b.class = "call" <=> b \in Calls
                      /\ b.class = "result" <=> b \in Results
                      /\ b.class = "opaque" <=> b \in Thoughts
                      /\ b.class \in {"text", "call", "result", "opaque"}
<1>1. \A b \in Texts : b.class = "text"
  BY DEF Texts
<1>2. \A b \in Calls : b.class = "call"
  BY DEF Calls
<1>3. \A b \in Results : b.class = "result"
  BY DEF Results
<1>4. \A b \in Thoughts : b.class = "opaque"
  BY DEF Thoughts
<1> QED BY <1>1, <1>2, <1>3, <1>4 DEF Blocks, Spokens

LEMMA ClassSeq ==
    ASSUME NEW c \in Seq(Blocks), NEW class
    PROVE  /\ OfClass(c, class) \in Seq(Blocks)
           /\ \A j \in 1 .. Len(OfClass(c, class)) :
                OfClass(c, class)[j] \in Blocks /\ OfClass(c, class)[j].class = class
           /\ \A j \in 1 .. Len(OfClass(c, class)) :
                \E i \in 1 .. Len(c) : OfClass(c, class)[j] = c[i]
<1>1. OfClass(c, class) \in Seq({b \in Blocks : b.class = class})
  BY ClassType
<1>2. {b \in Blocks : b.class = class} \subseteq Blocks
  OBVIOUS
<1>3. PICK p : p = {j \in DOMAIN c : c[j].class = class}
  OBVIOUS
<1>4. Kept(c, p) \in Seq(Picked(c, p))
  BY KeptType
<1>5. \A j \in 1 .. Len(Kept(c, p)) : Kept(c, p)[j] \in Picked(c, p)
  BY <1>4, ElementOfSeq
<1>6. DOMAIN c = 1 .. Len(c)
  BY LenProperties
<1>7. \A j \in 1 .. Len(Kept(c, p)) : \E i \in 1 .. Len(c) : Kept(c, p)[j] = c[i]
  BY <1>5, <1>6 DEF Picked
<1>8. OfClass(c, class) = Kept(c, p)
  BY <1>3 DEF OfClass
<1>9. \A j \in 1 .. Len(OfClass(c, class)) : OfClass(c, class)[j] \in {b \in Blocks : b.class = class}
  BY <1>1, ElementOfSeq
<1> QED BY <1>1, <1>2, <1>7, <1>8, <1>9, SeqMonotonic

LEMMA ClassNone ==
    ASSUME NEW c \in Seq(Blocks), NEW class, \A j \in 1 .. Len(c) : c[j].class # class
    PROVE  OfClass(c, class) = <<>>
<1>1. PICK p : p = {j \in DOMAIN c : c[j].class = class}
  OBVIOUS
<1>2. \A j \in 1 .. Len(c) : j \notin p
  BY <1>1
<1> QED BY <1>1, <1>2, KeptNone DEF OfClass

LEMMA ClassAll ==
    ASSUME NEW c \in Seq(Blocks), NEW class, \A j \in 1 .. Len(c) : c[j].class = class
    PROVE  OfClass(c, class) = c
<1>1. PICK p : p = {j \in DOMAIN c : c[j].class = class}
  OBVIOUS
<1>2. \A j \in 1 .. Len(c) : j \in p
  BY <1>1, LenProperties
<1> QED BY <1>1, <1>2, KeptAll DEF OfClass

LEMMA VisibleAll ==
    ASSUME NEW c \in Seq(Blocks), \A j \in 1 .. Len(c) : c[j].class # "opaque"
    PROVE  Visible(c) = c
<1>1. PICK p : p = {j \in DOMAIN c : c[j].class # "opaque"}
  OBVIOUS
<1>2. \A j \in 1 .. Len(c) : j \in p
  BY <1>1, LenProperties
<1> QED BY <1>1, <1>2, KeptAll DEF Visible

LEMMA SayableType ==
    ASSUME NEW c \in Seq(Blocks), NEW kind
    PROVE  Sayable(kind, c) \in Seq(Blocks)
<1>1. /\ OfClass(c, "text") \in Seq(Blocks) /\ OfClass(c, "call") \in Seq(Blocks)
      /\ OfClass(c, "result") \in Seq(Blocks)
  BY ClassSeq
<1>2. OfClass(c, "text") \o OfClass(c, "call") \in Seq(Blocks)
  BY <1>1, ConcatProperties
<1> QED BY <1>1, <1>2, ConcatProperties DEF Sayable

LEMMA TellType == ASSUME NEW kind, NEW m \in Messages PROVE Tell(kind, m) \in Seq(Heeds)
<1>3. PICK c \in Seq(Blocks) : c = Sayable(kind, m.content)
  BY SayableType DEF Messages
<1>4. Len(c) \in Nat /\ DOMAIN c = 1 .. Len(c) /\ \A j \in 1 .. Len(c) : c[j] \in Blocks
  BY LenProperties
<1>5. \A j \in 1 .. Len(c) : Meaning(m.role, c[j]) \in Heeds
  BY <1>4, MeaningType DEF Messages
<1>6. Tell(kind, m) = [j \in 1 .. Len(c) |-> Meaning(m.role, c[j])]
  BY <1>3, <1>4 DEF Tell
<1> QED BY <1>4, <1>5, <1>6

Hears(kind, out) == FlattenSeq([k \in DOMAIN out |-> Tell(kind, out[k])])

\* A part of a request says what its block says.
LEMMA PartSays ==
    ASSUME NEW m \in Sendable(talk.protocol), NEW j \in 1 .. Len(m.content)
    PROVE  /\ PartMeaning(IF m.role = "assistant" THEN "assistant" ELSE "user",
                          AnthropicBlock(m.content[j])) = Meaning(m.role, m.content[j])
           /\ PartMeaning("any", ResponsesItem(m.role, m.content[j]))
                = Meaning(m.role, m.content[j])
<1>1. PICK b : b = m.content[j]
  OBVIOUS
<1>2. b \in Blocks /\ m.role \in Roles
  BY <1>1, ElementOfSeq DEF Sendable, Messages
<1>3. (b \in Thoughts => b.protocol = talk.protocol) /\ (m.role = "tool" <=> b \in Results)
  BY <1>1 DEF Sendable
<1>4. CASE b \in Texts
  <2>1. m.role \in {"user", "assistant"}
    BY <1>2, <1>3, <1>4, BlockClasses DEF Roles
  <2> QED BY <1>1, <1>4, <2>1
          DEF PartMeaning, AnthropicBlock, ResponsesItem, Meaning, Heed, Texts
<1>5. CASE b \in Calls
  BY <1>1, <1>5 DEF PartMeaning, AnthropicBlock, ResponsesItem, Meaning, Heed, Calls
<1>6. CASE b \in Results
  BY <1>1, <1>6 DEF PartMeaning, AnthropicBlock, ResponsesItem, Meaning, Heed, Results
<1>7. CASE b \in Thoughts
  BY <1>1, <1>3, <1>7 DEF PartMeaning, AnthropicBlock, ResponsesItem, Meaning, Heed, Thoughts
<1> QED BY <1>2, <1>4, <1>5, <1>6, <1>7 DEF Blocks, Spokens

LEMMA AnthropicHeard ==
    ASSUME NEW messages \in Seq(Sendable(talk.protocol)), talk.protocol = "anthropic_messages",
           outgoing = AnthropicMessages(messages)
    PROVE  HeardByVendor = Hears(talk.protocol, messages)
<1>1. PICK n : n = Len(messages)
  OBVIOUS
<1>2. n \in Nat /\ DOMAIN messages = 1 .. n /\ DOMAIN outgoing = 1 .. n
  BY <1>1, LenProperties DEF AnthropicMessages
<1>3. ASSUME NEW k \in 1 .. n
      PROVE  ReadAll(outgoing[k].role, outgoing[k].content) = Tell(talk.protocol, messages[k])
  <2>1. PICK m \in Sendable(talk.protocol) : m = messages[k]
    BY <1>1, ElementOfSeq
  <2>2. PICK c \in Seq(Blocks) : c = m.content
    BY <2>1 DEF Sendable, Messages
  <2>3. PICK role : role = IF m.role = "assistant" THEN "assistant" ELSE "user"
    OBVIOUS
  <2>4. /\ outgoing[k].role = role
        /\ outgoing[k].content = [j \in DOMAIN c |-> AnthropicBlock(c[j])]
    BY <1>2, <2>1, <2>2, <2>3 DEF AnthropicMessages
  <2>5. DOMAIN c = 1 .. Len(c)
    BY LenProperties
  <2>6. \A j \in DOMAIN c : PartMeaning(role, AnthropicBlock(c[j])) = Meaning(m.role, c[j])
    BY <2>1, <2>2, <2>3, <2>5, PartSays
  <2>7. ReadAll(role, outgoing[k].content)
            = [j \in DOMAIN c |-> PartMeaning(role, AnthropicBlock(c[j]))]
    BY <2>4 DEF ReadAll
  <2>8. Tell(talk.protocol, m) = [j \in DOMAIN c |-> Meaning(m.role, c[j])]
    BY <2>2 DEF Tell, Sayable, ChatKind
  <2> QED BY <2>1, <2>4, <2>6, <2>7, <2>8
<1>4. [k \in DOMAIN outgoing |-> ReadAll(outgoing[k].role, outgoing[k].content)]
        = [k \in DOMAIN messages |-> Tell(talk.protocol, messages[k])]
  BY <1>2, <1>3
<1> QED BY <1>4 DEF HeardByVendor, Hears

BlockParts == {ResponsesItem(p[1], p[2]) : p \in Roles \X Blocks}

LEMMA ResponsesHeard ==
    ASSUME NEW messages \in Seq(Sendable(talk.protocol)), talk.protocol = "openai_responses",
           outgoing = ResponsesInput(messages)
    PROVE  HeardByVendor = Hears(talk.protocol, messages)
<1>1. PICK n : n = Len(messages)
  OBVIOUS
<1>2. n \in Nat /\ DOMAIN messages = 1 .. n
  BY <1>1, LenProperties
<1>3. PICK g, T : g = [x \in BlockParts |-> PartMeaning("any", x)] /\ T = {g[x] : x \in BlockParts}
  OBVIOUS
<1>4. g \in [BlockParts -> T]
  BY <1>3
<1>5. PICK f : f = Singly(g, BlockParts)
  OBVIOUS
<1>6. f \in [BlockParts -> Seq(T)]
  BY <1>4, <1>5, SinglyType
<1>7. PICK ss : ss = [k \in DOMAIN messages |->
                        [j \in DOMAIN messages[k].content |->
                            ResponsesItem(messages[k].role, messages[k].content[j])]]
  OBVIOUS
<1>8. ASSUME NEW k \in 1 .. n
      PROVE  ss[k] \in Seq(BlockParts) /\ Bind(ss[k], f) = Tell(talk.protocol, messages[k])
  <2>1. PICK m \in Sendable(talk.protocol) : m = messages[k]
    BY <1>1, ElementOfSeq
  <2>2. PICK c \in Seq(Blocks) : c = m.content
    BY <2>1 DEF Sendable, Messages
  <2>3. ss[k] = [j \in DOMAIN c |-> ResponsesItem(m.role, c[j])]
    BY <1>2, <1>7, <2>1, <2>2
  <2>4. Len(c) \in Nat /\ DOMAIN c = 1 .. Len(c) /\ m.role \in Roles
        /\ \A j \in 1 .. Len(c) : c[j] \in Blocks
    BY <2>1, LenProperties DEF Sendable, Messages
  <2>5. \A j \in 1 .. Len(c) : ss[k][j] \in BlockParts
    <3>1. TAKE j \in 1 .. Len(c)
    <3>2. <<m.role, c[j]>> \in Roles \X Blocks
      BY <2>4
    <3>3. ResponsesItem(m.role, c[j]) \in BlockParts
      BY <3>2 DEF BlockParts
    <3> QED BY <2>3, <2>4, <3>3
  <2>6. ss[k] \in Seq(BlockParts) /\ DOMAIN ss[k] = 1 .. Len(c)
    BY <2>3, <2>4, <2>5
  <2>7. Bind(ss[k], f) = [j \in 1 .. Len(c) |-> g[ss[k][j]]]
    <3>1. Bind(ss[k], Singly(g, BlockParts)) = Each(ss[k], g)
      BY <1>4, <2>6, BindSingles
    <3> QED BY <1>5, <2>6, <3>1 DEF Each
  <2>8. \A j \in 1 .. Len(c) : g[ss[k][j]] = Meaning(m.role, c[j])
    <3>1. TAKE j \in 1 .. Len(c)
    <3>2. g[ss[k][j]] = PartMeaning("any", ResponsesItem(m.role, c[j]))
      BY <1>3, <2>3, <2>4, <2>5
    <3> QED BY <2>1, <2>2, <3>2, PartSays
  <2>9. Tell(talk.protocol, m) = [j \in 1 .. Len(c) |-> Meaning(m.role, c[j])]
    BY <2>2, <2>4 DEF Tell, Sayable, ChatKind
  <2> QED BY <2>1, <2>6, <2>7, <2>8, <2>9
<1>9. ss \in Seq(Seq(BlockParts)) /\ DOMAIN ss = 1 .. n
  BY <1>2, <1>7, <1>8
<1>10. outgoing = FlattenSeq(ss)
  BY <1>7 DEF ResponsesInput
<1>11. outgoing \in Seq(BlockParts)
  BY <1>9, <1>10, FlattenAppend, EmptySeq
<1>12. HeardByVendor = [j \in DOMAIN outgoing |-> g[outgoing[j]]]
  <2>1. HeardByVendor = [j \in DOMAIN outgoing |-> PartMeaning("any", outgoing[j])]
    BY DEF HeardByVendor, ReadAll
  <2>2. \A j \in DOMAIN outgoing : outgoing[j] \in BlockParts
    BY <1>11, LenProperties
  <2> QED BY <1>3, <2>1, <2>2
<1>13. HeardByVendor = Bind(outgoing, f)
  <2>1. Bind(outgoing, Singly(g, BlockParts)) = Each(outgoing, g)
    BY <1>4, <1>11, BindSingles
  <2> QED BY <1>5, <1>12, <2>1 DEF Each
<1>14. Bind(outgoing, f) = FlattenSeq([k \in DOMAIN ss |-> Bind(ss[k], f)])
  BY <1>6, <1>9, <1>10, BindFlatten
<1>15. [k \in DOMAIN ss |-> Bind(ss[k], f)] = [k \in DOMAIN messages |-> Tell(talk.protocol, messages[k])]
  BY <1>2, <1>8, <1>9
<1> QED BY <1>13, <1>14, <1>15 DEF Hears

MeanAll(role, s) == [j \in DOMAIN s |-> Meaning(role, s[j])]

LEMMA MeanConcat ==
    ASSUME NEW role \in Roles, NEW s \in Seq(Blocks), NEW t \in Seq(Blocks)
    PROVE  /\ MeanAll(role, s) \in Seq(Heeds)
           /\ MeanAll(role, s \o t) = MeanAll(role, s) \o MeanAll(role, t)
<1>1. PICK g \in [Blocks -> Heeds] : \A b \in Blocks : g[b] = Meaning(role, b)
  <2>1. [b \in Blocks |-> Meaning(role, b)] \in [Blocks -> Heeds]
    BY MeaningType
  <2> QED BY <2>1
<1>2. PICK f : f = Singly(g, Blocks)
  OBVIOUS
<1>3. f \in [Blocks -> Seq(Heeds)]
  BY <1>2, SinglyType
<1>4. ASSUME NEW u \in Seq(Blocks)
      PROVE  MeanAll(role, u) = Bind(u, f)
  <2>1. Bind(u, Singly(g, Blocks)) = Each(u, g)
    BY BindSingles
  <2>2. \A j \in DOMAIN u : u[j] \in Blocks
    BY LenProperties
  <2> QED BY <1>1, <1>2, <2>1, <2>2 DEF MeanAll, Each
<1>5. s \o t \in Seq(Blocks)
  BY ConcatProperties
<1>6. Bind(s \o t, f) = Bind(s, f) \o Bind(t, f)
  BY <1>3, BindConcat
<1>7. Bind(s, f) \in Seq(Heeds)
  BY <1>3, BindType
<1> QED BY <1>4, <1>5, <1>6, <1>7

ToolNotes == [role : {"tool"}, tool_call_id : Nat, content : Stamps]
PlainNotes == [role : {"user", "assistant"}, content : Seq(Stamps),
               tool_calls : Seq([id : Nat, arguments : Stamps])]

ChatGroup(m) ==
    LET results == OfClass(m.content, "result")
        texts == OfClass(m.content, "text")
        calls == OfClass(m.content, "call")
    IN IF m.role = "tool"
       THEN [j \in DOMAIN results |-> [role |-> "tool", tool_call_id |-> results[j].tool_call_id,
                                       content |-> results[j].content]]
       ELSE <<[role |-> m.role, content |-> [j \in DOMAIN texts |-> texts[j].text],
               tool_calls |-> [j \in DOMAIN calls |->
                    [id |-> calls[j].id, arguments |-> calls[j].arguments]]]>>

LEMMA NoteHeard == \A x \in ToolNotes \cup PlainNotes : ReadChat(x) \in Seq(Heeds)
<1>1. ASSUME NEW x \in ToolNotes PROVE ReadChat(x) \in Seq(Heeds)
  BY DEF ToolNotes, ReadChat, Heed, Heeds
<1>2. ASSUME NEW x \in PlainNotes PROVE ReadChat(x) \in Seq(Heeds)
  <2>1. PICK c \in Seq(Stamps), l \in Seq([id : Nat, arguments : Stamps]) :
           c = x.content /\ l = x.tool_calls
    BY DEF PlainNotes
  <2>2. PICK u, v : /\ u = [j \in DOMAIN c |-> Heed("text", x.role, c[j])]
                    /\ v = [j \in DOMAIN l |-> Heed("call", l[j].id, l[j].arguments)]
    OBVIOUS
  <2>3. /\ Len(c) \in Nat /\ DOMAIN c = 1 .. Len(c) /\ \A j \in 1 .. Len(c) : c[j] \in Stamps
        /\ Len(l) \in Nat /\ DOMAIN l = 1 .. Len(l)
        /\ \A j \in 1 .. Len(l) : l[j] \in [id : Nat, arguments : Stamps]
    BY LenProperties
  <2>4. x.role \in {"user", "assistant"}
    BY DEF PlainNotes
  <2>5. \A j \in 1 .. Len(c) : u[j] \in Heeds
    BY <2>2, <2>3, <2>4 DEF Heed, Heeds, Roles
  <2>6. \A j \in 1 .. Len(l) : v[j] \in Heeds
    BY <2>2, <2>3 DEF Heed, Heeds
  <2>7. u \in Seq(Heeds) /\ v \in Seq(Heeds)
    BY <2>2, <2>3, <2>5, <2>6
  <2>8. ReadChat(x) = u \o v
    BY <2>1, <2>2, <2>4 DEF ReadChat
  <2> QED BY <2>7, <2>8, ConcatProperties
<1> QED BY <1>1, <1>2

-----------------------------------------------------------------------------
(* Requests of the chat protocol *)

ChatNotes == ToolNotes \cup PlainNotes

LEMMA ToolGroupHeard ==
    ASSUME NEW m \in Sendable(ChatKind), m.role = "tool",
           NEW f, f = [x \in ChatNotes |-> ReadChat(x)]
    PROVE  ChatGroup(m) \in Seq(ChatNotes) /\ Bind(ChatGroup(m), f) = Tell(ChatKind, m)
<1>1. PICK c \in Seq(Blocks) : c = m.content
  BY DEF Sendable, Messages
<1>2. Len(c) \in Nat /\ DOMAIN c = 1 .. Len(c) /\ \A j \in 1 .. Len(c) : c[j] \in Results
  <2>1. Len(c) \in Nat /\ DOMAIN c = 1 .. Len(c)
    BY LenProperties
  <2>2. \A j \in 1 .. Len(c) : c[j] \in Results
    BY <1>1 DEF Sendable
  <2> QED BY <2>1, <2>2
<1>3. \A j \in 1 .. Len(c) : c[j].class = "result"
  BY <1>2 DEF Results
<1>4. OfClass(c, "result") = c
  BY <1>3, ClassAll
<1>5. OfClass(c, "text") = <<>> /\ OfClass(c, "call") = <<>>
  <2>1. \A j \in 1 .. Len(c) : c[j].class # "text" /\ c[j].class # "call"
    BY <1>3
  <2> QED BY <2>1, ClassNone
<1>6. Sayable(ChatKind, c) = c
  <2>1. <<>> \o <<>> = <<>> /\ <<>> \o c = c
    BY ConcatEmptySeq, EmptySeq
  <2> QED BY <1>4, <1>5, <2>1 DEF Sayable
<1>7. Tell(ChatKind, m) = [j \in 1 .. Len(c) |-> Meaning(m.role, c[j])]
  BY <1>1, <1>2, <1>6 DEF Tell
<1>8. PICK group : group = ChatGroup(m)
  OBVIOUS
<1>9. group = [j \in 1 .. Len(c) |-> [role |-> "tool", tool_call_id |-> c[j].tool_call_id,
                                      content |-> c[j].content]]
  BY <1>1, <1>2, <1>4, <1>8 DEF ChatGroup
<1>10. \A j \in 1 .. Len(c) : group[j] \in ToolNotes
  BY <1>2, <1>9 DEF ToolNotes, Results
<1>11. group \in Seq(ToolNotes) /\ DOMAIN group = 1 .. Len(c)
  BY <1>2, <1>9, <1>10
<1>12. PICK g \in [ToolNotes -> Heeds] :
          \A x \in ToolNotes : g[x] = Heed("result", x.tool_call_id, x.content)
  <2>1. \A x \in ToolNotes : Heed("result", x.tool_call_id, x.content) \in Heeds
    BY DEF ToolNotes, Heed, Heeds
  <2>2. [x \in ToolNotes |-> Heed("result", x.tool_call_id, x.content)] \in [ToolNotes -> Heeds]
    BY <2>1
  <2> QED BY <2>2
<1>13. Bind(group, Singly(g, ToolNotes)) = Each(group, g)
  BY <1>11, BindSingles
<1>14. Bind(group, f) = Bind(group, Singly(g, ToolNotes))
  <2>1. \A x \in ToolNotes : f[x] = <<g[x]>>
    BY <1>12 DEF ChatNotes, ReadChat, ToolNotes
  <2>2. \A j \in DOMAIN group : f[group[j]] = Singly(g, ToolNotes)[group[j]]
    BY <1>10, <1>11, <2>1 DEF Singly
  <2>3. [j \in DOMAIN group |-> f[group[j]]]
            = [j \in DOMAIN group |-> Singly(g, ToolNotes)[group[j]]]
    BY <2>2
  <2> QED BY <2>3 DEF Bind
<1>15. \A j \in 1 .. Len(c) : g[group[j]] = Meaning(m.role, c[j])
  BY <1>2, <1>9, <1>10, <1>12 DEF Meaning, Results
<1>16. Each(group, g) = Tell(ChatKind, m)
  BY <1>7, <1>11, <1>15 DEF Each
<1>17. group \in Seq(ChatNotes)
  BY <1>11, SeqMonotonic DEF ChatNotes
<1> QED BY <1>8, <1>13, <1>14, <1>16, <1>17

LEMMA PlainGroupHeard ==
    ASSUME NEW m \in Sendable(ChatKind), m.role # "tool",
           NEW f, f = [x \in ChatNotes |-> ReadChat(x)]
    PROVE  ChatGroup(m) \in Seq(ChatNotes) /\ Bind(ChatGroup(m), f) = Tell(ChatKind, m)
<1>1. PICK c \in Seq(Blocks) : c = m.content
  BY DEF Sendable, Messages
<1>2. Len(c) \in Nat /\ DOMAIN c = 1 .. Len(c) /\ \A j \in 1 .. Len(c) : c[j] \notin Results
  <2>1. Len(c) \in Nat /\ DOMAIN c = 1 .. Len(c)
    BY LenProperties
  <2>2. \A j \in 1 .. Len(c) : c[j] \notin Results
    BY <1>1 DEF Sendable
  <2> QED BY <2>1, <2>2
<1>3. \A j \in 1 .. Len(c) : c[j].class # "result"
  BY <1>2, BlockClasses, LenProperties
<1>4. OfClass(c, "result") = <<>>
  BY <1>3, ClassNone
<1>5. PICK texts, calls : texts = OfClass(c, "text") /\ calls = OfClass(c, "call")
  OBVIOUS
<1>6. /\ texts \in Seq(Blocks) /\ Len(texts) \in Nat /\ DOMAIN texts = 1 .. Len(texts)
      /\ \A j \in 1 .. Len(texts) : texts[j] \in Blocks /\ texts[j].class = "text"
  BY <1>5, ClassSeq, LenProperties
<1>7. /\ calls \in Seq(Blocks) /\ Len(calls) \in Nat /\ DOMAIN calls = 1 .. Len(calls)
      /\ \A j \in 1 .. Len(calls) : calls[j] \in Blocks /\ calls[j].class = "call"
  BY <1>5, ClassSeq, LenProperties
<1>8. /\ \A j \in 1 .. Len(texts) : texts[j] \in Texts
      /\ \A j \in 1 .. Len(calls) : calls[j] \in Calls
  BY <1>6, <1>7, BlockClasses
<1>9. m.role \in {"user", "assistant"}
  BY DEF Sendable, Messages, Roles
<1>10. Tell(ChatKind, m) = MeanAll(m.role, texts) \o MeanAll(m.role, calls)
  <2>1. texts \o calls \in Seq(Blocks)
    BY <1>6, <1>7, ConcatProperties
  <2>2. Sayable(ChatKind, c) = texts \o calls
    BY <1>4, <1>5, <2>1, ConcatEmptySeq DEF Sayable
  <2>3. Tell(ChatKind, m) = MeanAll(m.role, texts \o calls)
    BY <1>1, <2>2 DEF Tell, MeanAll
  <2> QED BY <1>6, <1>7, <1>9, <2>3, MeanConcat DEF Roles
<1>11. PICK words, called : /\ words = [j \in DOMAIN texts |-> texts[j].text]
                            /\ called = [j \in DOMAIN calls |->
                                    [id |-> calls[j].id, arguments |-> calls[j].arguments]]
  OBVIOUS
<1>12. words \in Seq(Stamps) /\ called \in Seq([id : Nat, arguments : Stamps])
  <2>1. \A j \in 1 .. Len(texts) : texts[j].text \in Stamps
    BY <1>8 DEF Texts
  <2>2. \A j \in 1 .. Len(calls) : [id |-> calls[j].id, arguments |-> calls[j].arguments]
                                        \in [id : Nat, arguments : Stamps]
    BY <1>8 DEF Calls
  <2> QED BY <1>6, <1>7, <1>11, <2>1, <2>2
<1>13. PICK note : note = [role |-> m.role, content |-> words, tool_calls |-> called]
  OBVIOUS
<1>14. note \in PlainNotes
  BY <1>9, <1>12, <1>13 DEF PlainNotes
<1>15. ChatGroup(m) = <<note>>
  BY <1>1, <1>5, <1>11, <1>13 DEF ChatGroup
<1>16. ReadChat(note) = MeanAll(m.role, texts) \o MeanAll(m.role, calls)
  <2>1. note.role # "tool" /\ note.role = m.role /\ note.content = words /\ note.tool_calls = called
    BY <1>9, <1>13
  <2>2. [j \in DOMAIN words |-> Heed("text", m.role, words[j])] = MeanAll(m.role, texts)
    <3>1. \A j \in DOMAIN texts : Heed("text", m.role, texts[j].text) = Meaning(m.role, texts[j])
      BY <1>6 DEF Meaning
    <3> QED BY <1>11, <3>1 DEF MeanAll
  <2>3. [j \in DOMAIN called |-> Heed("call", called[j].id, called[j].arguments)]
            = MeanAll(m.role, calls)
    <3>1. \A j \in DOMAIN calls :
             Heed("call", called[j].id, called[j].arguments) = Meaning(m.role, calls[j])
      BY <1>7, <1>11 DEF Meaning
    <3> QED BY <1>11, <3>1 DEF MeanAll
  <2> QED BY <2>1, <2>2, <2>3 DEF ReadChat
<1>17. note \in ChatNotes /\ f[note] = ReadChat(note)
  BY <1>14 DEF ChatNotes
<1>18. ReadChat(note) \in Seq(Heeds)
  BY <1>14, NoteHeard
<1>19. Bind(<<note>>, f) = FlattenSeq(<<f[note]>>)
  <2>1. [i \in DOMAIN <<note>> |-> f[<<note>>[i]]] = <<f[note]>>
    OBVIOUS
  <2> QED BY <2>1 DEF Bind
<1>20. FlattenSeq(<<f[note]>>) = f[note]
  BY <1>17, <1>18, FlattenOne
<1>21. <<note>> \in Seq(ChatNotes)
  BY <1>17
<1> QED BY <1>10, <1>15, <1>16, <1>17, <1>19, <1>20, <1>21

LEMMA ChatHeard ==
    ASSUME NEW messages \in Seq(Sendable(talk.protocol)), talk.protocol = ChatKind,
           outgoing = ChatMessages(messages)
    PROVE  HeardByVendor = Hears(talk.protocol, messages)
<1>1. PICK f : f = [x \in ChatNotes |-> ReadChat(x)]
  OBVIOUS
<1>2. f \in [ChatNotes -> Seq(Heeds)] /\ \A x \in ChatNotes : f[x] = ReadChat(x)
  <2>1. \A x \in ChatNotes : ReadChat(x) \in Seq(Heeds)
    BY NoteHeard DEF ChatNotes
  <2> QED BY <1>1, <2>1
<1>3. PICK ss : ss = [k \in DOMAIN messages |-> ChatGroup(messages[k])]
  OBVIOUS
<1>4. Len(messages) \in Nat /\ DOMAIN messages = 1 .. Len(messages)
  BY LenProperties
<1>5. ASSUME NEW k \in 1 .. Len(messages)
      PROVE  ss[k] \in Seq(ChatNotes) /\ Bind(ss[k], f) = Tell(talk.protocol, messages[k])
  <2>1. PICK m \in Sendable(ChatKind) : m = messages[k]
    BY ElementOfSeq
  <2>2. ChatGroup(m) \in Seq(ChatNotes) /\ Bind(ChatGroup(m), f) = Tell(ChatKind, m)
    BY <1>1, ToolGroupHeard, PlainGroupHeard
  <2> QED BY <1>3, <1>4, <2>1, <2>2
<1>6. ss \in Seq(Seq(ChatNotes)) /\ DOMAIN ss = 1 .. Len(messages)
  BY <1>3, <1>4, <1>5
<1>7. outgoing = FlattenSeq(ss)
  BY <1>3 DEF ChatMessages, ChatGroup
<1>8. outgoing \in Seq(ChatNotes)
  BY <1>6, <1>7, FlattenAppend, EmptySeq
<1>9. HeardByVendor = Bind(outgoing, f)
  <2>1. \A j \in DOMAIN outgoing : outgoing[j] \in ChatNotes
    BY <1>8, LenProperties
  <2>2. [j \in DOMAIN outgoing |-> f[outgoing[j]]] = [j \in DOMAIN outgoing |-> ReadChat(outgoing[j])]
    BY <1>2, <2>1
  <2>3. HeardByVendor = FlattenSeq([j \in DOMAIN outgoing |-> ReadChat(outgoing[j])])
    BY DEF HeardByVendor, ChatKind
  <2> QED BY <2>2, <2>3 DEF Bind
<1>10. Bind(FlattenSeq(ss), f) = FlattenSeq([k \in DOMAIN ss |-> Bind(ss[k], f)])
  BY <1>2, <1>6, BindFlatten
<1>11. [k \in DOMAIN ss |-> Bind(ss[k], f)] = [k \in DOMAIN messages |-> Tell(talk.protocol, messages[k])]
  BY <1>4, <1>5, <1>6
<1> QED BY <1>7, <1>9, <1>10, <1>11 DEF Hears

\* A request says what its messages say, in each protocol's own words.
LEMMA RequestHeard ==
    ASSUME NEW messages \in Seq(Sendable(talk.protocol)), talk.protocol \in Speech,
           outgoing = BuildRequest(talk.protocol, messages)
    PROVE  HeardByVendor = Hears(talk.protocol, messages)
<1>1. CASE talk.protocol = "anthropic_messages"
  BY <1>1, AnthropicHeard DEF BuildRequest
<1>2. CASE talk.protocol = "openai_responses"
  BY <1>2, ResponsesHeard DEF BuildRequest
<1>3. CASE talk.protocol = ChatKind
  BY <1>3, ChatHeard DEF BuildRequest, ChatKind
<1> QED BY <1>1, <1>2, <1>3, SpeechAssumption DEF ChatKind

-----------------------------------------------------------------------------
(* Filters of a message, and the repair of results *)

\* Without the thoughts everything else is still there, in its order.
LEMMA VisibleClass ==
    ASSUME NEW class, class # "opaque"
    PROVE  \A c \in Seq(Blocks) : OfClass(Visible(c), class) = OfClass(c, class)
<1> DEFINE S == {c \in Seq(Blocks) : OfClass(Visible(c), class) = OfClass(c, class)}
<1>1. <<>> \in S
  <2>1. Visible(<<>>) = <<>>
    BY KeptNothing DEF Visible
  <2> QED BY <2>1, EmptySeq
<1>2. ASSUME NEW c \in Seq(Blocks), NEW b \in Blocks, c \in S PROVE Append(c, b) \in S
  <2>1. PICK v \in Seq(Blocks) : v = Visible(c)
    <3>1. Spokens \subseteq Blocks
      BY DEF Blocks
    <3> QED BY <3>1, ClassType, SeqMonotonic
  <2>2. Visible(Append(c, b)) = v \o IF b.class # "opaque" THEN <<b>> ELSE <<>>
    BY <2>1, ClassAppend
  <2>3. OfClass(Append(c, b), class) = OfClass(c, class) \o IF b.class = class THEN <<b>> ELSE <<>>
    BY ClassAppend
  <2>4. OfClass(v, class) = OfClass(c, class)
    BY <1>2, <2>1
  <2>5. CASE b.class = "opaque"
    <3>1. Visible(Append(c, b)) = v
      BY <2>2, <2>5, ConcatEmptySeq
    <3>2. OfClass(c, class) \in Seq(Blocks)
      BY ClassSeq
    <3>3. OfClass(Append(c, b), class) = OfClass(c, class)
      BY <2>3, <2>5, <3>2, ConcatEmptySeq
    <3> QED BY <2>1, <2>4, <3>1, <3>3, AppendProperties
  <2>6. CASE b.class # "opaque"
    <3>1. Visible(Append(c, b)) = Append(v, b)
      BY <2>2, <2>6, AppendIsConcat
    <3>2. OfClass(Append(v, b), class) = OfClass(v, class) \o IF b.class = class THEN <<b>> ELSE <<>>
      BY ClassAppend
    <3> QED BY <2>3, <2>4, <3>1, <3>2, AppendProperties
  <2> QED BY <2>5, <2>6
<1> HIDE DEF S
<1>3. Seq(Blocks) \subseteq S
  BY <1>1, <1>2, SeqInduct
<1> QED BY <1>3 DEF S

LEMMA ClassSome ==
    ASSUME NEW class
    PROVE  \A c \in Seq(Blocks) :
              (\E j \in 1 .. Len(c) : c[j].class = class) => OfClass(c, class) # <<>>
<1> DEFINE S == {c \in Seq(Blocks) :
                    (\E j \in 1 .. Len(c) : c[j].class = class) => OfClass(c, class) # <<>>}
<1>1. <<>> \in S
  BY EmptySeq
<1>2. ASSUME NEW c \in Seq(Blocks), NEW b \in Blocks, c \in S PROVE Append(c, b) \in S
  <2>1. PICK n, d, o : n = Len(c) /\ d = Append(c, b) /\ o = OfClass(c, class)
    OBVIOUS
  <2>2. /\ n \in Nat /\ Len(d) = n + 1 /\ d[n + 1] = b /\ d \in Seq(Blocks) /\ o \in Seq(Blocks)
        /\ \A j \in 1 .. n : d[j] = c[j]
    BY <2>1, LenProperties, AppendProperties, ClassSeq
  <2>3. OfClass(d, class) = o \o IF b.class = class THEN <<b>> ELSE <<>>
    BY <2>1, ClassAppend
  <2>4. CASE b.class = class
    <3>1. OfClass(d, class) = Append(o, b)
      BY <2>2, <2>3, <2>4, AppendIsConcat
    <3>2. Len(Append(o, b)) = Len(o) + 1 /\ Len(o) \in Nat
      BY <2>2, AppendProperties, LenProperties
    <3>3. OfClass(d, class) # <<>>
      BY <3>1, <3>2, EmptySeq
    <3> QED BY <2>1, <2>2, <3>3
  <2>5. CASE b.class # class
    <3>1. OfClass(d, class) = o
      BY <2>2, <2>3, <2>5, ConcatEmptySeq
    <3>2. ASSUME NEW j \in 1 .. n + 1, d[j].class = class PROVE o # <<>>
      <4>1. j \in 1 .. n
        BY <2>2, <2>5, <3>2
      <4> QED BY <1>2, <2>1, <2>2, <3>2, <4>1
    <3> QED BY <2>1, <2>2, <3>1, <3>2
  <2> QED BY <2>4, <2>5
<1> HIDE DEF S
<1>3. Seq(Blocks) \subseteq S
  BY <1>1, <1>2, SeqInduct
<1> QED BY <1>3 DEF S

\* No two calls of one answer have the same id.
Distinct(calls) ==
    \A i, j \in 1 .. Len(calls) : calls[i].id = calls[j].id => i = j

NumberedCalls(c) == \A j \in 1 .. Len(c) : c[j].class = "call" => c[j].id = j

LEMMA CallsDistinct ==
    \A c \in Seq(Blocks) : NumberedCalls(c) => Distinct(OfClass(c, "call"))
<1> DEFINE S == {c \in Seq(Blocks) : NumberedCalls(c) =>
                    /\ Distinct(OfClass(c, "call"))
                    /\ \A i \in 1 .. Len(OfClass(c, "call")) : OfClass(c, "call")[i].id \in 1 .. Len(c)}
<1>1. <<>> \in S
  <2>1. OfClass(<<>>, "call") = <<>>
    BY KeptNothing DEF OfClass
  <2> QED BY <2>1, EmptySeq DEF Distinct
<1>2. ASSUME NEW c \in Seq(Blocks), NEW b \in Blocks, c \in S PROVE Append(c, b) \in S
  <2>1. PICK n, d, o, e : /\ n = Len(c) /\ d = Append(c, b) /\ o = OfClass(c, "call")
                          /\ e = OfClass(d, "call")
    OBVIOUS
  <2>2. /\ n \in Nat /\ Len(d) = n + 1 /\ d[n + 1] = b /\ d \in Seq(Blocks) /\ o \in Seq(Blocks)
        /\ \A j \in 1 .. n : d[j] = c[j]
    BY <2>1, LenProperties, AppendProperties, ClassSeq
  <2>3. SUFFICES ASSUME NumberedCalls(d)
                 PROVE  Distinct(e) /\ \A i \in 1 .. Len(e) : e[i].id \in 1 .. n + 1
    BY <2>1, <2>2
  <2>4. NumberedCalls(c)
    <3>1. \A j \in 1 .. n : j \in 1 .. n + 1
      BY <2>2
    <3> QED BY <2>1, <2>2, <2>3, <3>1 DEF NumberedCalls
  <2>5. Distinct(o) /\ \A i \in 1 .. Len(o) : o[i].id \in 1 .. n
    BY <1>2, <2>1, <2>4
  <2>6. e = o \o IF b.class = "call" THEN <<b>> ELSE <<>>
    BY <2>1, ClassAppend
  <2>7. CASE b.class = "call"
    <3>1. PICK l : l = Len(o)
      OBVIOUS
    <3>2. e = Append(o, b)
      BY <2>2, <2>6, <2>7, AppendIsConcat
    <3>3. l \in Nat /\ Len(e) = l + 1 /\ e[l + 1] = b /\ \A i \in 1 .. l : e[i] = o[i]
      BY <2>2, <3>1, <3>2, AppendProperties, LenProperties
    <3>4. b.id = n + 1
      <4>1. n + 1 \in 1 .. n + 1
        BY <2>2
      <4> QED BY <2>2, <2>3, <2>7, <4>1 DEF NumberedCalls
    <3>5. \A i \in 1 .. l + 1 : i \in 1 .. l \/ i = l + 1
      BY <3>3
    <3>6. \A i \in 1 .. l : e[i].id \in 1 .. n
      BY <2>5, <3>1, <3>3
    <3>7. \A i \in 1 .. l : e[i].id # n + 1 /\ e[i].id \in 1 .. n + 1
      BY <2>2, <3>6
    <3>8. \A i, j \in 1 .. l : e[i].id = e[j].id => i = j
      BY <2>5, <3>1, <3>3 DEF Distinct
    <3>9. n + 1 \in 1 .. n + 1
      BY <2>2
    <3> QED BY <3>3, <3>4, <3>5, <3>7, <3>8, <3>9 DEF Distinct
  <2>8. CASE b.class # "call"
    <3>1. e = o
      BY <2>2, <2>6, <2>8, ConcatEmptySeq
    <3>2. 1 .. n \subseteq 1 .. n + 1
      BY <2>2
    <3> QED BY <2>5, <3>1, <3>2
  <2> QED BY <2>7, <2>8
<1> HIDE DEF S
<1>3. Seq(Blocks) \subseteq S
  BY <1>1, <1>2, SeqInduct
<1> QED BY <1>3 DEF S

-----------------------------------------------------------------------------
(* The results of an answer's calls *)

IsCalls(calls) == calls \in Seq(Calls) /\ Distinct(calls)

\* Results that answer the calls one by one need no repair.
LEMMA RepairFits ==
    ASSUME NEW calls, NEW replied, IsCalls(calls), Replies(calls, replied)
    PROVE  RepairToolResults(calls, replied) = replied
<1>1. PICK n : n = Len(calls)
  OBVIOUS
<1>2. /\ n \in Nat /\ DOMAIN calls = 1 .. n /\ DOMAIN replied = 1 .. n /\ Len(replied) = n
      /\ \A j \in 1 .. n : replied[j].tool_call_id = calls[j].id
      /\ replied \in Seq(Results)
  BY <1>1, LenProperties DEF IsCalls, Replies
<1>3. PICK known, fixed :
         /\ known = {calls[j].id : j \in DOMAIN calls}
         /\ fixed = [j \in DOMAIN calls |->
                IF {i \in DOMAIN replied : replied[i].tool_call_id = calls[j].id} = {}
                THEN ToolResultBlock(calls[j].id, Orphan, TRUE)
                ELSE replied[Max({i \in DOMAIN replied : replied[i].tool_call_id = calls[j].id})]]
  OBVIOUS
<1>4. ASSUME NEW j \in 1 .. n PROVE fixed[j] = replied[j]
  <2>1. {i \in DOMAIN replied : replied[i].tool_call_id = calls[j].id} = {j}
    <3>1. \A i \in 1 .. n : calls[i].id = calls[j].id => i = j
      BY <1>1 DEF IsCalls, Distinct
    <3> QED BY <1>2, <3>1
  <2>2. Max({j}) = j
    <3>1. j \in Int /\ j >= j
      BY <1>2
    <3>2. \E x \in {j} : \A y \in {j} : x >= y
      BY <3>1
    <3> QED BY <3>2 DEF Max
  <2> QED BY <1>2, <1>3, <2>1, <2>2
<1>5. fixed = [j \in 1 .. n |-> replied[j]]
  BY <1>2, <1>3, <1>4
<1>6. fixed = replied
  BY <1>2, <1>5
<1>7. \A i \in 1 .. Len(replied) :
         i \notin {x \in DOMAIN replied : replied[x].tool_call_id \notin known}
  BY <1>2, <1>3
<1>8. Kept(replied, {x \in DOMAIN replied : replied[x].tool_call_id \notin known}) = <<>>
  BY <1>2, <1>7, KeptNone
<1>9. RepairToolResults(calls, replied)
        = fixed \o Kept(replied, {x \in DOMAIN replied : replied[x].tool_call_id \notin known})
  BY <1>3 DEF RepairToolResults
<1> QED BY <1>2, <1>6, <1>8, <1>9, ConcatEmptySeq

Orphans(calls) == [j \in DOMAIN calls |-> ToolResultBlock(calls[j].id, Orphan, TRUE)]

LEMMA OrphansType ==
    ASSUME NEW calls, IsCalls(calls)
    PROVE  Orphans(calls) \in Seq(Results)
<1>1. Len(calls) \in Nat /\ DOMAIN calls = 1 .. Len(calls) /\ \A j \in 1 .. Len(calls) : calls[j] \in Calls
  BY LenProperties DEF IsCalls
<1>2. \A j \in 1 .. Len(calls) : ToolResultBlock(calls[j].id, Orphan, TRUE) \in Results
  BY <1>1 DEF ToolResultBlock, Results, Calls, Orphan, Stamps
<1>3. PICK o, n : o = Orphans(calls) /\ n = Len(calls)
  OBVIOUS
<1>4. o = [j \in 1 .. n |-> o[j]] /\ n \in Nat
  BY <1>1, <1>3 DEF Orphans
<1>5. \A j \in 1 .. n : o[j] \in Results
  BY <1>1, <1>2, <1>3 DEF Orphans
<1>6. o \in Seq(Results)
  BY <1>4, <1>5
<1> QED BY <1>3, <1>6

\* Calls without results get one each.
LEMMA RepairNone ==
    ASSUME NEW calls, IsCalls(calls)
    PROVE  RepairToolResults(calls, <<>>) = Orphans(calls)
<1>1. \A id : {i \in DOMAIN <<>> : <<>>[i].tool_call_id = id} = {}
  OBVIOUS
<1>2. PICK known : known = {calls[j].id : j \in DOMAIN calls}
  OBVIOUS
<1>3. Kept(<<>>, {i \in DOMAIN <<>> : <<>>[i].tool_call_id \notin known}) = <<>>
  BY KeptNothing
<1>4. RepairToolResults(calls, <<>>)
        = Orphans(calls) \o Kept(<<>>, {i \in DOMAIN <<>> : <<>>[i].tool_call_id \notin known})
  BY <1>1, <1>2 DEF RepairToolResults, Orphans
<1> QED BY <1>3, <1>4, OrphansType, ConcatEmptySeq

-----------------------------------------------------------------------------
(* What a run hears of the messages before it *)

CallsOf(m) == OfClass(m.content, "call")

\* A tool row answers, one by one, the calls of the answer before it, and an
\* answer has no two calls of one id.
MessageFits(s, k) ==
    /\ s[k].role # "tool" =>
            s[k].content \in Seq(Texts \cup Calls \cup Thoughts) /\ Distinct(CallsOf(s[k]))
    /\ s[k].role = "tool" =>
            /\ k > 1 /\ s[k - 1].role # "tool" /\ CallsOf(s[k - 1]) # <<>>
            /\ Replies(CallsOf(s[k - 1]), s[k].content)

IsSpeech(s) == s \in Seq(Utterances) /\ \A k \in 1 .. Len(s) : MessageFits(s, k)

\* A message as a later run, or its own, hears it.
Say(m, run) == Message(m.role, IF m.run = run THEN m.content ELSE Visible(m.content))

Follows(s, k) == k < Len(s) /\ s[k + 1].role = "tool"

\* What a run hears of message k: with results if the calls have none.
Retold(s, run, k) ==
    <<Say(s[k], run)>> \o
        IF k < Len(s) /\ ~Follows(s, k) /\ CallsOf(s[k]) # <<>>
        THEN <<Message("tool", Orphans(CallsOf(s[k])))>> ELSE <<>>

Told(s, run, n) == FlattenSeq([k \in 1 .. n |-> Retold(s, run, k)])

LEMMA SpeechHas ==
    ASSUME NEW s, IsSpeech(s), NEW k \in 1 .. Len(s)
    PROVE  /\ s[k] \in Utterances /\ MessageFits(s, k) /\ Len(s) \in Nat
           /\ s[k].content \in Seq(Blocks) /\ s[k].role \in Roles
<1>1. s \in Seq(Utterances) /\ MessageFits(s, k)
  BY DEF IsSpeech
<1>2. s[k] \in Utterances /\ Len(s) \in Nat
  BY <1>1, ElementOfSeq, LenProperties
<1>3. s[k].content \in Seq(Blocks) /\ s[k].role \in Roles
  BY <1>2 DEF Utterances
<1> QED BY <1>1, <1>2, <1>3

LEMMA ToolRow ==
    ASSUME NEW s, IsSpeech(s), NEW k \in 1 .. Len(s), s[k].role = "tool"
    PROVE  /\ s[k].content \in Seq(Results)
           /\ CallsOf(s[k]) = <<>> /\ Visible(s[k].content) = s[k].content
           /\ OfClass(s[k].content, "result") = s[k].content
<1>1. PICK c \in Seq(Results) : c = s[k].content
  BY SpeechHas DEF MessageFits, Replies
<1>2. c \in Seq(Blocks)
  BY <1>1, SpeechHas
<1>3. \A j \in 1 .. Len(c) : c[j].class = "result"
  <2>1. \A r \in Results : r.class = "result"
    BY DEF Results
  <2>2. \A j \in 1 .. Len(c) : c[j] \in Results
    BY ElementOfSeq
  <2> QED BY <2>1, <2>2
<1>4. \A j \in 1 .. Len(c) : c[j].class # "call" /\ c[j].class # "opaque"
  BY <1>3
<1> QED BY <1>1, <1>2, <1>3, <1>4, ClassNone, ClassAll, VisibleAll DEF CallsOf

LEMMA CallsFit ==
    ASSUME NEW s, IsSpeech(s), NEW k \in 1 .. Len(s)
    PROVE  IsCalls(CallsOf(s[k]))
<1>1. PICK calls \in Seq(Blocks) : calls = CallsOf(s[k])
  BY SpeechHas, ClassSeq DEF CallsOf
<1>2. \A j \in 1 .. Len(calls) : calls[j] \in Calls
  BY <1>1, SpeechHas, ClassSeq, BlockClasses DEF CallsOf
<1>3. calls \in Seq(Calls)
  BY <1>2, LenProperties
<1>4. Distinct(calls)
  <2>1. CASE s[k].role = "tool"
    <3>1. Len(calls) = 0
      BY <1>1, <2>1, ToolRow, EmptySeq
    <3> QED BY <3>1 DEF Distinct
  <2>2. CASE s[k].role # "tool"
    BY <1>1, <2>2, SpeechHas DEF MessageFits
  <2> QED BY <2>1, <2>2
<1> QED BY <1>1, <1>3, <1>4 DEF IsCalls

LEMMA RetoldType ==
    ASSUME NEW s, IsSpeech(s), NEW k \in 1 .. Len(s), NEW run
    PROVE  /\ Say(s[k], run) \in Messages
           /\ Message("tool", Orphans(CallsOf(s[k]))) \in Messages
           /\ Retold(s, run, k) \in Seq(Messages)
<1>1. PICK x, y : x = Say(s[k], run) /\ y = Message("tool", Orphans(CallsOf(s[k])))
  OBVIOUS
<1>2. x \in Messages
  <2>1. Visible(s[k].content) \in Seq(Blocks)
    <3>1. Spokens \subseteq Blocks
      BY DEF Blocks
    <3> QED BY <3>1, SpeechHas, ClassType, SeqMonotonic
  <2>2. PICK c \in Seq(Blocks) : x = Message(s[k].role, c)
    BY <1>1, <2>1, SpeechHas DEF Say
  <2> QED BY <2>2, SpeechHas DEF Message, Messages
<1>3. y \in Messages
  <2>1. Results \subseteq Blocks
    BY DEF Blocks, Spokens
  <2>2. Orphans(CallsOf(s[k])) \in Seq(Blocks)
    BY <2>1, CallsFit, OrphansType, SeqMonotonic
  <2> QED BY <1>1, <2>2 DEF Message, Messages, Roles
<1>4. <<x>> \in Seq(Messages) /\ <<x>> \o <<y>> \in Seq(Messages) /\ <<x>> \o <<>> = <<x>>
  BY <1>2, <1>3, ConcatProperties, ConcatEmptySeq
<1> QED BY <1>1, <1>2, <1>3, <1>4 DEF Retold

LEMMA ToldNext ==
    ASSUME NEW s, IsSpeech(s), NEW k \in Nat, k < Len(s), NEW run
    PROVE  /\ Told(s, run, k) \in Seq(Messages)
           /\ Told(s, run, k + 1) = Told(s, run, k) \o Retold(s, run, k + 1)
<1>1. PICK g, h, x : /\ g = [j \in 1 .. k |-> Retold(s, run, j)]
                     /\ h = [j \in 1 .. k + 1 |-> Retold(s, run, j)]
                     /\ x = Retold(s, run, k + 1)
  OBVIOUS
<1>2. Len(s) \in Nat
  BY LenProperties DEF IsSpeech
<1>3. \A j \in 1 .. k + 1 : j \in 1 .. Len(s)
  BY <1>2
<1>4. \A j \in 1 .. k + 1 : Retold(s, run, j) \in Seq(Messages)
  BY <1>3, RetoldType
<1>5. k + 1 \in 1 .. k + 1 /\ \A j \in 1 .. k : j \in 1 .. k + 1
  OBVIOUS
<1>6. g \in Seq(Seq(Messages)) /\ Len(g) = k
  BY <1>1, <1>4, <1>5
<1>7. x \in Seq(Messages)
  BY <1>1, <1>4, <1>5
<1>8. Grows(g, x, h)
  <2>1. h = [j \in 1 .. k + 1 |-> h[j]] /\ h[k + 1] = x
    BY <1>1, <1>5
  <2>2. \A j \in 1 .. k : h[j] = g[j]
    BY <1>1, <1>5
  <2>3. PICK l : l = Len(g)
    OBVIOUS
  <2>4. h = [j \in 1 .. l + 1 |-> h[j]] /\ h[l + 1] = x /\ \A j \in 1 .. l : h[j] = g[j]
    BY <1>6, <2>1, <2>2, <2>3
  <2> QED BY <2>3, <2>4 DEF Grows
<1>9. h = Append(g, x)
  BY <1>6, <1>7, <1>8, Grown
<1> QED BY <1>1, <1>6, <1>7, <1>9, FlattenAppend DEF Told

LEMMA ToldNothing == \A s, run : Told(s, run, 0) = <<>>
<1>1. TAKE s, run
<1>2. [k \in 1 .. 0 |-> Retold(s, run, k)] = <<>>
  OBVIOUS
<1> QED BY <1>2, FlattenNothing DEF Told

LEMMA ToldType ==
    ASSUME NEW s, IsSpeech(s), NEW k \in 0 .. Len(s), NEW run
    PROVE  Told(s, run, k) \in Seq(Messages)
<1>1. Len(s) \in Nat
  BY LenProperties DEF IsSpeech
<1>2. CASE k = 0
  BY <1>2, ToldNothing, EmptySeq
<1>3. CASE k # 0
  <2>1. k - 1 \in Nat /\ k - 1 < Len(s) /\ (k - 1) + 1 = k /\ k \in 1 .. Len(s)
    BY <1>1, <1>3
  <2>2. PICK i \in Nat : i = k - 1
    BY <2>1
  <2>3. /\ Told(s, run, i) \in Seq(Messages)
        /\ Told(s, run, i + 1) = Told(s, run, i) \o Retold(s, run, i + 1)
    BY <2>1, <2>2, ToldNext
  <2>4. Retold(s, run, k) \in Seq(Messages)
    BY <2>1, RetoldType
  <2>5. Told(s, run, k) = Told(s, run, i) \o Retold(s, run, k)
    BY <2>1, <2>2, <2>3
  <2>6. Told(s, run, i) \o Retold(s, run, k) \in Seq(Messages)
    BY <2>3, <2>4, ConcatProperties
  <2> QED BY <2>5, <2>6
<1> QED BY <1>2, <1>3

-----------------------------------------------------------------------------
(* The loop of _project_messages_unmasked, row by row *)

\* The rows of what was said before the run, and of its question.
Rebuilds(rows, s, run) ==
    /\ IsSpeech(s) /\ Len(s) > 0 /\ CallsOf(s[Len(s)]) = <<>>
    /\ rows = [k \in 1 .. Len(s) |-> rows[k]]
    /\ \A k \in 1 .. Len(s) :
          /\ RowFits(rows[k], s[k])
          /\ Say(s[k], run) = Message(s[k].role, Visible(s[k].content))

\* What ProjectNext has made of the first k rows.
Reached(s, run, k) ==
    IF Follows(s, k) THEN [out |-> Told(s, run, k) \o <<Say(s[k + 1], run)>>, consumed |-> TRUE]
    ELSE [out |-> Told(s, run, k), consumed |-> FALSE]

LEMMA ToolDecodes ==
    ASSUME NEW m \in Utterances, NEW row, RowFits(row, m), Visible(m.content) = m.content
    PROVE  DecodeMessage(row, TRUE) = Message(m.role, m.content)
<1>1. CASE row.payload = NoPayload
  <2>1. PayloadBlocks(row.payload) = <<>>
    BY <1>1 DEF PayloadBlocks
  <2>2. DecodeMessage(row, TRUE) = DecodeMessage(row, FALSE)
    BY <2>1 DEF DecodeMessage
  <2> QED BY <2>2, RowReturns
<1>2. CASE row.payload = PayloadOf(m.content)
  BY <1>2, RowReturns
<1> QED BY <1>1, <1>2 DEF RowFits

Recalled(row) == DecodeMessage(row, FALSE)
RowCalls(row) == OfClass(DecodeMessage(row, FALSE).content, "call")
RowResults(row) == OfClass(DecodeMessage(row, TRUE).content, "result")

LEMMA RebuildsSpeech ==
    ASSUME NEW rows, NEW s, NEW run, Rebuilds(rows, s, run)
    PROVE  IsSpeech(s) /\ Len(s) \in Nat
BY LenProperties DEF Rebuilds, IsSpeech

LEMMA RebuildsLength ==
    ASSUME NEW rows, NEW s, NEW run, Rebuilds(rows, s, run)
    PROVE  Len(rows) = Len(s)
<1>1. Len(s) \in Nat
  BY RebuildsSpeech
<1>2. rows \in Seq({rows[j] : j \in 1 .. Len(s)})
  BY <1>1 DEF Rebuilds
<1>3. DOMAIN rows = 1 .. Len(s)
  BY DEF Rebuilds
<1> QED BY <1>1, <1>2, <1>3, LenProperties

LEMMA RebuildsRow ==
    ASSUME NEW rows, NEW s, NEW run, Rebuilds(rows, s, run), NEW k \in 1 .. Len(s)
    PROVE  /\ Recalled(rows[k]) = Say(s[k], run)
           /\ rows[k].role = s[k].role
           /\ RowCalls(rows[k]) = CallsOf(s[k])
<1>1. IsSpeech(s) /\ s[k] \in Utterances /\ s[k].content \in Seq(Blocks)
  BY RebuildsSpeech, SpeechHas
<1>2. RowFits(rows[k], s[k]) /\ Say(s[k], run) = Message(s[k].role, Visible(s[k].content))
  BY DEF Rebuilds
<1>3. DecodeMessage(rows[k], FALSE) = Say(s[k], run)
  BY <1>1, <1>2, RowReturns
<1>4. rows[k].role = s[k].role
  BY <1>2 DEF RowFits
<1>5. RowCalls(rows[k]) = CallsOf(s[k])
  <2>1. DecodeMessage(rows[k], FALSE).content = Visible(s[k].content)
    <3>1. PICK v : v = Visible(s[k].content)
      OBVIOUS
    <3>2. Message(s[k].role, v).content = v
      BY DEF Message
    <3> QED BY <1>2, <1>3, <3>1, <3>2
  <2> QED BY <1>1, <2>1, VisibleClass DEF CallsOf, RowCalls
<1> QED BY <1>3, <1>4, <1>5 DEF Recalled

\* What ProjectNext does, case by case.
LEMMA NextAfterPair ==
    ASSUME NEW rows, NEW out, NEW k
    PROVE  ProjectNext(rows, [out |-> out, consumed |-> TRUE], k) = [out |-> out, consumed |-> FALSE]
<1>1. PICK acc : acc = [out |-> out, consumed |-> TRUE]
  OBVIOUS
<1>2. acc.consumed /\ acc.out = out
  BY <1>1
<1>3. ProjectNext(rows, acc, k) = [out |-> out, consumed |-> FALSE]
  BY <1>2 DEF ProjectNext
<1> QED BY <1>1, <1>3

LEMMA NextPlain ==
    ASSUME NEW rows, NEW out, NEW k, rows[k].role # "tool",
           OfClass(DecodeMessage(rows[k], FALSE).content, "call") = <<>>
    PROVE  ProjectNext(rows, [out |-> out, consumed |-> FALSE], k)
             = [out |-> Append(out, DecodeMessage(rows[k], FALSE)), consumed |-> FALSE]
<1>1. PICK acc : acc = [out |-> out, consumed |-> FALSE]
  OBVIOUS
<1>2. ~acc.consumed /\ acc.out = out
  BY <1>1
<1>3. ProjectNext(rows, acc, k)
        = [out |-> Append(out, DecodeMessage(rows[k], FALSE)), consumed |-> FALSE]
  BY <1>2, Zenon DEF ProjectNext, IncludeRoundTrip
<1> QED BY <1>1, <1>3

LEMMA NextPaired ==
    ASSUME NEW rows, NEW out, NEW k, rows[k].role # "tool", RowCalls(rows[k]) # <<>>,
           k < Len(rows), rows[k + 1].role = "tool"
    PROVE  ProjectNext(rows, [out |-> out, consumed |-> FALSE], k)
             = [out |-> out \o <<DecodeMessage(rows[k], FALSE),
                    Message("tool", RepairToolResults(RowCalls(rows[k]), RowResults(rows[k + 1])))>>,
                consumed |-> TRUE]
<1>1. PICK acc : acc = [out |-> out, consumed |-> FALSE]
  OBVIOUS
<1>2. ~acc.consumed /\ acc.out = out
  BY <1>1
<1>3. (k < Len(rows) /\ rows[k + 1].role = "tool") = TRUE
  OBVIOUS
<1>4. ProjectNext(rows, acc, k)
        = [out |-> out \o <<DecodeMessage(rows[k], FALSE),
               Message("tool", RepairToolResults(RowCalls(rows[k]), RowResults(rows[k + 1])))>>,
           consumed |-> TRUE]
  BY <1>2, <1>3, Zenon DEF ProjectNext, IncludeRoundTrip, RowCalls, RowResults
<1> QED BY <1>1, <1>4

LEMMA NextLost ==
    ASSUME NEW rows, NEW out, NEW k, rows[k].role # "tool", RowCalls(rows[k]) # <<>>,
           ~(k < Len(rows) /\ rows[k + 1].role = "tool")
    PROVE  ProjectNext(rows, [out |-> out, consumed |-> FALSE], k)
             = [out |-> out \o <<DecodeMessage(rows[k], FALSE),
                    Message("tool", RepairToolResults(RowCalls(rows[k]), <<>>))>>,
                consumed |-> FALSE]
<1>1. PICK acc : acc = [out |-> out, consumed |-> FALSE]
  OBVIOUS
<1>2. ~acc.consumed /\ acc.out = out
  BY <1>1
<1>3. (k < Len(rows) /\ rows[k + 1].role = "tool") = FALSE
  OBVIOUS
<1>4. ProjectNext(rows, acc, k)
        = [out |-> out \o <<DecodeMessage(rows[k], FALSE),
               Message("tool", RepairToolResults(RowCalls(rows[k]), <<>>))>>,
           consumed |-> FALSE]
  BY <1>2, <1>3, Zenon DEF ProjectNext, IncludeRoundTrip, RowCalls
<1> QED BY <1>1, <1>4

LEMMA TwoInOne ==
    ASSUME NEW T, NEW x \in T, NEW y \in T
    PROVE  <<x>> \o <<y>> = <<x, y>>
<1>0. <<x>> \in Seq(T) /\ <<y>> \in Seq(T) /\ <<x, y>> \in Seq(T)
  OBVIOUS
<1>1. PICK u \in Seq(T), v \in Seq(T), w \in Seq(T) : u = <<x>> /\ v = <<y>> /\ w = <<x, y>>
  BY <1>0
<1>2. Len(u) = 1 /\ Len(v) = 1 /\ Len(w) = 2 /\ u[1] = x /\ v[1] = y /\ w[1] = x /\ w[2] = y
  BY <1>1
<1>3. /\ u \o v \in Seq(T) /\ Len(u \o v) = 2 /\ (u \o v)[1] = u[1] /\ (u \o v)[2] = v[1]
  BY <1>2, ConcatProperties
<1>4. \A j \in 1 .. Len(w) : (u \o v)[j] = w[j]
  BY <1>2, <1>3
<1>5. u \o v = w
  BY <1>2, <1>3, <1>4, SeqEqual
<1> QED BY <1>1, <1>5

\* The row of results taken together with the answer before it.
LEMMA ConsumedRow ==
    ASSUME NEW rows, NEW s, NEW run, Rebuilds(rows, s, run), NEW k \in 1 .. Len(s), k > 1,
           Follows(s, k - 1)
    PROVE  ProjectNext(rows, Reached(s, run, k - 1), k) = Reached(s, run, k)
<1>0. IsSpeech(s) /\ Len(s) \in Nat
  BY RebuildsSpeech
<1>1. IsSpeech(s) /\ Len(s) \in Nat /\ k - 1 \in Nat /\ k - 1 < Len(s) /\ (k - 1) + 1 = k
  BY <1>0
<1>2. s[k].role = "tool"
  BY <1>1 DEF Follows
<1>3. ~Follows(s, k)
  <2>1. SUFFICES ASSUME k < Len(s), s[k + 1].role = "tool" PROVE FALSE
    BY DEF Follows
  <2>2. k + 1 \in 1 .. Len(s) /\ (k + 1) - 1 = k
    BY <1>1, <2>1
  <2>3. MessageFits(s, k + 1)
    BY <1>1, <2>2, SpeechHas
  <2> QED BY <1>2, <2>1, <2>2, <2>3 DEF MessageFits
<1>4. PICK t \in Seq(Messages) : t = Told(s, run, k - 1)
  <2>1. k - 1 \in 0 .. Len(s)
    BY <1>1
  <2> QED BY <1>1, <2>1, ToldType
<1>5. Retold(s, run, k) = <<Say(s[k], run)>>
  <2>1. CallsOf(s[k]) = <<>>
    BY <1>1, <1>2, ToolRow
  <2>2. <<Say(s[k], run)>> \o <<>> = <<Say(s[k], run)>>
    <3>1. PICK x \in Messages : x = Say(s[k], run)
      BY <1>1, RetoldType
    <3>2. <<x>> \in Seq(Messages)
      OBVIOUS
    <3> QED BY <3>1, <3>2, ConcatEmptySeq
  <2> QED BY <2>1, <2>2 DEF Retold
<1>6. Told(s, run, k) = t \o <<Say(s[k], run)>>
  <2>1. PICK i \in Nat : i = k - 1
    BY <1>1
  <2>2. Told(s, run, i + 1) = Told(s, run, i) \o Retold(s, run, i + 1)
    BY <1>1, <2>1, ToldNext
  <2> QED BY <1>1, <1>4, <1>5, <2>1, <2>2
<1>7. Reached(s, run, k - 1) = [out |-> t \o <<Say(s[k], run)>>, consumed |-> TRUE]
  BY <1>1, <1>4 DEF Reached
<1>8. Reached(s, run, k) = [out |-> t \o <<Say(s[k], run)>>, consumed |-> FALSE]
  BY <1>3, <1>6 DEF Reached
<1> QED BY <1>7, <1>8, NextAfterPair

\* A question, an answer, or an answer with its results.
LEMMA SpokenRow ==
    ASSUME NEW rows, NEW s, NEW run, Rebuilds(rows, s, run), NEW k \in 1 .. Len(s),
           ~Follows(s, k - 1)
    PROVE  ProjectNext(rows, Reached(s, run, k - 1), k) = Reached(s, run, k)
<1>0. IsSpeech(s) /\ Len(s) \in Nat
  BY RebuildsSpeech
<1>1. IsSpeech(s) /\ Len(s) \in Nat /\ k - 1 \in Nat /\ k - 1 < Len(s) /\ (k - 1) + 1 = k
  BY <1>0
<1>2. s[k].role # "tool"
  <2>1. CASE k = 1
    <3>1. MessageFits(s, k)
      BY <1>1, SpeechHas
    <3> QED BY <2>1, <3>1 DEF MessageFits
  <2>2. CASE k # 1
    BY <1>1, <2>2 DEF Follows
  <2> QED BY <2>1, <2>2
<1>3. PICK t \in Seq(Messages) : t = Told(s, run, k - 1)
  <2>1. k - 1 \in 0 .. Len(s)
    BY <1>1
  <2> QED BY <1>1, <2>1, ToldType
<1>4. PICK cur \in Messages : cur = Say(s[k], run)
  BY <1>1, RetoldType
<1>5. Reached(s, run, k - 1) = [out |-> t, consumed |-> FALSE]
  BY <1>3 DEF Reached
<1>6. Told(s, run, k) = t \o Retold(s, run, k)
  <2>1. PICK i \in Nat : i = k - 1
    BY <1>1
  <2>2. Told(s, run, i + 1) = Told(s, run, i) \o Retold(s, run, i + 1)
    BY <1>1, <2>1, ToldNext
  <2> QED BY <1>1, <1>3, <2>1, <2>2
<1>7. PICK calls : calls = CallsOf(s[k])
  OBVIOUS
<1>8. /\ DecodeMessage(rows[k], FALSE) = cur /\ rows[k].role = s[k].role
      /\ RowCalls(rows[k]) = calls /\ Len(rows) = Len(s)
  <2>1. Recalled(rows[k]) = Say(s[k], run)
    BY RebuildsRow
  <2>3. rows[k].role = s[k].role
    BY RebuildsRow
  <2>4. RowCalls(rows[k]) = CallsOf(s[k])
    BY RebuildsRow
  <2>2. Len(rows) = Len(s)
    BY RebuildsLength
  <2> QED BY <1>4, <1>7, <2>1, <2>2, <2>3, <2>4 DEF Recalled
<1>9. IsCalls(calls)
  BY <1>1, <1>7, CallsFit
<1>10. (k < Len(rows) /\ rows[k + 1].role = "tool") <=> Follows(s, k)
  <2>1. k < Len(s) => k + 1 \in 1 .. Len(s)
    BY <1>1
  <2>2. k < Len(s) => rows[k + 1].role = s[k + 1].role
    <3>1. SUFFICES ASSUME k < Len(s) PROVE rows[k + 1].role = s[k + 1].role
      OBVIOUS
    <3>2. PICK i \in 1 .. Len(s) : i = k + 1
      BY <2>1, <3>1
    <3>3. rows[i].role = s[i].role
      BY RebuildsRow
    <3> QED BY <3>2, <3>3
  <2> QED BY <1>8, <2>2 DEF Follows
<1>11. <<cur>> \in Seq(Messages) /\ <<cur>> \o <<>> = <<cur>> /\ t \o <<cur>> \in Seq(Messages)
       /\ t \o <<cur>> = Append(t, cur) /\ (t \o <<cur>>) \o <<>> = t \o <<cur>>
  <2>1. <<cur>> \in Seq(Messages)
    OBVIOUS
  <2>2. t \o <<cur>> \in Seq(Messages)
    BY <2>1, ConcatProperties
  <2> QED BY <2>1, <2>2, ConcatEmptySeq, AppendIsConcat
<1>12. ASSUME NEW x \in Messages
       PROVE  t \o <<cur, x>> = (t \o <<cur>>) \o <<x>> /\ (t \o <<cur, x>>) \o <<>> = t \o <<cur, x>>
              /\ <<cur>> \o <<x>> = <<cur, x>>
  <2>0. <<x>> \in Seq(Messages) /\ <<cur, x>> \in Seq(Messages)
    OBVIOUS
  <2>1. <<cur>> \o <<x>> = <<cur, x>> /\ <<x>> \in Seq(Messages) /\ <<cur, x>> \in Seq(Messages)
    BY <2>0, TwoInOne
  <2>2. (t \o <<cur>>) \o <<x>> = t \o (<<cur>> \o <<x>>)
    BY <1>11, <2>1, ConcatAssociative
  <2>3. t \o <<cur, x>> \in Seq(Messages)
    BY <2>1, ConcatProperties
  <2> QED BY <2>1, <2>2, <2>3, ConcatEmptySeq
<1>13. rows[k].role # "tool"
  BY <1>2, <1>8
<1>15. CASE calls = <<>>
  <2>1. ~Follows(s, k)
    <3>1. SUFFICES ASSUME k < Len(s), s[k + 1].role = "tool" PROVE FALSE
      BY DEF Follows
    <3>2. k + 1 \in 1 .. Len(s) /\ (k + 1) - 1 = k
      BY <1>1, <3>1
    <3>3. MessageFits(s, k + 1)
      BY <1>1, <3>2, SpeechHas
    <3> QED BY <1>7, <1>15, <3>1, <3>2, <3>3 DEF MessageFits
  <2>2. Retold(s, run, k) = <<cur>>
    BY <1>4, <1>7, <1>11, <1>15 DEF Retold
  <2>3. Reached(s, run, k) = [out |-> Append(t, cur), consumed |-> FALSE]
    BY <1>6, <1>11, <2>1, <2>2 DEF Reached
  <2>4. OfClass(DecodeMessage(rows[k], FALSE).content, "call") = <<>>
    BY <1>8, <1>15 DEF RowCalls
  <2>5. ProjectNext(rows, [out |-> t, consumed |-> FALSE], k)
            = [out |-> Append(t, DecodeMessage(rows[k], FALSE)), consumed |-> FALSE]
    BY <1>13, <2>4, NextPlain
  <2> QED BY <1>5, <1>8, <2>3, <2>5
<1>16. CASE calls # <<>> /\ Follows(s, k)
  <2>1. k + 1 \in 1 .. Len(s) /\ (k + 1) - 1 = k /\ s[k + 1].role = "tool"
    BY <1>1, <1>16 DEF Follows
  <2>2. /\ s[k + 1] \in Utterances /\ MessageFits(s, k + 1)
        /\ RowFits(rows[k + 1], s[k + 1])
    <3>1. PICK i \in 1 .. Len(s) : i = k + 1
      BY <2>1
    <3>2. s[i] \in Utterances /\ MessageFits(s, i)
      BY <1>1, SpeechHas
    <3>3. RowFits(rows[i], s[i])
      BY DEF Rebuilds
    <3> QED BY <3>1, <3>2, <3>3
  <2>3. PICK c : c = s[k + 1].content
    OBVIOUS
  <2>4. c \in Seq(Results) /\ Visible(c) = c /\ OfClass(c, "result") = c
    BY <1>1, <2>1, <2>3, ToolRow
  <2>5. DecodeMessage(rows[k + 1], TRUE) = Message("tool", c)
    BY <2>1, <2>2, <2>3, <2>4, ToolDecodes
  <2>6. RowResults(rows[k + 1]) = c
    <3>1. Message("tool", c).content = c
      BY DEF Message
    <3> QED BY <2>4, <2>5, <3>1 DEF RowResults
  <2>7. Replies(calls, c)
    BY <1>7, <2>1, <2>2, <2>3 DEF MessageFits
  <2>8. RepairToolResults(calls, c) = c
    BY <1>9, <2>7, RepairFits
  <2>9. Say(s[k + 1], run) = Message("tool", c)
    BY <2>1, <2>3, <2>4 DEF Say
  <2>10. PICK x \in Messages : x = Say(s[k + 1], run)
    BY <1>1, <2>1, RetoldType
  <2>11. Retold(s, run, k) = <<cur>>
    BY <1>4, <1>11, <1>16 DEF Retold
  <2>12. Reached(s, run, k) = [out |-> (t \o <<cur>>) \o <<x>>, consumed |-> TRUE]
    BY <1>6, <1>16, <2>10, <2>11 DEF Reached
  <2>13. ProjectNext(rows, [out |-> t, consumed |-> FALSE], k)
            = [out |-> t \o <<DecodeMessage(rows[k], FALSE),
                    Message("tool", RepairToolResults(RowCalls(rows[k]), RowResults(rows[k + 1])))>>,
               consumed |-> TRUE]
    <3>1. k < Len(rows) /\ rows[k + 1].role = "tool" /\ RowCalls(rows[k]) # <<>>
      BY <1>8, <1>10, <1>16
    <3> QED BY <1>13, <3>1, NextPaired
  <2>14. ProjectNext(rows, Reached(s, run, k - 1), k) = [out |-> t \o <<cur, x>>, consumed |-> TRUE]
    BY <1>5, <1>8, <2>6, <2>8, <2>9, <2>10, <2>13
  <2> QED BY <1>12, <2>12, <2>14
<1>17. CASE calls # <<>> /\ ~Follows(s, k)
  <2>1. k < Len(s)
    BY <1>1, <1>7, <1>17 DEF Rebuilds
  <2>3. RepairToolResults(calls, <<>>) = Orphans(calls)
    BY <1>9, RepairNone
  <2>4. PICK x \in Messages : x = Message("tool", Orphans(calls))
    BY <1>1, <1>7, RetoldType
  <2>5. Retold(s, run, k) = <<cur, x>>
    BY <1>4, <1>7, <1>12, <1>17, <2>1, <2>4 DEF Retold
  <2>6. Reached(s, run, k) = [out |-> t \o <<cur, x>>, consumed |-> FALSE]
    BY <1>6, <1>12, <1>17, <2>4, <2>5 DEF Reached
  <2>7. ProjectNext(rows, [out |-> t, consumed |-> FALSE], k)
            = [out |-> t \o <<DecodeMessage(rows[k], FALSE),
                    Message("tool", RepairToolResults(RowCalls(rows[k]), <<>>))>>,
               consumed |-> FALSE]
    <3>1. ~(k < Len(rows) /\ rows[k + 1].role = "tool") /\ RowCalls(rows[k]) # <<>>
      BY <1>8, <1>10, <1>17
    <3> QED BY <1>13, <3>1, NextLost
  <2> QED BY <1>5, <1>8, <2>3, <2>4, <2>6, <2>7
<1> QED BY <1>15, <1>16, <1>17

Loops(rows, n, f) ==
    f = [k \in 0 .. n |-> IF k = 0 THEN [out |-> <<>>, consumed |-> FALSE]
                          ELSE ProjectNext(rows, f[k - 1], k)]

LEMMA LoopExists == \A rows : \A n \in Nat : \E f : Loops(rows, n, f)
<1>1. SUFFICES ASSUME NEW rows PROVE \A n \in Nat : \E f : Loops(rows, n, f)
  OBVIOUS
<1> DEFINE S == {n \in Nat : \E f : Loops(rows, n, f)}
<1>2. 0 \in S
  <2>1. PICK f : f = [k \in 0 .. 0 |-> [out |-> <<>>, consumed |-> FALSE]]
    OBVIOUS
  <2>2. Loops(rows, 0, f)
    BY <2>1 DEF Loops
  <2> QED BY <2>2
<1>3. ASSUME NEW n \in Nat, n \in S PROVE n + 1 \in S
  <2>1. PICK f : Loops(rows, n, f)
    BY <1>3
  <2>2. PICK g : g = [k \in 0 .. n + 1 |-> IF k = n + 1 THEN ProjectNext(rows, f[n], k) ELSE f[k]]
    OBVIOUS
  <2>3. ASSUME NEW k \in 0 .. n + 1
        PROVE  g[k] = IF k = 0 THEN [out |-> <<>>, consumed |-> FALSE]
                      ELSE ProjectNext(rows, g[k - 1], k)
    <3>1. CASE k = n + 1
      <4>1. k # 0 /\ k - 1 = n /\ n \in 0 .. n + 1 /\ n # n + 1
        BY <3>1
      <4>2. g[k - 1] = f[n]
        BY <2>2, <4>1
      <4> QED BY <2>2, <3>1, <4>1, <4>2
    <3>2. CASE k # n + 1
      <4>1. k \in 0 .. n /\ (k # 0 => k - 1 \in 0 .. n + 1 /\ k - 1 # n + 1)
        BY <3>2
      <4>2. f[k] = IF k = 0 THEN [out |-> <<>>, consumed |-> FALSE]
                   ELSE ProjectNext(rows, f[k - 1], k)
        BY <2>1, <4>1 DEF Loops
      <4>3. k # 0 => g[k - 1] = f[k - 1]
        BY <2>2, <4>1
      <4> QED BY <2>2, <3>2, <4>1, <4>2, <4>3
    <3> QED BY <3>1, <3>2
  <2>4. g = [k \in 0 .. n + 1 |-> g[k]]
    BY <2>2
  <2>5. Loops(rows, n + 1, g)
    BY <2>3, <2>4 DEF Loops
  <2> QED BY <2>5
<1> HIDE DEF S
<1>4. Nat \subseteq S
  BY <1>2, <1>3, NatInduct
<1> QED BY <1>4 DEF S

\* The rebuilt history is what the run should hear, answer for answer.
LEMMA ProjectionTells ==
    ASSUME NEW rows, NEW s, NEW run, Rebuilds(rows, s, run)
    PROVE  ProjectStored(rows) = Told(s, run, Len(s))
<1>1. PICK n : n = Len(s)
  OBVIOUS
<1>2. n \in Nat /\ n \in 1 .. n /\ Len(rows) = n /\ IsSpeech(s)
  <2>1. n \in Nat /\ n > 0
    BY <1>1, LenProperties DEF Rebuilds, IsSpeech
  <2>2. n \in 1 .. n
    BY <2>1
  <2> QED BY <1>1, <2>1, <2>2, RebuildsSpeech, RebuildsLength
<1>3. PICK f : Loops(rows, n, f) /\ ProjectStored(rows) = f[n].out
  <2>1. \E f : f = [k \in 0 .. n |-> IF k = 0 THEN [out |-> <<>>, consumed |-> FALSE]
                                     ELSE ProjectNext(rows, f[k - 1], k)]
    <3>1. \E f : Loops(rows, n, f)
      BY <1>2, LoopExists, Zenon
    <3> QED BY <3>1 DEF Loops
  <2> QED BY <1>2, <2>1 DEF ProjectStored, Loops
<1> DEFINE S == {k \in Nat : k <= n => f[k] = Reached(s, run, k)}
<1>4. 0 \in S
  <2>1. ~Follows(s, 0)
    <3>1. SUFFICES ASSUME s[1].role = "tool" PROVE FALSE
      BY DEF Follows
    <3>2. 1 \in 1 .. Len(s)
      BY <1>1, <1>2
    <3>3. MessageFits(s, 1)
      BY <1>2, <3>2, SpeechHas
    <3> QED BY <3>1, <3>3 DEF MessageFits
  <2>2. Reached(s, run, 0) = [out |-> <<>>, consumed |-> FALSE]
    BY <2>1, ToldNothing DEF Reached
  <2>3. f[0] = [out |-> <<>>, consumed |-> FALSE]
    <3>1. 0 \in 0 .. n
      BY <1>2
    <3> QED BY <1>3, <3>1 DEF Loops
  <2> QED BY <2>2, <2>3
<1>5. ASSUME NEW k \in Nat, k \in S PROVE k + 1 \in S
  <2>1. SUFFICES ASSUME k + 1 <= n PROVE f[k + 1] = Reached(s, run, k + 1)
    OBVIOUS
  <2>2. k + 1 \in 1 .. Len(s) /\ k + 1 \in 0 .. n /\ k + 1 # 0 /\ (k + 1) - 1 = k /\ k <= n
    BY <1>1, <1>2, <2>1
  <2>3. f[k + 1] = ProjectNext(rows, f[k], k + 1)
    BY <1>3, <2>2 DEF Loops
  <2>4. f[k] = Reached(s, run, k)
    BY <1>5, <2>2
  <2>5. PICK i \in 1 .. Len(s) : i = k + 1 /\ i - 1 = k
    BY <2>2
  <2>6. Follows(s, i - 1) => i > 1
    <3>1. SUFFICES ASSUME Follows(s, i - 1), i = 1 PROVE FALSE
      BY <1>1, <1>2
    <3>2. s[i].role = "tool"
      BY <3>1 DEF Follows
    <3>3. MessageFits(s, i)
      BY <1>2, SpeechHas
    <3> QED BY <3>1, <3>2, <3>3 DEF MessageFits
  <2>7. ProjectNext(rows, Reached(s, run, i - 1), i) = Reached(s, run, i)
    BY <2>6, ConsumedRow, SpokenRow
  <2> QED BY <2>3, <2>4, <2>5, <2>7
<1> HIDE DEF S
<1>6. Nat \subseteq S
  BY <1>4, <1>5, NatInduct
<1>7. f[n] = Reached(s, run, n)
  BY <1>2, <1>6 DEF S
<1>8. ~Follows(s, n)
  BY <1>1, <1>2 DEF Follows
<1> QED BY <1>1, <1>3, <1>7, <1>8 DEF Reached

-----------------------------------------------------------------------------
(* What holds of the speech, of the phase of a run and of its history *)

OwnThoughts(c, kind) == \A j \in 1 .. Len(c) : c[j] \in Thoughts => c[j].protocol = kind

SpeechFits ==
    /\ IsSpeech(said)
    /\ Speaking => \A k \in 1 .. Len(said) :
            said[k].run = talk.run => OwnThoughts(said[k].content, talk.protocol)

\* Where the run is tells what was said last.
PhaseFits ==
    /\ talk.phase \in {"call", "answer"} => CallsOf(said[Len(said)]) = <<>>
    /\ talk.phase = "tools" =>
            said[Len(said)].role # "tool" /\ CallsOf(said[Len(said)]) # <<>>
    /\ talk.phase = "answer" => outgoing = BuildRequest(talk.protocol, history)

HistoryFits ==
    talk.phase \in {"call", "answer", "tools"} => history = Told(said, talk.run, Len(said))

LEMMA ClassesApart ==
    /\ \A b \in Results : b \in Blocks /\ b \notin Thoughts
    /\ \A b \in Texts \cup Calls \cup Thoughts : b \in Blocks /\ b \notin Results
    /\ \A b \in Spokens : b \notin Thoughts
<1>1. /\ \A b \in Results : b.class = "result"
      /\ \A b \in Texts \cup Calls \cup Thoughts : b.class # "result"
      /\ \A b \in Spokens : b.class # "opaque"
      /\ \A b \in Thoughts : b.class = "opaque"
  BY DEF Results, Texts, Calls, Thoughts, Spokens
<1> QED BY <1>1 DEF Blocks, Spokens

LEMMA SendableIf ==
    ASSUME NEW kind, NEW m \in Messages, OwnThoughts(m.content, kind),
           \/ m.role = "tool" /\ \A j \in 1 .. Len(m.content) : m.content[j] \in Results
           \/ m.role # "tool" /\ \A j \in 1 .. Len(m.content) : m.content[j] \notin Results
    PROVE  m \in Sendable(kind)
BY Zenon DEF Sendable, OwnThoughts

LEMMA SaySendable ==
    ASSUME NEW kind, NEW run, NEW s, IsSpeech(s), NEW k \in 1 .. Len(s),
           s[k].run = run => OwnThoughts(s[k].content, kind)
    PROVE  Say(s[k], run) \in Sendable(kind)
<1>1. PICK m : m = Say(s[k], run)
  OBVIOUS
<1>2. m \in Messages
  BY <1>1, RetoldType
<1>3. m.role = s[k].role /\ m.content = IF s[k].run = run THEN s[k].content ELSE Visible(s[k].content)
  BY <1>1 DEF Say, Message
<1>4. s[k].content \in Seq(Blocks) /\ MessageFits(s, k)
  BY SpeechHas
<1>5. CASE s[k].role = "tool"
  <2>1. s[k].content \in Seq(Results) /\ m.content = s[k].content
    BY <1>3, <1>5, ToolRow
  <2>2. \A j \in 1 .. Len(m.content) : m.content[j] \in Results
    BY <2>1, ElementOfSeq
  <2>3. OwnThoughts(m.content, kind)
    BY <2>2, ClassesApart DEF OwnThoughts
  <2> QED BY <1>1, <1>2, <1>3, <1>5, <2>2, <2>3, SendableIf
<1>6. CASE s[k].role # "tool"
  <2>1. PICK c \in Seq(Texts \cup Calls \cup Thoughts) : c = s[k].content
    BY <1>4, <1>6 DEF MessageFits
  <2>2. \A j \in 1 .. Len(c) : c[j] \in Texts \cup Calls \cup Thoughts
    BY ElementOfSeq
  <2>3. CASE s[k].run = run
    <3>1. \A j \in 1 .. Len(c) : c[j] \notin Results
      BY <2>2, ClassesApart
    <3>2. m.content = c /\ OwnThoughts(c, kind)
      BY <1>3, <2>1, <2>3
    <3> QED BY <1>1, <1>2, <1>3, <1>6, <3>1, <3>2, SendableIf
  <2>4. CASE s[k].run # run
    <3>1. PICK p : p = {j \in DOMAIN c : c[j].class # "opaque"}
      OBVIOUS
    <3>2. m.content = Kept(c, p)
      BY <1>3, <2>1, <2>4, <3>1 DEF Visible
    <3>3. \A j \in 1 .. Len(m.content) : m.content[j] \in Texts \cup Calls \cup Thoughts
      <4>1. Kept(c, p) \in Seq(Texts \cup Calls \cup Thoughts)
        BY KeptType
      <4> QED BY <3>2, <4>1, ElementOfSeq
    <3>4. \A j \in 1 .. Len(m.content) : m.content[j] \in Spokens
      <4>1. m.content \in Seq(Spokens)
        BY <1>3, <1>4, <2>4, ClassType
      <4> QED BY <4>1, ElementOfSeq
    <3>5. OwnThoughts(m.content, kind)
      BY <3>4, ClassesApart DEF OwnThoughts
    <3>6. \A j \in 1 .. Len(m.content) : m.content[j] \notin Results
      BY <3>3, ClassesApart
    <3> QED BY <1>1, <1>2, <1>3, <1>6, <3>5, <3>6, SendableIf
  <2> QED BY <2>3, <2>4
<1> QED BY <1>1, <1>5, <1>6

LEMMA OrphansSendable ==
    ASSUME NEW kind, NEW calls, IsCalls(calls)
    PROVE  Message("tool", Orphans(calls)) \in Sendable(kind)
<1>1. PICK c \in Seq(Results) : c = Orphans(calls)
  BY OrphansType
<1>2. \A j \in 1 .. Len(c) : c[j] \in Results
  BY ElementOfSeq
<1>3. Results \subseteq Blocks
  BY ClassesApart
<1>4. c \in Seq(Blocks)
  BY <1>3, SeqMonotonic
<1>5. PICK m : m = Message("tool", c)
  OBVIOUS
<1>6. m \in Messages /\ m.role = "tool" /\ m.content = c
  BY <1>4, <1>5 DEF Message, Messages, Roles
<1> QED BY <1>1, <1>2, <1>5, <1>6, ClassesApart DEF Sendable

LEMMA SayableResults ==
    ASSUME NEW c \in Seq(Results), NEW kind
    PROVE  Sayable(kind, c) = c
<1>1. c \in Seq(Blocks)
  <2>1. Results \subseteq Blocks
    BY ClassesApart
  <2> QED BY <2>1, SeqMonotonic
<1>2. \A j \in 1 .. Len(c) : c[j].class = "result"
  <2>1. \A b \in Results : b.class = "result"
    BY DEF Results
  <2> QED BY <2>1, ElementOfSeq
<1>3. \A j \in 1 .. Len(c) : c[j].class # "text" /\ c[j].class # "call"
  BY <1>2
<1>4. OfClass(c, "result") = c /\ OfClass(c, "text") = <<>> /\ OfClass(c, "call") = <<>>
  BY <1>1, <1>2, <1>3, ClassAll, ClassNone
<1>5. <<>> \o <<>> = <<>> /\ <<>> \o c = c
  BY ConcatEmptySeq, EmptySeq
<1> QED BY <1>4, <1>5 DEF Sayable

LEMMA OrphansHeard ==
    ASSUME NEW kind, NEW calls, IsCalls(calls)
    PROVE  Tell(kind, Message("tool", Orphans(calls)))
             = [j \in DOMAIN calls |-> Heed("result", calls[j].id, Orphan)]
<1>1. PICK c \in Seq(Results) : c = Orphans(calls)
  BY OrphansType
<1>2. Tell(kind, Message("tool", c)) = [j \in DOMAIN c |-> Meaning("tool", c[j])]
  <2>1. Sayable(kind, c) = c
    BY SayableResults
  <2> QED BY <2>1 DEF Tell, Message
<1>3. \A j \in DOMAIN calls : Meaning("tool", c[j]) = Heed("result", calls[j].id, Orphan)
  BY <1>1 DEF Orphans, ToolResultBlock, Meaning
<1>4. DOMAIN c = DOMAIN calls
  BY <1>1 DEF Orphans
<1> QED BY <1>1, <1>2, <1>3, <1>4

Audible(kind, m, run) ==
    IF kind = ChatKind
    THEN OfClass(m.content, "text") \o OfClass(m.content, "call") \o OfClass(m.content, "result")
    ELSE IF m.run # run THEN Visible(m.content) ELSE m.content

\* The part that can be said is the same with and without the thoughts of
\* other runs, in the protocol that has none.
LEMMA SayHeard ==
    ASSUME NEW s, IsSpeech(s), NEW k \in 1 .. Len(s), NEW run, NEW kind
    PROVE  Sayable(kind, Say(s[k], run).content) = Audible(kind, s[k], run)
<1>1. PICK c \in Seq(Blocks) : c = s[k].content
  BY SpeechHas
<1>2. Say(s[k], run).content = IF s[k].run = run THEN c ELSE Visible(c)
  BY <1>1 DEF Say, Message
<1>3. /\ OfClass(Visible(c), "text") = OfClass(c, "text")
      /\ OfClass(Visible(c), "call") = OfClass(c, "call")
      /\ OfClass(Visible(c), "result") = OfClass(c, "result")
  BY VisibleClass
<1>4. CASE s[k].run = run
  BY <1>1, <1>2, <1>4 DEF Sayable, Audible
<1>5. CASE s[k].run # run
  BY <1>1, <1>2, <1>3, <1>5 DEF Sayable, Audible
<1> QED BY <1>4, <1>5

-----------------------------------------------------------------------------
(* A request says what the history tells *)

LEMMA HearsBind ==
    ASSUME NEW kind, NEW f, f = [m \in Messages |-> Tell(kind, m)]
    PROVE  /\ f \in [Messages -> Seq(Heeds)]
           /\ \A s \in Seq(Messages) : Hears(kind, s) = Bind(s, f)
<1>1. \A m \in Messages : Tell(kind, m) \in Seq(Heeds)
  BY TellType
<1>2. f \in [Messages -> Seq(Heeds)]
  BY <1>1
<1>3. ASSUME NEW s \in Seq(Messages) PROVE Hears(kind, s) = Bind(s, f)
  <2>1. \A k \in DOMAIN s : s[k] \in Messages
    BY LenProperties
  <2>2. [k \in DOMAIN s |-> f[s[k]]] = [k \in DOMAIN s |-> Tell(kind, s[k])]
    BY <2>1
  <2> QED BY <2>2 DEF Hears, Bind
<1> QED BY <1>2, <1>3

LEMMA HearsFlatten ==
    ASSUME NEW kind, NEW ss \in Seq(Seq(Messages))
    PROVE  Hears(kind, FlattenSeq(ss)) = FlattenSeq([k \in DOMAIN ss |-> Hears(kind, ss[k])])
<1>1. PICK f : f = [m \in Messages |-> Tell(kind, m)]
  OBVIOUS
<1>2. f \in [Messages -> Seq(Heeds)] /\ \A s \in Seq(Messages) : Hears(kind, s) = Bind(s, f)
  BY <1>1, HearsBind
<1>3. Bind(FlattenSeq(ss), f) = FlattenSeq([k \in DOMAIN ss |-> Bind(ss[k], f)])
  BY <1>2, BindFlatten
<1>4. FlattenSeq(ss) \in Seq(Messages)
  BY FlattenAppend, EmptySeq
<1>5. \A k \in DOMAIN ss : ss[k] \in Seq(Messages)
  BY LenProperties
<1>6. [k \in DOMAIN ss |-> Bind(ss[k], f)] = [k \in DOMAIN ss |-> Hears(kind, ss[k])]
  BY <1>2, <1>5
<1> QED BY <1>2, <1>3, <1>4, <1>6

LEMMA HearsOne ==
    ASSUME NEW kind, NEW m \in Messages
    PROVE  Hears(kind, <<m>>) = Tell(kind, m)
<1>1. [k \in DOMAIN <<m>> |-> Tell(kind, <<m>>[k])] = <<Tell(kind, m)>>
  OBVIOUS
<1>2. FlattenSeq(<<Tell(kind, m)>>) = Tell(kind, m)
  BY TellType, FlattenOne
<1> QED BY <1>1, <1>2 DEF Hears

LEMMA HearsTwo ==
    ASSUME NEW kind, NEW m \in Messages, NEW x \in Messages
    PROVE  Hears(kind, <<m>> \o <<x>>) = Tell(kind, m) \o Tell(kind, x)
<1>1. PICK f : f = [y \in Messages |-> Tell(kind, y)]
  OBVIOUS
<1>2. f \in [Messages -> Seq(Heeds)] /\ \A s \in Seq(Messages) : Hears(kind, s) = Bind(s, f)
  BY <1>1, HearsBind
<1>3. PICK s \in Seq(Messages), t \in Seq(Messages) : s = <<m>> /\ t = <<x>>
  <2>1. <<m>> \in Seq(Messages) /\ <<x>> \in Seq(Messages)
    OBVIOUS
  <2> QED BY <2>1
<1>4. s \o t \in Seq(Messages)
  BY ConcatProperties
<1>5. Bind(s \o t, f) = Bind(s, f) \o Bind(t, f)
  BY <1>2, BindConcat
<1>6. Hears(kind, s) = Tell(kind, m) /\ Hears(kind, t) = Tell(kind, x)
  BY <1>3, HearsOne
<1> QED BY <1>2, <1>3, <1>4, <1>5, <1>6

LEMMA RetoldHeard ==
    ASSUME TalkTypes, SpeechFits, PhaseFits, talk.phase = "answer", NEW k \in 1 .. Len(said)
    PROVE  Hears(talk.protocol, Retold(said, talk.run, k)) = ToHear(k)
<1>1. PICK kind, run, n : kind = talk.protocol /\ run = talk.run /\ n = Len(said)
  OBVIOUS
<1>2. IsSpeech(said) /\ n \in Nat
  BY <1>1, LenProperties DEF SpeechFits, IsSpeech
<1>3. PICK calls : calls = CallsOf(said[k]) /\ IsCalls(calls)
  BY <1>2, CallsFit
<1>4. PICK m, x : m = Say(said[k], run) /\ x = Message("tool", Orphans(calls))
  OBVIOUS
<1>5. m \in Messages /\ x \in Messages
  BY <1>2, <1>3, <1>4, RetoldType
<1>6. PICK content : content = Sayable(kind, m.content)
  OBVIOUS
<1>7. Tell(kind, m) = [j \in DOMAIN content |-> Meaning(said[k].role, content[j])]
  <2>1. m.role = said[k].role
    BY <1>4 DEF Say, Message
  <2> QED BY <1>6, <2>1 DEF Tell
<1>8. content = Audible(kind, said[k], run)
  BY <1>2, <1>4, <1>6, SayHeard
<1>9. PICK lost : lost = IF k < n /\ said[k + 1].role = "tool" THEN <<>>
                         ELSE [j \in DOMAIN calls |-> Heed("result", calls[j].id, Orphan)]
  OBVIOUS
<1>10. ToHear(k) = Tell(kind, m) \o lost
  BY <1>1, <1>3, <1>7, <1>8, <1>9 DEF ToHear, CallsOf, ChatKind, Audible
<1>11. Tell(kind, m) \in Seq(Heeds)
  BY <1>5, TellType
<1>12. CASE k < n /\ ~Follows(said, k) /\ calls # <<>>
  <2>1. lost = [j \in DOMAIN calls |-> Heed("result", calls[j].id, Orphan)]
    BY <1>1, <1>9, <1>12 DEF Follows
  <2>2. Tell(kind, x) = lost
    BY <1>3, <1>4, <2>1, OrphansHeard
  <2>3. Retold(said, run, k) = <<m>> \o <<x>>
    BY <1>1, <1>3, <1>4, <1>12 DEF Retold
  <2> QED BY <1>1, <1>5, <1>10, <2>2, <2>3, HearsTwo
<1>13. CASE ~(k < n /\ ~Follows(said, k) /\ calls # <<>>)
  <2>1. k = n => calls = <<>>
    BY <1>1, <1>3 DEF PhaseFits
  <2>2. (k < n /\ said[k + 1].role = "tool") \/ calls = <<>>
    BY <1>1, <1>2, <1>13, <2>1 DEF Follows
  <2>3. lost = <<>>
    <3>1. CASE k < n /\ said[k + 1].role = "tool"
      BY <1>9, <3>1
    <3>2. CASE calls = <<>>
      <4>1. [j \in DOMAIN calls |-> Heed("result", calls[j].id, Orphan)] = <<>>
        BY <3>2
      <4> QED BY <1>9, <4>1
    <3> QED BY <2>2, <3>1, <3>2
  <2>4. Retold(said, run, k) = <<m>>
    <3>1. <<m>> \o <<>> = <<m>>
      <4>1. <<m>> \in Seq(Messages)
        BY <1>5
      <4> QED BY <4>1, ConcatEmptySeq
    <3> QED BY <1>1, <1>3, <1>4, <1>13, <3>1 DEF Retold
  <2> QED BY <1>1, <1>5, <1>10, <1>11, <2>3, <2>4, HearsOne, ConcatEmptySeq
<1> QED BY <1>12, <1>13

LEMMA RequestKeeps ==
    ASSUME TalkTypes, SpeechFits, PhaseFits, HistoryFits
    PROVE  RequestFaithful
<1>1. SUFFICES ASSUME talk.phase = "answer"
               PROVE  HeardByVendor = FlattenSeq([k \in DOMAIN said |-> ToHear(k)])
  BY DEF RequestFaithful
<1>2. PICK kind, run, n : kind = talk.protocol /\ run = talk.run /\ n = Len(said)
  OBVIOUS
<1>3. /\ IsSpeech(said) /\ n \in Nat /\ DOMAIN said = 1 .. n /\ kind \in Speech /\ Speaking
      /\ history = Told(said, run, n) /\ outgoing = BuildRequest(kind, history)
  <2>1. Speaking /\ kind \in Speech
    BY <1>1, <1>2 DEF Speaking, TalkTypes
  <2>2. IsSpeech(said) /\ n \in Nat /\ DOMAIN said = 1 .. n
    BY <1>2, LenProperties DEF SpeechFits, IsSpeech
  <2>3. history = Told(said, run, n) /\ outgoing = BuildRequest(kind, history)
    BY <1>1, <1>2 DEF HistoryFits, PhaseFits
  <2> QED BY <2>1, <2>2, <2>3
<1>4. PICK ss : ss = [k \in 1 .. n |-> Retold(said, run, k)]
  OBVIOUS
<1>5. ASSUME NEW k \in 1 .. n
      PROVE  ss[k] \in Seq(Sendable(kind)) /\ ss[k] \in Seq(Messages)
  <2>1. PICK m \in Sendable(kind) : m = Say(said[k], run)
    <3>1. said[k].run = run => OwnThoughts(said[k].content, kind)
      BY <1>2, <1>3 DEF SpeechFits
    <3> QED BY <1>2, <1>3, <3>1, SaySendable
  <2>2. PICK x \in Sendable(kind) : x = Message("tool", Orphans(CallsOf(said[k])))
    <3>1. IsCalls(CallsOf(said[k]))
      BY <1>2, <1>3, CallsFit
    <3> QED BY <3>1, OrphansSendable
  <2>3. <<m>> \in Seq(Sendable(kind)) /\ <<x>> \in Seq(Sendable(kind))
    OBVIOUS
  <2>4. <<m>> \o <<x>> \in Seq(Sendable(kind)) /\ <<m>> \o <<>> \in Seq(Sendable(kind))
    BY <2>3, ConcatProperties, ConcatEmptySeq
  <2>5. Retold(said, run, k) \in {<<m>> \o <<x>>, <<m>> \o <<>>}
    BY <2>1, <2>2 DEF Retold
  <2>6. ss[k] \in Seq(Messages)
    BY <1>2, <1>3, <1>4, RetoldType
  <2> QED BY <1>4, <2>4, <2>5, <2>6
<1>6. ss \in Seq(Seq(Sendable(kind))) /\ ss \in Seq(Seq(Messages)) /\ DOMAIN ss = 1 .. n
  BY <1>3, <1>4, <1>5
<1>7. history = FlattenSeq(ss)
  BY <1>3, <1>4 DEF Told
<1>8. history \in Seq(Sendable(kind))
  BY <1>6, <1>7, FlattenAppend, EmptySeq
<1>9. HeardByVendor = Hears(kind, history)
  BY <1>2, <1>3, <1>8, RequestHeard
<1>10. Hears(kind, FlattenSeq(ss)) = FlattenSeq([k \in DOMAIN ss |-> Hears(kind, ss[k])])
  BY <1>6, HearsFlatten
<1>11. \A k \in 1 .. n : Hears(kind, ss[k]) = ToHear(k)
  BY <1>1, <1>2, <1>4, RetoldHeard
<1>12. [k \in DOMAIN ss |-> Hears(kind, ss[k])] = [k \in DOMAIN said |-> ToHear(k)]
  BY <1>3, <1>6, <1>11
<1> QED BY <1>7, <1>9, <1>10, <1>12

-----------------------------------------------------------------------------
(* The inductive invariant, and RequestFaithful *)

\* The speech t is the speech s and m.
Longer(s, m, t) ==
    /\ IsSpeech(t) /\ Len(t) = Len(s) + 1 /\ t[Len(s) + 1] = m
    /\ \A k \in 1 .. Len(s) : t[k] = s[k]

LEMMA SpeechMore ==
    ASSUME NEW s, IsSpeech(s), NEW m \in Utterances, MessageFits(Append(s, m), Len(s) + 1)
    PROVE  Longer(s, m, Append(s, m))
<1>0. PICK t : t = Append(s, m)
  OBVIOUS
<1>1. PICK n : n = Len(s)
  OBVIOUS
<1>2. s \in Seq(Utterances) /\ n \in Nat
  BY <1>1, LenProperties DEF IsSpeech
<1>3. t \in Seq(Utterances) /\ Len(t) = n + 1 /\ t[n + 1] = m /\ \A k \in 1 .. n : t[k] = s[k]
  BY <1>0, <1>1, <1>2, AppendProperties
<1>4. ASSUME NEW k \in 1 .. n + 1 PROVE MessageFits(t, k)
  <2>1. CASE k = n + 1
    BY <1>0, <1>1, <2>1
  <2>2. CASE k # n + 1
    <3>1. k \in 1 .. n /\ t[k] = s[k] /\ (k > 1 => k - 1 \in 1 .. n)
      BY <1>2, <1>3, <2>2
    <3>2. k > 1 => t[k - 1] = s[k - 1]
      BY <1>3, <3>1
    <3>3. MessageFits(s, k)
      BY <1>1, <3>1, SpeechHas
    <3> QED BY <3>1, <3>2, <3>3 DEF MessageFits
  <2> QED BY <2>1, <2>2
<1> QED BY <1>0, <1>1, <1>3, <1>4 DEF IsSpeech, Longer

\* One message more is heard as it was said.
LEMMA ToldMore ==
    ASSUME NEW s, IsSpeech(s), NEW m \in Utterances, NEW t, t = Append(s, m), NEW run,
           MessageFits(t, Len(s) + 1), m.role = "tool" \/ CallsOf(s[Len(s)]) = <<>>
    PROVE  Told(t, run, Len(t)) = Append(Told(s, run, Len(s)), Say(m, run))
<1>1. PICK n : n = Len(s)
  OBVIOUS
<1>2. n \in Nat /\ IsSpeech(t) /\ Len(t) = n + 1 /\ t[n + 1] = m /\ \A k \in 1 .. n : t[k] = s[k]
  <2>1. n \in Nat
    BY <1>1, LenProperties DEF IsSpeech
  <2>2. Longer(s, m, t)
    BY SpeechMore
  <2> QED BY <1>1, <2>1, <2>2 DEF Longer
<1>3. ASSUME NEW k \in 1 .. n PROVE Retold(t, run, k) = Retold(s, run, k)
  <2>1. t[k] = s[k]
    BY <1>2
  <2>2. CASE k < n
    <3>1. k + 1 \in 1 .. n /\ k < n + 1
      BY <1>2, <2>2
    <3>2. Follows(t, k) <=> Follows(s, k)
      BY <1>1, <1>2, <2>2, <3>1 DEF Follows
    <3> QED BY <1>1, <1>2, <2>1, <2>2, <3>1, <3>2 DEF Retold
  <2>3. CASE k = n
    <3>1. Follows(t, k) \/ CallsOf(t[k]) = <<>>
      BY <1>1, <1>2, <2>1, <2>3 DEF Follows
    <3>2. ~(k < Len(s))
      BY <1>1, <1>2, <2>3
    <3> QED BY <2>1, <3>1, <3>2 DEF Retold
  <2> QED BY <1>2, <2>2, <2>3
<1>4. Told(t, run, n) = Told(s, run, n)
  <2>1. [k \in 1 .. n |-> Retold(t, run, k)] = [k \in 1 .. n |-> Retold(s, run, k)]
    BY <1>3
  <2> QED BY <2>1 DEF Told
<1>5. n < Len(t) /\ n + 1 \in 1 .. Len(t) /\ ~(n + 1 < Len(t)) /\ n \in 0 .. Len(s)
  BY <1>1, <1>2
<1>6. Told(t, run, n + 1) = Told(t, run, n) \o Retold(t, run, n + 1)
  BY <1>2, <1>5, ToldNext
<1>7. PICK x \in Messages : x = Say(m, run)
  BY <1>2, <1>5, RetoldType
<1>8. Retold(t, run, n + 1) = <<x>>
  <2>1. <<x>> \o <<>> = <<x>>
    <3>1. <<x>> \in Seq(Messages)
      OBVIOUS
    <3> QED BY <3>1, ConcatEmptySeq
  <2> QED BY <1>2, <1>5, <1>7, <2>1 DEF Retold
<1>9. Told(s, run, n) \in Seq(Messages)
  BY <1>5, ToldType
<1> QED BY <1>1, <1>2, <1>4, <1>6, <1>7, <1>8, <1>9, AppendIsConcat

Tells == TalkTypes /\ RowsFit /\ SpeechFits /\ PhaseFits /\ HistoryFits

LEMMA QuestionFits ==
    ASSUME NEW content, NEW b \in Texts, content = <<b>>
    PROVE  /\ content \in Seq(Blocks) /\ content \in Seq(Texts \cup Calls \cup Thoughts)
           /\ OfClass(content, "call") = <<>> /\ Visible(content) = content
           /\ \A j \in 1 .. Len(content) : content[j] \notin Thoughts
<1>1. Len(content) = 1 /\ content[1] = b /\ b.class = "text" /\ b \in Blocks
  BY DEF Texts, Blocks, Spokens
<1>2. content \in Seq(Blocks) /\ content \in Seq(Texts \cup Calls \cup Thoughts)
  BY <1>1
<1>3. \A j \in 1 .. Len(content) : content[j] = b
  BY <1>1
<1>4. OfClass(content, "call") = <<>>
  <2>1. \A j \in 1 .. Len(content) : content[j].class # "call"
    BY <1>1, <1>3
  <2> QED BY <1>2, <2>1, ClassNone
<1>5. Visible(content) = content
  <2>1. \A j \in 1 .. Len(content) : content[j].class # "opaque"
    BY <1>1, <1>3
  <2> QED BY <1>2, <2>1, VisibleAll
<1>6. b \notin Thoughts
  BY <1>1 DEF Thoughts
<1> QED BY <1>2, <1>3, <1>4, <1>5, <1>6

LEMMA AskTells ==
    ASSUME Tells, NEW kind \in Speech, AskQuestion(kind)
    PROVE  Tells'
<1>0. PICK b \in Texts : b = TextBlock(Stamp(1))
  BY AskKeeps DEF Tells
<1>1. PICK content, m, n, run :
         /\ content = <<b>> /\ n = Len(said) /\ run = talk.run + 1
         /\ m = [role |-> "user", content |-> content, run |-> run]
  OBVIOUS
<1>2. TalkTypes' /\ RowsFit' /\ said' = Append(said, m)
  BY <1>0, <1>1, AskKeeps DEF Tells
<1>3. /\ talk' = [run |-> run, protocol |-> kind, phase |-> "call"]
      /\ history' = ProjectStored(stored')
  BY <1>1 DEF AskQuestion
<1>4. IsSpeech(said) /\ n \in Nat /\ talk.run \in Nat
  BY <1>1, LenProperties DEF Tells, SpeechFits, IsSpeech, TalkTypes
<1>5. /\ content \in Seq(Blocks) /\ content \in Seq(Texts \cup Calls \cup Thoughts)
      /\ OfClass(content, "call") = <<>> /\ Visible(content) = content
      /\ \A j \in 1 .. Len(content) : content[j] \notin Thoughts
  BY <1>1, QuestionFits
<1>6. m \in Utterances /\ m.run = run /\ m.role = "user" /\ m.content = content /\ run # talk.run
  BY <1>1, <1>4, <1>5 DEF Utterances, Roles
<1>7. said'[n + 1] = m
  BY <1>1, <1>2, <1>4, <1>6, AppendProperties DEF IsSpeech
<1>8. MessageFits(said', n + 1)
  <2>1. CallsOf(m) = <<>>
    BY <1>5, <1>6 DEF CallsOf
  <2>2. Distinct(<<>>)
    BY EmptySeq DEF Distinct
  <2> QED BY <1>5, <1>6, <1>7, <2>1, <2>2 DEF MessageFits
<1>9. IsSpeech(said') /\ Len(said') = n + 1 /\ \A k \in 1 .. n : said'[k] = said[k]
  <2>1. PICK t : t = said'
    OBVIOUS
  <2>2. MessageFits(t, Len(said) + 1) /\ t = Append(said, m)
    BY <1>1, <1>2, <1>8, <2>1
  <2>3. Longer(said, m, t)
    <3>1. IsSpeech(said) /\ m \in Utterances
      BY <1>4, <1>6
    <3> QED BY <3>1, <2>2, SpeechMore
  <2> QED BY <1>1, <2>1, <2>3 DEF Longer
<1>10. \A k \in 1 .. n : said'[k].run # run
  <2>1. ASSUME NEW k \in 1 .. n PROVE said[k].run # run
    <3>1. said[k].run <= talk.run
      BY <1>1 DEF Tells, RowsFit
    <3>2. said[k].run \in Nat
      <4>1. said[k] \in Utterances
        BY <1>1, <1>4, SpeechHas
      <4> QED BY <4>1 DEF Utterances
    <3> QED BY <1>1, <1>4, <3>1, <3>2
  <2> QED BY <1>9, <2>1
<1>11. \A k \in 1 .. n + 1 : k \in 1 .. n \/ k = n + 1
  BY <1>4
<1>12. SpeechFits'
  <2>1. ASSUME NEW k \in 1 .. n + 1, said'[k].run = run
        PROVE  OwnThoughts(said'[k].content, kind)
    <3>1. k = n + 1
      BY <1>10, <1>11, <2>1
    <3> QED BY <1>5, <1>6, <1>7, <3>1 DEF OwnThoughts
  <2> QED BY <1>3, <1>9, <2>1 DEF SpeechFits
<1>13. CallsOf(said'[Len(said')]) = <<>>
  BY <1>5, <1>6, <1>7, <1>9 DEF CallsOf
<1>14. PhaseFits'
  BY <1>3, <1>13 DEF PhaseFits
<1>15. HistoryFits'
  <2>1. ASSUME NEW k \in 1 .. n + 1
        PROVE  Say(said'[k], run) = Message(said'[k].role, Visible(said'[k].content))
    <3>1. CASE k \in 1 .. n
      BY <1>10, <3>1 DEF Say
    <3>2. CASE k = n + 1
      BY <1>5, <1>6, <1>7, <3>2 DEF Say
    <3> QED BY <1>11, <3>1, <3>2
  <2>2. \A k \in 1 .. n + 1 : RowFits(stored'[k], said'[k])
    BY <1>2, <1>9 DEF RowsFit
  <2>3. stored' = [k \in 1 .. n + 1 |-> stored'[k]] /\ Len(said') > 0
    BY <1>2, <1>4, <1>9 DEF TalkTypes
  <2>4. Rebuilds(stored', said', run)
    BY <1>9, <1>13, <2>1, <2>2, <2>3 DEF Rebuilds
  <2>5. ProjectStored(stored') = Told(said', run, Len(said'))
    BY <2>4, ProjectionTells
  <2> QED BY <1>3, <2>5 DEF HistoryFits
<1> QED BY <1>2, <1>12, <1>14, <1>15 DEF Tells

\* An answer or its results.
LEMMA SpeechGrows ==
    ASSUME Tells, Speaking, NEW m \in Utterances, m.run = talk.run, said' = Append(said, m),
           MessageFits(said', Len(said) + 1), OwnThoughts(m.content, talk.protocol),
           talk'.run = talk.run, talk'.protocol = talk.protocol
    PROVE  /\ SpeechFits' /\ said'[Len(said')] = m
           /\ Len(said') = Len(said) + 1 /\ Len(said) \in Nat
<1>1. PICK n : n = Len(said)
  OBVIOUS
<1>2. IsSpeech(said) /\ n \in Nat
  BY <1>1, LenProperties DEF Tells, SpeechFits, IsSpeech
<1>3. IsSpeech(said') /\ Len(said') = n + 1 /\ said'[n + 1] = m /\ \A k \in 1 .. n : said'[k] = said[k]
  <2>1. PICK t : t = said'
    OBVIOUS
  <2>2. t = Append(said, m) /\ MessageFits(t, Len(said) + 1)
    BY <2>1
  <2>3. Longer(said, m, t)
    BY <1>2, <2>2, SpeechMore
  <2> QED BY <1>1, <2>1, <2>3 DEF Longer
<1>4. ASSUME NEW k \in 1 .. n + 1, said'[k].run = talk.run
      PROVE  OwnThoughts(said'[k].content, talk.protocol)
  <2>1. CASE k = n + 1
    BY <1>3, <2>1
  <2>2. CASE k # n + 1
    <3>1. k \in 1 .. n
      BY <1>2, <2>2
    <3>2. said'[k] = said[k]
      BY <1>3, <3>1
    <3> QED BY <1>1, <1>4, <3>1, <3>2 DEF Tells, SpeechFits
  <2> QED BY <2>1, <2>2
<1> QED BY <1>1, <1>2, <1>3, <1>4 DEF SpeechFits

LEMMA SpokenFits ==
    ASSUME TalkTypes, Speaking, NEW n \in Nat, NEW kinds \in [1 .. n -> SpokenKinds]
    PROVE  /\ Spoken(kinds) \in Seq(Texts \cup Calls \cup Thoughts)
           /\ Distinct(OfClass(Spoken(kinds), "call"))
           /\ OwnThoughts(Spoken(kinds), talk.protocol)
           /\ (\E j \in DOMAIN kinds : kinds[j] = "call") => OfClass(Spoken(kinds), "call") # <<>>
<1>1. PICK c \in Seq(Blocks) : c = Spoken(kinds)
  BY SpokenType
<1>2. /\ Len(c) = n
      /\ \A j \in 1 .. n : /\ c[j] \in Texts \cup Calls \cup Thoughts
                           /\ c[j].class = kinds[j]
                           /\ kinds[j] = "call" => c[j].id = j
                           /\ kinds[j] = "opaque" => c[j].protocol = talk.protocol
  BY <1>1, SpokenType
<1>3. c = [j \in 1 .. n |-> c[j]]
  BY <1>2, LenProperties
<1>4. c \in Seq(Texts \cup Calls \cup Thoughts)
  BY <1>2, <1>3
<1>5. NumberedCalls(c)
  BY <1>2 DEF NumberedCalls
<1>6. OwnThoughts(c, talk.protocol)
  <2>1. \A b \in Thoughts : b.class = "opaque"
    BY DEF Thoughts
  <2> QED BY <1>2, <2>1 DEF OwnThoughts
<1>7. (\E j \in DOMAIN kinds : kinds[j] = "call") => OfClass(c, "call") # <<>>
  <2>1. SUFFICES ASSUME NEW j \in 1 .. n, kinds[j] = "call" PROVE OfClass(c, "call") # <<>>
    OBVIOUS
  <2>2. j \in 1 .. Len(c) /\ c[j].class = "call"
    BY <1>2, <2>1
  <2> QED BY <2>2, ClassSome
<1> QED BY <1>1, <1>4, <1>5, <1>6, <1>7, CallsDistinct

LEMMA SpeaksTells == ASSUME Tells, ModelSpeaks PROVE Tells'
<1>1. Speaking /\ talk.phase = "answer"
  BY DEF ModelSpeaks, Speaking
<1>2. TalkTypes' /\ RowsFit'
  BY SpeaksKeeps DEF Tells
<1>3. PICK n \in Nat : \E kinds \in [1 .. n -> SpokenKinds] :
         /\ said' = Append(said, [role |-> "assistant", content |-> Spoken(kinds), run |-> talk.run])
         /\ history' = Append(history, Message("assistant", Spoken(kinds)))
         /\ talk' = [talk EXCEPT !.phase = IF \E j \in DOMAIN kinds : kinds[j] = "call"
                                           THEN "tools" ELSE "end"]
  BY SpeaksKeeps DEF Tells
<1>4. PICK kinds \in [1 .. n -> SpokenKinds] :
         /\ said' = Append(said, [role |-> "assistant", content |-> Spoken(kinds), run |-> talk.run])
         /\ history' = Append(history, Message("assistant", Spoken(kinds)))
         /\ talk' = [talk EXCEPT !.phase = IF \E j \in DOMAIN kinds : kinds[j] = "call"
                                           THEN "tools" ELSE "end"]
  BY <1>3
<1>5. PICK phase \in {"tools", "end"} :
         phase = IF \E j \in DOMAIN kinds : kinds[j] = "call" THEN "tools" ELSE "end"
  OBVIOUS
<1>6. talk' = [talk EXCEPT !.phase = phase]
  BY <1>4, <1>5
<1>7. talk'.run = talk.run /\ talk'.protocol = talk.protocol /\ talk'.phase = phase
  BY <1>6 DEF Tells, TalkTypes
<1>8. PICK c, m : /\ c = Spoken(kinds)
                  /\ m = [role |-> "assistant", content |-> c, run |-> talk.run]
  OBVIOUS
<1>9. /\ c \in Seq(Texts \cup Calls \cup Thoughts) /\ Distinct(OfClass(c, "call"))
      /\ OwnThoughts(c, talk.protocol)
      /\ phase = "tools" => OfClass(c, "call") # <<>>
  BY <1>1, <1>5, <1>8, SpokenFits DEF Tells
<1>10. m \in Utterances /\ m.content = c /\ m.role = "assistant" /\ m.run = talk.run
  <2>1. c \in Seq(Blocks)
    BY <1>1, <1>8, SpokenType DEF Tells
  <2> QED BY <1>8, <2>1 DEF Utterances, Roles, Tells, TalkTypes
<1>11. said' = Append(said, m) /\ history' = Append(history, Message("assistant", c))
  BY <1>4, <1>8
<1>12. said'[Len(said) + 1] = m
  <2>1. said \in Seq(Utterances)
    BY DEF Tells, TalkTypes
  <2> QED BY <1>10, <1>11, <2>1, AppendProperties
<1>13. MessageFits(said', Len(said) + 1)
  BY <1>9, <1>10, <1>12 DEF MessageFits, CallsOf
<1>14. SpeechFits' /\ said'[Len(said')] = m
  BY <1>1, <1>7, <1>9, <1>10, <1>11, <1>13, SpeechGrows
<1>15. PhaseFits'
  BY <1>5, <1>7, <1>9, <1>10, <1>14 DEF PhaseFits, CallsOf
<1>16. HistoryFits'
  <2>1. history = Told(said, talk.run, Len(said)) /\ CallsOf(said[Len(said)]) = <<>>
    BY <1>1 DEF Tells, HistoryFits, PhaseFits
  <2>2. IsSpeech(said)
    BY DEF Tells, SpeechFits
  <2>3. Told(said', talk.run, Len(said')) = Append(Told(said, talk.run, Len(said)), Say(m, talk.run))
    BY <1>10, <1>11, <1>13, <2>1, <2>2, ToldMore
  <2>4. Say(m, talk.run) = Message("assistant", c)
    BY <1>10 DEF Say
  <2> QED BY <1>7, <1>11, <2>1, <2>3, <2>4 DEF HistoryFits
<1> QED BY <1>2, <1>14, <1>15, <1>16 DEF Tells

LEMMA ToolsTells == ASSUME Tells, ToolsAnswer PROVE Tells'
<1>1. Speaking /\ talk.phase = "tools"
  BY DEF ToolsAnswer, Speaking
<1>2. PICK c, m : /\ c = ToolContent
                  /\ m = [role |-> "tool", content |-> c, run |-> talk.run]
  OBVIOUS
<1>3. /\ TalkTypes' /\ RowsFit' /\ said' = Append(said, m)
      /\ history' = Append(history, Message("tool", c))
      /\ talk' = [talk EXCEPT !.phase = "call"]
  BY <1>2, ToolsKeeps DEF Tells
<1>4. talk'.run = talk.run /\ talk'.protocol = talk.protocol /\ talk'.phase = "call"
  BY <1>3 DEF Tells, TalkTypes
<1>5. PICK n : n = Len(said) /\ n \in Nat /\ n > 0 /\ n \in 1 .. n /\ n + 1 > 1 /\ (n + 1) - 1 = n
  <2>1. Len(said) \in Nat /\ Len(said) > 0
    BY <1>1, LenProperties DEF Tells, TalkTypes
  <2> QED BY <2>1
<1>6. Replies(CallsOf(said[n]), c) /\ c \in Seq(Blocks) /\ c \in Seq(Results)
  <2>1. Replies(OfClass(Last(said).content, "call"), c) /\ c \in Seq(Blocks)
    BY <1>1, <1>2, ToolContentType DEF Tells
  <2> QED BY <1>5, <2>1 DEF Last, CallsOf, Replies
<1>7. m \in Utterances /\ m.content = c /\ m.role = "tool" /\ m.run = talk.run
  BY <1>2, <1>6 DEF Utterances, Roles, Tells, TalkTypes
<1>8. said'[n + 1] = m /\ said'[n] = said[n]
  <2>1. said \in Seq(Utterances)
    BY DEF Tells, TalkTypes
  <2> QED BY <1>3, <1>5, <1>7, <2>1, AppendProperties
<1>9. MessageFits(said', n + 1)
  <2>1. said[n].role # "tool" /\ CallsOf(said[n]) # <<>>
    BY <1>1, <1>5 DEF Tells, PhaseFits
  <2> QED BY <1>5, <1>6, <1>7, <1>8, <2>1 DEF MessageFits
<1>10. OwnThoughts(c, talk.protocol)
  <2>1. \A j \in 1 .. Len(c) : c[j] \in Results
    BY <1>6, ElementOfSeq
  <2> QED BY <2>1, ClassesApart DEF OwnThoughts
<1>11. SpeechFits' /\ said'[Len(said')] = m /\ Len(said') = n + 1
  BY <1>1, <1>3, <1>4, <1>5, <1>7, <1>9, <1>10, SpeechGrows
<1>12. PhaseFits'
  <2>1. CallsOf(said'[Len(said')]) = <<>>
    <3>1. PICK s, k : s = said' /\ k = n + 1
      OBVIOUS
    <3>2. IsSpeech(s) /\ k \in 1 .. Len(s) /\ s[k].role = "tool"
      BY <1>5, <1>7, <1>8, <1>11, <3>1 DEF SpeechFits
    <3>3. CallsOf(s[k]) = <<>>
      BY <3>2, ToolRow
    <3> QED BY <1>11, <3>1, <3>3
  <2> QED BY <1>4, <2>1 DEF PhaseFits
<1>13. HistoryFits'
  <2>1. history = Told(said, talk.run, n)
    BY <1>1, <1>5 DEF Tells, HistoryFits
  <2>2. IsSpeech(said)
    BY DEF Tells, SpeechFits
  <2>3. Told(said', talk.run, Len(said')) = Append(Told(said, talk.run, n), Say(m, talk.run))
    BY <1>3, <1>5, <1>7, <1>9, <2>2, ToldMore
  <2>4. Say(m, talk.run) = Message("tool", c)
    BY <1>7 DEF Say
  <2> QED BY <1>3, <1>4, <2>1, <2>3, <2>4 DEF HistoryFits
<1> QED BY <1>3, <1>11, <1>12, <1>13 DEF Tells

\* The steps that say nothing.
LEMMA SilenceTells ==
    ASSUME Tells, CallVendor \/ RunBreaks \/ RunCloses
    PROVE  Tells'
<1>1. TalkTypes' /\ RowsFit' /\ said' = said
  <2>1. CASE CallVendor
    BY <2>1, PhaseKeeps DEF CallVendor, Speaking, Tells
  <2>2. CASE RunBreaks
    BY <2>2, PhaseKeeps DEF RunBreaks, Speaking, Tells
  <2>3. CASE RunCloses
    BY <2>3, ClosesKeeps DEF RunCloses, Tells
  <2> QED BY <2>1, <2>2, <2>3
<1>2. CASE CallVendor
  <2>1. /\ talk' = [talk EXCEPT !.phase = "answer"] /\ talk.phase = "call"
        /\ outgoing' = BuildRequest(talk.protocol, history) /\ history' = history
    BY <1>2 DEF CallVendor, Phase
  <2>2. talk'.run = talk.run /\ talk'.protocol = talk.protocol /\ talk'.phase = "answer"
    BY <2>1 DEF Tells, TalkTypes
  <2>3. SpeechFits'
    BY <1>1, <2>1, <2>2 DEF Tells, SpeechFits, Speaking
  <2>4. PhaseFits'
    BY <1>1, <2>1, <2>2 DEF Tells, PhaseFits
  <2>5. HistoryFits'
    BY <1>1, <2>1, <2>2 DEF Tells, HistoryFits
  <2> QED BY <1>1, <2>3, <2>4, <2>5 DEF Tells
<1>3. CASE RunBreaks
  <2>1. talk' = [talk EXCEPT !.phase = "end"] /\ talk.phase \in {"call", "answer", "tools"}
    BY <1>3 DEF RunBreaks, Phase
  <2>2. talk'.run = talk.run /\ talk'.protocol = talk.protocol /\ talk'.phase = "end"
    BY <2>1 DEF Tells, TalkTypes
  <2>3. SpeechFits'
    BY <1>1, <2>1, <2>2 DEF Tells, SpeechFits, Speaking
  <2> QED BY <1>1, <2>2, <2>3 DEF Tells, PhaseFits, HistoryFits
<1>4. CASE RunCloses
  <2>1. talk'.phase = "over"
    BY <1>4 DEF RunCloses, Phase, Tells, TalkTypes
  <2>2. SpeechFits'
    BY <1>1, <2>1 DEF Tells, SpeechFits, Speaking
  <2> QED BY <1>1, <2>1, <2>2 DEF Tells, PhaseFits, HistoryFits
<1> QED BY <1>2, <1>3, <1>4

LEMMA TellsStart == ASSUME TalkInit PROVE Tells
<1>1. TalkTypes /\ RowsFit /\ Len(said) = 0 /\ said \in Seq(Utterances) /\ talk.phase = "over"
  <2>1. said = <<>> /\ talk.phase = "over"
    BY DEF TalkInit
  <2> QED BY <2>1, RowsStart, EmptySeq
<1>2. SpeechFits
  BY <1>1 DEF SpeechFits, IsSpeech, Speaking
<1> QED BY <1>1, <1>2 DEF Tells, PhaseFits, HistoryFits

LEMMA TellsStay == ASSUME Tells, [TalkNext]_talkVars PROVE Tells'
<1>1. CASE TalkNext
  <2>1. ASSUME NEW kind \in Speech, AskQuestion(kind) PROVE Tells'
    BY <2>1, AskTells
  <2>2. CASE ModelSpeaks
    BY <2>2, SpeaksTells
  <2>3. CASE ToolsAnswer
    BY <2>3, ToolsTells
  <2>4. CASE CallVendor \/ RunBreaks \/ RunCloses
    BY <2>4, SilenceTells
  <2> QED BY <1>1, <2>1, <2>2, <2>3, <2>4 DEF TalkNext
<1>2. CASE UNCHANGED talkVars
  BY <1>2 DEF talkVars, Tells, TalkTypes, RowsFit, SpeechFits, PhaseFits, HistoryFits, Speaking
<1> QED BY <1>1, <1>2

\* A request says what was said, all of it and in its order, with an answer to
\* every call and without the thoughts of other runs (build_request,
\* project_messages).
THEOREM RequestsFaithful == TalkSpec => []RequestFaithful
<1>1. TalkInit => Tells
  BY TellsStart
<1>2. Tells /\ [TalkNext]_talkVars => Tells'
  BY TellsStay
<1>3. Tells => RequestFaithful
  BY RequestKeeps DEF Tells
<1> QED BY <1>1, <1>2, <1>3, PTL DEF TalkSpec

=============================================================================
