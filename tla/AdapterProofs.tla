--------------------------- MODULE AdapterProofs ----------------------------
(***************************************************************************)
(* Proofs about ModelAdapters and Replay, for every set of adapters and    *)
(* answers of any length, cut short, broken off or cancelled anywhere: the *)
(* adapters implement ModelStream, a recording replays what was heard, and *)
(* the terminal event tells what the vendor has told.                      *)
(***************************************************************************)
EXTENDS Replay, SequenceTheorems, FiniteSetTheorems, WellFoundedInduction, TLAPS

-----------------------------------------------------------------------------
(* Events in their order *)

Ids(S) == {CallId(k) : k \in S}

NamedIn(line, type) == {e.id : e \in {x \in Range(line) : x.type = type}}

\* An event may come next.
Follows(line, e) ==
    /\ NamedIn(line, "model_call_completed") = {}
    /\ \/ e.type \in {"text_delta", "reasoning_delta"} /\ e.id = NoId
       \/ /\ e.type = "tool_call_started"
          /\ e.id \in Ids(Blocks) \ NamedIn(line, "tool_call_started")
       \/ /\ e.type \in {"tool_call_args_delta", "tool_call_completed"}
          /\ e.id \in NamedIn(line, "tool_call_started") \ NamedIn(line, "tool_call_completed")
       \/ e.type = "model_call_completed" /\ e.id = NoId

Ordered(line) == \A i \in 1 .. Len(line) : Follows(SubSeq(line, 1, i - 1), line[i])

\* What has been yielded and what waits to be.
Line == events \o out

LEMMA IdsApart ==
    /\ \A j, k : CallId(j) = CallId(k) => j = k
    /\ \A k : CallId(k) # NoId
<1>1. "call" # ""
  OBVIOUS
<1>2. ASSUME NEW j, NEW k, CallId(j) = CallId(k) PROVE j = k
  <2>1. <<"call", j>>[2] = <<"call", k>>[2]
    BY <1>2 DEF CallId
  <2> QED BY <2>1
<1>3. ASSUME NEW k, CallId(k) = NoId PROVE FALSE
  <2>1. <<"call", k>>[1] = <<"", 0>>[1]
    BY <1>3 DEF CallId, NoId
  <2> QED BY <1>1, <2>1
<1> QED BY <1>2, <1>3

LEMMA NamedAppended ==
    ASSUME NEW S, NEW line \in Seq(S), NEW e \in S, NEW type
    PROVE  NamedIn(Append(line, e), type)
              = NamedIn(line, type) \cup IF e.type = type THEN {e.id} ELSE {}
<1>1. Range(Append(line, e)) = Range(line) \cup {e}
  <2>1. PICK n \in Nat : n = Len(line)
    OBVIOUS
  <2>2. /\ DOMAIN line = 1 .. n /\ DOMAIN Append(line, e) = 1 .. n + 1
        /\ Append(line, e)[n + 1] = e
        /\ \A i \in 1 .. n : Append(line, e)[i] = line[i]
    BY <2>1
  <2>3. 1 .. n + 1 = 1 .. n \cup {n + 1}
    OBVIOUS
  <2> QED BY <2>2, <2>3 DEF Range
<1> QED BY <1>1 DEF NamedIn

LEMMA NamedNone == \A type : NamedIn(<<>>, type) = {}
<1>1. DOMAIN <<>> = {}
  OBVIOUS
<1> QED BY <1>1 DEF NamedIn, Range

\* An event that may come next keeps the order.
LEMMA OrderedAppended ==
    ASSUME NEW S, NEW line \in Seq(S), NEW e \in S, Ordered(line), Follows(line, e)
    PROVE  Ordered(Append(line, e))
<1>1. PICK n, g : n = Len(line) /\ g = Append(line, e)
  OBVIOUS
<1>2. /\ n \in Nat /\ Len(g) = n + 1 /\ g[n + 1] = e /\ g \in Seq(S)
      /\ \A i \in 1 .. n : g[i] = line[i]
  BY <1>1
<1>3. ASSUME NEW i \in 1 .. n + 1
      PROVE  SubSeq(g, 1, i - 1) = SubSeq(line, 1, i - 1)
  <2>1. i - 1 \in 0 .. n /\ \A k \in 1 .. i - 1 : k \in 1 .. n
    BY <1>2
  <2>2. \A k \in 1 .. i - 1 : g[k] = line[k]
    BY <1>2, <2>1
  <2>3. /\ SubSeq(g, 1, i - 1) = [k \in 1 .. i - 1 |-> g[k]]
        /\ SubSeq(line, 1, i - 1) = [k \in 1 .. i - 1 |-> line[k]]
    BY <1>2
  <2> QED BY <2>2, <2>3
<1>4. SubSeq(line, 1, n) = line
  BY <1>1
<1>5. ASSUME NEW i \in 1 .. n + 1
      PROVE  Follows(SubSeq(g, 1, i - 1), g[i])
  <2>1. CASE i = n + 1
    <3>1. i - 1 = n /\ g[i] = e
      BY <1>2, <2>1
    <3> QED BY <1>3, <1>4, <3>1
  <2>2. CASE i \in 1 .. n
    <3>1. Follows(SubSeq(line, 1, i - 1), line[i])
      BY <1>1, <2>2 DEF Ordered
    <3> QED BY <1>2, <1>3, <2>2, <3>1
  <2> QED BY <1>2, <2>1, <2>2
<1> QED BY <1>1, <1>2, <1>5 DEF Ordered

LEMMA OrderedNone == Ordered(<<>>)
<1>1. Len(<<>>) = 0
  OBVIOUS
<1> QED BY <1>1 DEF Ordered

\* The first of the events that wait may come next.
LEMMA NextFollows ==
    ASSUME NEW S, NEW s \in Seq(S), NEW t \in Seq(S), t # <<>>, Ordered(s \o t)
    PROVE  /\ Follows(s, Head(t))
           /\ Append(s, Head(t)) \o Tail(t) = s \o t
           /\ Append(s, Head(t)) \in Seq(S) /\ Tail(t) \in Seq(S) /\ Head(t) \in S
<1>1. PICK n \in Nat, m \in Nat : n = Len(s) /\ m = Len(t) /\ m >= 1
  OBVIOUS
<1>2. /\ Len(s \o t) = n + m /\ s \o t \in Seq(S)
      /\ \A k \in 1 .. n : (s \o t)[k] = s[k]
      /\ \A k \in n + 1 .. n + m : (s \o t)[k] = t[k - n]
  BY <1>1
<1>3. (s \o t)[n + 1] = Head(t)
  <2>1. n + 1 \in n + 1 .. n + m /\ n + 1 - n = 1
    BY <1>1
  <2> QED BY <1>2, <2>1
<1>4. SubSeq(s \o t, 1, n) = s
  <2>1. SubSeq(s \o t, 1, n) = [k \in 1 .. n |-> (s \o t)[k]]
    BY <1>2
  <2>2. s = [k \in 1 .. n |-> s[k]]
    BY <1>1
  <2> QED BY <1>2, <2>1, <2>2
<1>5. Follows(s, Head(t))
  <2>1. n + 1 \in 1 .. Len(s \o t) /\ (n + 1) - 1 = n
    BY <1>1, <1>2
  <2>2. Follows(SubSeq(s \o t, 1, (n + 1) - 1), (s \o t)[n + 1])
    BY <2>1 DEF Ordered
  <2> QED BY <1>3, <1>4, <2>1, <2>2
<1>6. /\ Head(t) \in S /\ Tail(t) \in Seq(S) /\ Append(s, Head(t)) \in Seq(S)
  OBVIOUS
<1>7. Append(s, Head(t)) \o Tail(t) = s \o t
  <2>1. PICK e, r : e = Head(t) /\ r = Tail(t)
    OBVIOUS
  <2>2. e \in S /\ r \in Seq(S) /\ Len(r) = m - 1 /\ \A k \in 1 .. m - 1 : r[k] = t[k + 1]
    BY <1>1, <1>6, <2>1
  <2>3. t[1] = e
    BY <2>1
  <2>4. /\ Len(Append(s, e)) = n + 1 /\ Append(s, e) \in Seq(S)
        /\ Append(s, e)[n + 1] = e /\ \A k \in 1 .. n : Append(s, e)[k] = s[k]
    BY <1>1, <2>2
  <2>5. PICK p : p = Append(s, e) \o r
    OBVIOUS
  <2>6. /\ Len(p) = n + m /\ p \in Seq(S)
        /\ \A k \in 1 .. n + 1 : p[k] = Append(s, e)[k]
        /\ \A k \in n + 2 .. n + m : p[k] = r[k - (n + 1)]
    BY <1>1, <2>2, <2>4, <2>5
  <2>7. ASSUME NEW k \in 1 .. n + m PROVE p[k] = (s \o t)[k]
    <3>1. CASE k \in 1 .. n
      BY <1>2, <2>4, <2>6, <3>1
    <3>2. CASE k = n + 1
      BY <1>2, <1>3, <2>1, <2>4, <2>6, <3>2
    <3>3. CASE k \in n + 2 .. n + m
      <4>1. k - (n + 1) \in 1 .. m - 1 /\ (k - (n + 1)) + 1 = k - n /\ k \in n + 1 .. n + m
        BY <1>1, <3>3
      <4> QED BY <1>2, <2>2, <2>6, <3>3, <4>1
    <3> QED BY <1>1, <3>1, <3>2, <3>3
  <2>8. p = s \o t
    BY <1>2, <2>6, <2>7, SeqEqual
  <2> QED BY <2>1, <2>5, <2>8
<1> QED BY <1>5, <1>6, <1>7

-----------------------------------------------------------------------------
(* Numbers in ascending order *)

Rises(order, S, n) ==
    /\ order \in [1 .. n -> S]
    /\ \A i, j \in 1 .. n : i < j => order[i] < order[j]

CanRise(S) == IsFiniteSet(S) /\ \E order : Rises(order, S, Cardinality(S))

LEMMA RisesFurther ==
    ASSUME NEW m \in Nat, NEW S \in SUBSET (0 .. m), NEW n \in Nat, NEW order,
           Rises(order, S \ {m}, n), m \in S
    PROVE  \E further : Rises(further, S, n + 1)
<1> DEFINE further == [i \in 1 .. n + 1 |-> IF i = n + 1 THEN m ELSE order[i]]
<1>1. \A i \in 1 .. n : order[i] \in S /\ order[i] < m
  <2>1. \A k \in S \ {m} : k \in S /\ k < m
    OBVIOUS
  <2> QED BY <2>1 DEF Rises
<1>2. further \in [1 .. n + 1 -> S]
  BY <1>1
<1>3. ASSUME NEW i \in 1 .. n + 1, NEW j \in 1 .. n + 1, i < j
      PROVE  further[i] < further[j]
  <2>1. i \in 1 .. n /\ further[i] = order[i]
    BY <1>3
  <2>2. CASE j = n + 1
    BY <1>1, <2>1, <2>2
  <2>3. CASE j \in 1 .. n
    <3>1. further[j] = order[j]
      BY <2>3
    <3> HIDE DEF further
    <3> QED BY <1>3, <2>1, <2>3, <3>1 DEF Rises
  <2> QED BY <2>2, <2>3
<1> HIDE DEF further
<1> QED BY <1>2, <1>3 DEF Rises

LEMMA AllRise == \A m \in Nat : \A S \in SUBSET (0 .. m - 1) : CanRise(S)
<1> DEFINE Bad == {m \in Nat : \E S \in SUBSET (0 .. m - 1) : ~CanRise(S)}
<1>1. ASSUME Bad # {} PROVE FALSE
  <2>1. PICK m \in Bad : \A k \in Bad : ~(<<k, m>> \in OpToRel(<, Nat))
    <3>1. Bad \subseteq Nat
      OBVIOUS
    <3> HIDE DEF Bad
    <3> QED BY <1>1, <3>1, NatLessThanWellFounded, WFMin
  <2>2. PICK S \in SUBSET (0 .. m - 1) : ~CanRise(S)
    BY <2>1
  <2>3. m \in Nat
    BY <2>1
  <2>4. CASE m = 0
    <3>1. 0 .. 0 - 1 = {} /\ S = {}
      BY <2>2, <2>4
    <3>2. IsFiniteSet(S) /\ Cardinality(S) = 0
      BY <3>1, FS_EmptySet
    <3>3. Rises([i \in 1 .. 0 |-> 0], S, 0)
      BY <3>1 DEF Rises
    <3> QED BY <2>2, <3>2, <3>3 DEF CanRise
  <2>5. CASE m # 0
    <3>1. PICK l \in Nat : m = l + 1
      <4>1. m - 1 \in Nat /\ m = (m - 1) + 1
        BY <2>3, <2>5
      <4> QED BY <4>1
    <3>2. l \notin Bad
      <4>1. <<l, m>> \in Nat \X Nat /\ <<l, m>>[1] < <<l, m>>[2]
        BY <2>3, <3>1
      <4>2. <<l, m>> \in OpToRel(<, Nat)
        BY <4>1 DEF OpToRel
      <4> HIDE DEF Bad
      <4> QED BY <2>1, <4>2
    <3>3. CanRise(S \ {l})
      <4>1. S \ {l} \in SUBSET (0 .. l - 1)
        <5>1. \A k \in 0 .. m - 1 : k # l => k \in 0 .. l - 1
          BY <3>1
        <5> QED BY <2>2, <5>1
      <4> QED BY <3>2, <4>1
    <3>4. CASE l \notin S
      <4>1. S \ {l} = S
        BY <3>4
      <4> QED BY <2>2, <3>3, <4>1
    <3>5. CASE l \in S
      <4>1. PICK T : T = S \ {l}
        OBVIOUS
      <4>2. IsFiniteSet(T) /\ S = T \cup {l} /\ l \notin T
        BY <3>3, <3>5, <4>1 DEF CanRise
      <4>3. IsFiniteSet(S) /\ Cardinality(S) = Cardinality(T) + 1
        BY <4>2, FS_AddElement
      <4>4. Cardinality(T) \in Nat
        BY <4>2, FS_CardinalityType
      <4>5. PICK order : Rises(order, S \ {l}, Cardinality(T))
        BY <3>3, <4>1 DEF CanRise
      <4>6. S \in SUBSET (0 .. l)
        BY <2>2, <3>1
      <4>7. \E further : Rises(further, S, Cardinality(T) + 1)
        BY <3>5, <4>4, <4>5, <4>6, RisesFurther
      <4> QED BY <2>2, <4>3, <4>7 DEF CanRise
    <3> QED BY <3>4, <3>5
  <2> QED BY <2>4, <2>5
<1> QED BY <1>1

\* Ascending lists the numbers of a set, each once.
LEMMA AscendingIs ==
    ASSUME NEW m \in Nat, NEW S \in SUBSET (0 .. m)
    PROVE  /\ Ascending(S) \in Seq(S) /\ Len(Ascending(S)) \in Nat
           /\ DOMAIN Ascending(S) = 1 .. Len(Ascending(S))
           /\ \A i \in 1 .. Len(Ascending(S)) : Ascending(S)[i] \in S
           /\ \A i, j \in 1 .. Len(Ascending(S)) : i < j => Ascending(S)[i] < Ascending(S)[j]
           /\ \A i, j \in 1 .. Len(Ascending(S)) :
                 Ascending(S)[i] = Ascending(S)[j] => i = j
<1>1. CanRise(S)
  <2>1. S \in SUBSET (0 .. (m + 1) - 1) /\ m + 1 \in Nat
    OBVIOUS
  <2> QED BY <2>1, AllRise
<1>2. PICK n : n = Cardinality(S)
  OBVIOUS
<1>3. n \in Nat
  BY <1>1, <1>2, FS_CardinalityType DEF CanRise
<1>4. \E order \in [1 .. n -> S] : \A i, j \in 1 .. n : i < j => order[i] < order[j]
  BY <1>1, <1>2 DEF CanRise, Rises
<1>5. /\ Ascending(S) \in [1 .. n -> S]
      /\ \A i, j \in 1 .. n : i < j => Ascending(S)[i] < Ascending(S)[j]
  BY <1>2, <1>4 DEF Ascending
<1>6. PICK s : s = Ascending(S)
  OBVIOUS
<1>7. s \in Seq(S) /\ Len(s) = n /\ DOMAIN s = 1 .. n
  BY <1>3, <1>5, <1>6
<1>8. \A i \in 1 .. n : s[i] \in S /\ s[i] \in Int
  <2>1. S \subseteq Int
    OBVIOUS
  <2> QED BY <1>5, <1>6, <2>1
<1>9. ASSUME NEW i \in 1 .. n, NEW j \in 1 .. n, s[i] = s[j] PROVE i = j
  <2>1. ~(i < j) /\ ~(j < i)
    BY <1>3, <1>5, <1>6, <1>8, <1>9
  <2> QED BY <1>3, <2>1
<1> QED BY <1>3, <1>5, <1>6, <1>7, <1>8, <1>9

-----------------------------------------------------------------------------
(* The inductive invariant of an adapter *)

Part == Nat \X Nat

BlockIds == {NoId} \cup Ids(Blocks)

VendorBlock == [kind : Kinds, parts : 0 .. Whole, closed : BOOLEAN]

Vendors == [started : BOOLEAN, blocks : Seq(VendorBlock), finished : BOOLEAN, usage : BOOLEAN]

Block == [kind : Kinds, id : BlockIds, parts : Seq(Part)]

Accumulators ==
    [input : BOOLEAN, output : BOOLEAN, stop : BOOLEAN,
     blocks : UNION {[D -> Block] : D \in SUBSET (0 .. MaxBlocks)},
     started : SUBSET Blocks, items : SUBSET Blocks,
     final : {f \in Seq(VendorBlock) : Len(f) <= MaxBlocks}]

Deltas ==
    {d \in [type : {"text_delta", "reasoning_delta", "tool_call_started", "tool_call_args_delta",
                    "tool_call_completed"}, id : BlockIds, part : Part] :
        /\ d.type \in {"text_delta", "reasoning_delta"} => d.id = NoId
        /\ d.type \in {"tool_call_started", "tool_call_completed"} => d.part = NoPart}

Usages ==
    {u \in [state : {"complete", "partial", "unavailable"}, input : BOOLEAN, output : BOOLEAN] :
        u.state = "complete" => u.input}

Terminals ==
    [type : {"model_call_completed"}, id : {NoId}, part : {NoPart}, message : Seq(Block),
     usage : Usages, stop : {"interrupted", "vendor", "unknown"}]

Events == Deltas \cup Terminals

AdapterTypes ==
    /\ protocol \in Adapters
    /\ vendor \in Vendors /\ Current <= MaxBlocks
    /\ acc \in Accumulators
    /\ out \in Seq(Events) /\ events \in Seq(Events)
    /\ pc \in {"create", "reading", "returning", "broken", "told", "reraising"} \cup Over

\* The tool calls the vendor has begun, and those it has closed.
Begun == {k \in 1 .. Current : vendor.blocks[k].kind = "tool"}
Closed == {k \in Begun : vendor.blocks[k].closed}

\* The accumulator knows the tool calls that were begun, each under its id.
AccFits ==
    /\ Chat => Closed = {}
    /\ \A k \in DOMAIN acc.blocks : acc.blocks[k].id = IF k \in Begun THEN CallId(k) ELSE NoId
    /\ Anthropic => DOMAIN acc.blocks = 1 .. Current
    /\ Responses => acc.items = Begun /\ DOMAIN acc.blocks = {}
    /\ Chat => DOMAIN acc.blocks \ {0} = Begun /\ acc.started = Begun

\* What was said of the calls, and whether the terminal event was.
LineFits ==
    /\ Ordered(Line)
    /\ NamedIn(Line, "tool_call_started") = Ids(Begun)
    /\ Chat /\ pc \in {"create", "reading", "broken"} => NamedIn(Line, "tool_call_completed") = {}
    /\ ~Chat => NamedIn(Line, "tool_call_completed") = Ids(Closed)
    /\ pc \in {"create", "reading", "returning", "broken"} =>
          NamedIn(Line, "model_call_completed") = {}
    /\ pc \in {"told", "reraising", "returned"} => NamedIn(Line, "model_call_completed") # {}
    /\ pc \in {"create", "broken", "returned"} => out = <<>>

AdapterInv == AdapterTypes /\ AccFits /\ LineFits

-----------------------------------------------------------------------------
(* What the vendor sends *)

LEMMA OneProtocol ==
    ASSUME protocol \in Adapters
    PROVE  /\ Anthropic \/ Responses \/ Chat
           /\ ~(Anthropic /\ Responses) /\ ~(Anthropic /\ Chat) /\ ~(Responses /\ Chat)
  BY ProtocolAssumption DEF Anthropic, Responses, Chat

\* What a vendor's message does to its blocks.
LEMMA VendorMoves ==
    ASSUME AdapterTypes, Chat => Closed = {}, NEW raw \in Raw, Legal(raw), vendor' = Sent(raw)
    PROVE  /\ vendor' \in Vendors /\ Current' <= MaxBlocks /\ Current \in Nat
           /\ raw.type = "open" =>
                 /\ Current' = Current + 1 /\ Current < MaxBlocks /\ raw.kind \in Kinds
                 /\ Begun' = IF raw.kind = "tool" THEN Begun \cup {Current + 1} ELSE Begun
                 /\ Closed' = Closed
           /\ raw.type = "delta" =>
                 /\ Current' = Current /\ Current >= 1 /\ Begun' = Begun /\ Closed' = Closed
                 /\ raw.kind \in Kinds
                 /\ raw.kind = "tool" <=> Current \in Begun
                 /\ Current \notin Closed
           /\ raw.type = "close" =>
                 /\ ~Chat /\ Current' = Current /\ Current >= 1 /\ Begun' = Begun
                 /\ raw.kind \in Kinds
                 /\ raw.kind = "tool" => Current \in Begun \ Closed /\ Closed' = Closed \cup {Current}
                 /\ raw.kind # "tool" => Closed' = Closed
           /\ raw.type \in {"start", "finish", "usage"} =>
                 /\ Current' = Current /\ Begun' = Begun /\ Closed' = Closed /\ raw.kind = ""
<1>1. PICK s, n : s = vendor.blocks /\ n = Len(s)
  OBVIOUS
<1>2. s \in Seq(VendorBlock) /\ n \in Nat /\ n <= MaxBlocks /\ Current = n
  BY <1>1 DEF AdapterTypes, Vendors, Current
<1>3. MaxBlocks \in Nat /\ Whole \in Nat
  BY BlocksAssumption
<1>4. \A k \in 1 .. n : s[k] \in VendorBlock
  BY <1>1, <1>2
<1>5. /\ raw.type \in {"start", "open", "delta", "close", "finish", "usage"}
      /\ raw.kind \in Kinds \cup {""} /\ raw.n \in 0 .. Whole
  BY DEF Raw
<1>6. CASE raw.type = "open"
  <2>1. Current < MaxBlocks /\ raw.kind \in Kinds
    BY <1>5, <1>6 DEF Legal
  <2>2. PICK b : b = [kind |-> raw.kind, parts |-> raw.n, closed |-> FALSE]
    OBVIOUS
  <2>3. b \in VendorBlock /\ b.kind = raw.kind /\ ~b.closed
    BY <1>5, <2>1, <2>2 DEF VendorBlock
  <2>4. vendor' = [vendor EXCEPT !.blocks = Append(s, b)]
    BY <1>1, <1>6, <2>2 DEF Sent
  <2>5. /\ Append(s, b) \in Seq(VendorBlock) /\ Len(Append(s, b)) = n + 1
        /\ Append(s, b)[n + 1] = b /\ \A k \in 1 .. n : Append(s, b)[k] = s[k]
    BY <1>1, <1>2, <2>3
  <2>6. vendor' \in Vendors /\ vendor'.blocks = Append(s, b)
    BY <2>4, <2>5 DEF AdapterTypes, Vendors
  <2>7. Current' = n + 1
    BY <2>5, <2>6 DEF Current
  <2>8. 1 .. n + 1 = 1 .. n \cup {n + 1} /\ n + 1 \notin 1 .. n
    BY <1>2
  <2>9. Begun' = IF raw.kind = "tool" THEN Begun \cup {n + 1} ELSE Begun
    <3>1. Begun' = {k \in 1 .. n + 1 : Append(s, b)[k].kind = "tool"}
      BY <2>6, <2>7 DEF Begun
    <3>2. Begun = {k \in 1 .. n : s[k].kind = "tool"}
      BY <1>1, <1>2 DEF Begun
    <3> QED BY <2>3, <2>5, <2>8, <3>1, <3>2
  <2>10. Closed' = Closed
    <3>1. Closed' = {k \in Begun' : Append(s, b)[k].closed}
      BY <2>6 DEF Closed
    <3>2. Closed = {k \in Begun : s[k].closed} /\ Begun \subseteq 1 .. n
      BY <1>1, <1>2 DEF Closed, Begun
    <3> QED BY <2>3, <2>5, <2>9, <3>1, <3>2
  <2> QED BY <1>2, <1>3, <1>6, <2>1, <2>6, <2>7, <2>9, <2>10
<1>7. CASE raw.type \in {"delta", "close"}
  <2>1. n >= 1 /\ Latest = s[n]
    <3>1. Latest.closed => FALSE
      BY <1>7 DEF Legal
    <3>2. n # 0
      BY <1>2, <3>1 DEF Latest, NoBlock
    <3> QED BY <1>1, <1>2, <3>2 DEF Latest
  <2>2. PICK b : b = IF raw.type = "delta" THEN [s[n] EXCEPT !.parts = raw.n]
                     ELSE [s[n] EXCEPT !.closed = TRUE]
    OBVIOUS
  <2>3. s[n] \in VendorBlock
    BY <1>2, <1>4, <2>1
  <2>4. /\ b \in VendorBlock /\ b.kind = s[n].kind
        /\ raw.type = "delta" => b.closed = s[n].closed
        /\ raw.type = "close" => b.closed
    BY <1>5, <1>7, <2>2, <2>3 DEF VendorBlock
  <2>5. vendor' = [vendor EXCEPT !.blocks = [s EXCEPT ![n] = b]]
    <3>1. CASE raw.type = "delta"
      <4>1. vendor' = [vendor EXCEPT !.blocks[n].parts = raw.n]
        BY <1>2, <3>1 DEF Sent
      <4>2. b = [s[n] EXCEPT !.parts = raw.n]
        BY <2>2, <3>1
      <4> QED BY <1>1, <4>1, <4>2
    <3>2. CASE raw.type = "close"
      <4>1. vendor' = [vendor EXCEPT !.blocks[n].closed = TRUE]
        BY <1>2, <3>2 DEF Sent
      <4>2. b = [s[n] EXCEPT !.closed = TRUE]
        BY <2>2, <3>2
      <4> QED BY <1>1, <4>1, <4>2
    <3> QED BY <1>7, <3>1, <3>2
  <2>6. PICK t : t = [s EXCEPT ![n] = b]
    OBVIOUS
  <2>7. /\ t \in Seq(VendorBlock) /\ Len(t) = n /\ t[n] = b
        /\ \A k \in 1 .. n : k # n => t[k] = s[k]
    BY <1>1, <1>2, <2>1, <2>4, <2>6
  <2>8. vendor' \in Vendors /\ vendor'.blocks = t
    BY <2>5, <2>6, <2>7 DEF AdapterTypes, Vendors
  <2>9. Current' = n
    BY <2>7, <2>8 DEF Current
  <2>10. Begun' = {k \in 1 .. n : t[k].kind = "tool"} /\ Begun = {k \in 1 .. n : s[k].kind = "tool"}
    BY <1>1, <1>2, <2>8, <2>9 DEF Begun
  <2>11. Begun' = Begun
    BY <2>4, <2>7, <2>10
  <2>12. Closed' = {k \in Begun : t[k].closed} /\ Closed = {k \in Begun : s[k].closed}
    BY <1>1, <2>8, <2>11 DEF Closed
  <2>13. /\ raw.kind = s[n].kind /\ raw.kind \in Kinds /\ ~s[n].closed
         /\ raw.type = "close" => ~Chat
    BY <1>7, <2>1, <2>3 DEF Legal, VendorBlock
  <2>14. raw.kind = "tool" <=> n \in Begun
    BY <1>2, <2>1, <2>10, <2>13
  <2>15. CASE raw.type = "delta"
    <3>1. Closed' = Closed
      BY <2>4, <2>7, <2>10, <2>12, <2>15
    <3> QED BY <1>2, <2>1, <2>8, <2>9, <2>11, <2>12, <2>13, <2>14, <2>15, <3>1
  <2>16. CASE raw.type = "close"
    <3>1. Closed' = IF n \in Begun THEN Closed \cup {n} ELSE Closed
      BY <2>4, <2>7, <2>10, <2>12, <2>16
    <3> QED BY <1>2, <2>1, <2>8, <2>9, <2>11, <2>12, <2>13, <2>14, <2>16, <3>1
  <2> QED BY <1>7, <2>15, <2>16
<1>8. CASE raw.type \in {"start", "finish", "usage"}
  <2>1. vendor' \in Vendors /\ vendor'.blocks = s /\ raw.kind = ""
    BY <1>1, <1>8 DEF Sent, Legal, AdapterTypes, Vendors
  <2>2. Current' = n
    BY <1>1, <2>1 DEF Current
  <2>3. Begun' = Begun
    BY <1>1, <1>2, <2>1, <2>2 DEF Begun
  <2>4. Closed' = Closed
    BY <1>1, <2>1, <2>3 DEF Closed
  <2> QED BY <1>2, <1>8, <2>1, <2>2, <2>3, <2>4
<1> QED BY <1>5, <1>6, <1>7, <1>8

-----------------------------------------------------------------------------
(* What the accumulators make of it *)

\* At most one event, and it is about what the vendor has just sent.
Says(o) ==
    \/ o = <<>> /\ Begun' = Begun /\ Closed' = Closed
    \/ \E d \in Deltas :
        /\ o = <<d>>
        /\ \/ /\ d.type \in {"text_delta", "reasoning_delta"}
              /\ Begun' = Begun /\ Closed' = Closed
           \/ /\ d.type = "tool_call_started" /\ d.id = CallId(Current + 1)
              /\ Current + 1 \in Blocks \ Begun
              /\ Begun' = Begun \cup {Current + 1} /\ Closed' = Closed
           \/ /\ d.type = "tool_call_args_delta" /\ d.id = CallId(Current)
              /\ Current \in Begun \ Closed
              /\ Begun' = Begun /\ Closed' = Closed
           \/ /\ d.type = "tool_call_completed" /\ d.id = CallId(Current)
              /\ Current \in Begun \ Closed
              /\ Begun' = Begun /\ Closed' = Closed \cup {Current}

\* What a delta of the current call makes of its block, and of the accumulator.
MorePart(raw) == [acc.blocks[Current] EXCEPT !.parts = Append(@, <<Current, raw.n>>)]

AddsPart(raw, b) ==
    /\ OnToolCallDelta(raw).acc = [Put(Current, b) EXCEPT !.started = @ \cup {Current}]
    /\ Current \in acc.started =>
          OnToolCallDelta(raw).out
             = <<>> \o <<Delta("tool_call_args_delta", b.id, <<Current, raw.n>>)>>

LEMMA ToolDeltaIs == ASSUME NEW raw, raw.type = "delta" PROVE AddsPart(raw, MorePart(raw))
<1>1. raw.type # "open"
  OBVIOUS
<1> QED BY <1>1 DEF OnToolCallDelta, AddsPart, MorePart

LEMMA DeltaIs ==
    ASSUME NEW k \in Blocks, NEW n \in Nat
    PROVE  /\ \A type \in {"text_delta", "reasoning_delta"} :
                 Said(type, k, n) \in Deltas /\ Said(type, k, n).type = type
           /\ \A type \in {"tool_call_started", "tool_call_completed"} :
                 /\ Delta(type, CallId(k), NoPart) \in Deltas
                 /\ Delta(type, CallId(k), NoPart).type = type
                 /\ Delta(type, CallId(k), NoPart).id = CallId(k)
           /\ Delta("tool_call_args_delta", CallId(k), <<k, n>>) \in Deltas
           /\ Delta("tool_call_args_delta", CallId(k), <<k, n>>).type = "tool_call_args_delta"
           /\ Delta("tool_call_args_delta", CallId(k), <<k, n>>).id = CallId(k)
<1>1. CallId(k) \in BlockIds /\ NoId \in BlockIds
  BY DEF BlockIds, Ids
<1>2. k \in Nat /\ <<k, n>> \in Part /\ NoPart \in Part
  BY BlocksAssumption DEF Blocks, Part, NoPart
<1>3. \A type \in {"text_delta", "reasoning_delta"} :
         Said(type, k, n) \in Deltas /\ Said(type, k, n).type = type
  BY <1>1, <1>2 DEF Said, Delta, Deltas
<1>4. \A type \in {"tool_call_started", "tool_call_completed"} :
         /\ Delta(type, CallId(k), NoPart) \in Deltas
         /\ Delta(type, CallId(k), NoPart).type = type
         /\ Delta(type, CallId(k), NoPart).id = CallId(k)
  BY <1>1, <1>2 DEF Delta, Deltas
<1>5. /\ Delta("tool_call_args_delta", CallId(k), <<k, n>>) \in Deltas
      /\ Delta("tool_call_args_delta", CallId(k), <<k, n>>).type = "tool_call_args_delta"
      /\ Delta("tool_call_args_delta", CallId(k), <<k, n>>).id = CallId(k)
  BY <1>1, <1>2 DEF Delta, Deltas
<1> QED BY <1>3, <1>4, <1>5

LEMMA PutIs ==
    ASSUME acc \in Accumulators, NEW k \in 0 .. MaxBlocks, NEW b \in Block, NEW a, a = Put(k, b)
    PROVE  /\ a \in Accumulators
           /\ a.started = acc.started /\ a.items = acc.items /\ a.final = acc.final
           /\ DOMAIN a.blocks = DOMAIN acc.blocks \cup {k} /\ a.blocks[k] = b
           /\ \A j \in DOMAIN acc.blocks : j # k => a.blocks[j] = acc.blocks[j]
<1>1. PICK D \in SUBSET (0 .. MaxBlocks) : acc.blocks \in [D -> Block]
  BY DEF Accumulators
<1>2. PICK g, E : /\ E = D \cup {k}
                  /\ g = [j \in E |-> IF j = k THEN b ELSE acc.blocks[j]]
  OBVIOUS
<1>3. E \in SUBSET (0 .. MaxBlocks) /\ g \in [E -> Block]
  BY <1>1, <1>2
<1>4. a = [acc EXCEPT !.blocks = g]
  BY <1>1, <1>2 DEF Put
<1>5. g \in UNION {[F -> Block] : F \in SUBSET (0 .. MaxBlocks)}
  BY <1>3
<1>6. a \in Accumulators /\ a.blocks = g
  BY <1>4, <1>5 DEF Accumulators
<1>7. a.started = acc.started /\ a.items = acc.items /\ a.final = acc.final
  BY <1>4 DEF Accumulators
<1> QED BY <1>1, <1>2, <1>3, <1>6, <1>7

\* The numbers of the blocks.
LEMMA Numbers ==
    ASSUME AdapterTypes
    PROVE  /\ Current \in 0 .. MaxBlocks /\ MaxBlocks \in Nat
           /\ Begun \subseteq Blocks /\ Closed \subseteq Begun
           /\ \A k \in Begun : k \in 1 .. Current
           /\ DOMAIN acc.blocks \subseteq 0 .. MaxBlocks
           /\ \A k \in DOMAIN acc.blocks : acc.blocks[k] \in Block
<1>1. Current \in Nat /\ Current <= MaxBlocks /\ MaxBlocks \in Nat
  BY BlocksAssumption DEF AdapterTypes, Vendors, Current
<1>2. PICK D \in SUBSET (0 .. MaxBlocks) : acc.blocks \in [D -> Block]
  BY DEF AdapterTypes, Accumulators
<1>3. Begun \subseteq 1 .. Current /\ Closed \subseteq Begun
  BY DEF Begun, Closed
<1>4. Current \in 0 .. MaxBlocks /\ 1 .. Current \subseteq Blocks
  BY <1>1 DEF Blocks
<1>5. /\ DOMAIN acc.blocks \subseteq 0 .. MaxBlocks
      /\ \A k \in DOMAIN acc.blocks : acc.blocks[k] \in Block
  <2>1. PICK g : g = acc.blocks
    OBVIOUS
  <2>2. DOMAIN g = D /\ \A k \in D : g[k] \in Block
    BY <1>2, <2>1
  <2> QED BY <2>1, <2>2
<1> QED BY <1>1, <1>3, <1>4, <1>5

\* A block grows by one part of the current block of the vendor.
LEMMA Grows ==
    ASSUME AdapterTypes, NEW k \in DOMAIN acc.blocks, NEW n \in Nat,
           NEW b, b = [acc.blocks[k] EXCEPT !.parts = Append(@, <<Current, n>>)]
    PROVE  b \in Block /\ b.id = acc.blocks[k].id
<1>1. acc.blocks[k] \in Block /\ <<Current, n>> \in Part
  BY Numbers DEF Part
<1>2. PICK c, q, p : c = acc.blocks[k] /\ q = c.parts /\ p = <<Current, n>>
  OBVIOUS
<1>3. c \in Block /\ q \in Seq(Part) /\ Append(q, p) \in Seq(Part)
  <2>1. c \in Block /\ q \in Seq(Part) /\ p \in Part
    BY <1>1, <1>2 DEF Block
  <2> QED BY <2>1, AppendProperties
<1>4. b = [c EXCEPT !.parts = Append(q, p)]
  BY <1>2
<1>5. b \in Block /\ b.id = c.id
  BY <1>3, <1>4 DEF Block
<1> QED BY <1>2, <1>5

LEMMA AnthropicHandles ==
    ASSUME AdapterTypes, AccFits, Anthropic, NEW raw \in Raw, Legal(raw), vendor' = Sent(raw),
           UNCHANGED protocol, NEW h, h = HandleAnthropic(raw), acc' = h.acc
    PROVE  acc' \in Accumulators /\ AccFits' /\ Says(h.out)
<1>1. /\ ~Responses /\ ~Chat /\ ~Responses' /\ ~Chat' /\ DOMAIN acc.blocks = 1 .. Current
      /\ acc \in Accumulators
      /\ \A k \in DOMAIN acc.blocks : acc.blocks[k].id = IF k \in Begun THEN CallId(k) ELSE NoId
  <2>1. UNCHANGED <<Responses, Chat>>
    BY DEF Responses, Chat
  <2> QED BY <2>1, OneProtocol DEF AdapterTypes, AccFits
<1>2. PICK c : c = Current
  OBVIOUS
<1>3. c \in 0 .. MaxBlocks /\ MaxBlocks \in Nat /\ Begun \subseteq 1 .. c /\ Closed \subseteq Begun
  BY <1>2, Numbers
<1>4. raw.kind \in Kinds \cup {""} /\ raw.n \in Nat
  <2>1. raw.kind \in Kinds \cup {""}
    BY DEF Raw
  <2>2. raw.n \in 0 .. Whole
    BY DEF Raw
  <2>3. raw.n \in Nat
    BY <2>2, BlocksAssumption
  <2> QED BY <2>1, <2>3
<1>5. CASE raw.type = "open"
  <2>1. /\ Current' = c + 1 /\ c < MaxBlocks /\ raw.kind \in Kinds
        /\ Begun' = IF raw.kind = "tool" THEN Begun \cup {c + 1} ELSE Begun
        /\ Closed' = Closed
    BY <1>1, <1>2, <1>5, VendorMoves
  <2>2. c + 1 \in Blocks /\ c + 1 \notin Begun /\ c + 1 \in 0 .. MaxBlocks /\ c + 1 \notin 1 .. c
    BY <1>3, <2>1 DEF Blocks
  <2>3. PICK b : b = [kind |-> raw.kind, id |-> IF raw.kind = "tool" THEN CallId(c + 1) ELSE NoId,
                      parts |-> IF raw.n = 1 THEN <<<<c + 1, 1>>>> ELSE <<>>]
    OBVIOUS
  <2>4. b \in Block /\ b.id = IF raw.kind = "tool" THEN CallId(c + 1) ELSE NoId
    <3>1. b.id \in BlockIds
      BY <2>2, <2>3 DEF BlockIds, Ids
    <3>2. <<c + 1, 1>> \in Part
      BY <1>3 DEF Part
    <3>3. <<>> \in Seq(Part) /\ <<<<c + 1, 1>>>> \in Seq(Part)
      BY <3>2
    <3> QED BY <2>1, <2>3, <3>1, <3>3 DEF Block
  <2>5. /\ h.acc = Put(c + 1, b)
        /\ h.out = IF raw.kind = "tool" THEN <<Delta("tool_call_started", CallId(c + 1), NoPart)>>
                   ELSE <<>>
    <3>1. h = OnBlockStart(raw)
      BY <1>5 DEF HandleAnthropic
    <3>2. b = [NewBlock(raw.kind) EXCEPT !.id = IF raw.kind = "tool" THEN CallId(c + 1) ELSE NoId,
                                         !.parts = IF raw.n = 1 THEN <<<<c + 1, 1>>>> ELSE <<>>]
      <4>1. PICK i, p : /\ i = IF raw.kind = "tool" THEN CallId(c + 1) ELSE NoId
                        /\ p = IF raw.n = 1 THEN <<<<c + 1, 1>>>> ELSE <<>>
        OBVIOUS
      <4>2. b = [kind |-> raw.kind, id |-> i, parts |-> p]
        BY <2>3, <4>1
      <4>3. NewBlock(raw.kind) = [kind |-> raw.kind, id |-> NoId, parts |-> <<>>]
        BY DEF NewBlock
      <4>4. PICK e, f : e = NewBlock(raw.kind) /\ f = [e EXCEPT !.id = i]
        OBVIOUS
      <4>5. f = [kind |-> raw.kind, id |-> i, parts |-> <<>>]
        BY <4>3, <4>4
      <4>6. b = [f EXCEPT !.parts = p]
        BY <4>2, <4>5
      <4>7. b = [NewBlock(raw.kind) EXCEPT !.id = i, !.parts = p]
        BY <4>4, <4>6
      <4> QED BY <4>1, <4>7
    <3> QED BY <1>2, <3>1, <3>2 DEF OnBlockStart
  <2>6. /\ acc' \in Accumulators
        /\ DOMAIN acc'.blocks = DOMAIN acc.blocks \cup {c + 1} /\ acc'.blocks[c + 1] = b
        /\ \A j \in DOMAIN acc.blocks : j # c + 1 => acc'.blocks[j] = acc.blocks[j]
    BY <1>1, <2>2, <2>4, <2>5, PutIs
  <2>7. AccFits'
    <3>1. DOMAIN acc'.blocks = 1 .. Current'
      BY <1>1, <1>2, <1>3, <2>1, <2>6
    <3>2. ASSUME NEW k \in DOMAIN acc'.blocks
          PROVE  acc'.blocks[k].id = IF k \in Begun' THEN CallId(k) ELSE NoId
      <4>1. CASE k = c + 1
        BY <2>1, <2>2, <2>4, <2>6, <4>1
      <4>2. CASE k \in DOMAIN acc.blocks
        <5>1. k # c + 1
          BY <1>1, <1>2, <2>2, <4>2
        <5> QED BY <1>1, <2>1, <2>6, <4>2, <5>1
      <4> QED BY <2>6, <4>1, <4>2
    <3> QED BY <1>1, <3>1, <3>2 DEF AccFits
  <2>8. Says(h.out)
    BY <1>2, <2>1, <2>2, <2>5, DeltaIs DEF Says
  <2> QED BY <2>6, <2>7, <2>8
<1>6. CASE raw.type = "delta"
  <2>1. /\ Current' = c /\ c >= 1 /\ Begun' = Begun /\ Closed' = Closed /\ raw.kind \in Kinds
        /\ (raw.kind = "tool" <=> c \in Begun) /\ c \notin Closed
    BY <1>1, <1>2, <1>6, VendorMoves
  <2>2. c \in DOMAIN acc.blocks /\ c \in Blocks
    BY <1>1, <1>2, <1>3, <2>1 DEF Blocks
  <2>3. PICK b : b = [acc.blocks[c] EXCEPT !.parts = Append(@, <<Current, raw.n>>)]
    OBVIOUS
  <2>4. b \in Block /\ b.id = acc.blocks[c].id
    BY <1>4, <2>2, <2>3, Grows
  <2>5. /\ h.acc = Put(c, b)
        /\ h.out = CASE raw.kind = "text" -> <<Said("text_delta", c, raw.n)>>
                     [] raw.kind = "tool" ->
                           <<Delta("tool_call_args_delta", acc.blocks[c].id, <<c, raw.n>>)>>
                     [] raw.kind = "reasoning" ->
                           IF raw.n < Whole THEN <<Said("reasoning_delta", c, raw.n)>> ELSE <<>>
    BY <1>2, <1>6, <2>3 DEF HandleAnthropic, OnBlockDelta, Grown
  <2>6. /\ acc' \in Accumulators
        /\ DOMAIN acc'.blocks = DOMAIN acc.blocks /\ acc'.blocks[c] = b
        /\ \A j \in DOMAIN acc.blocks : j # c => acc'.blocks[j] = acc.blocks[j]
    <3>1. c \in 0 .. MaxBlocks
      BY <1>3
    <3>2. /\ acc' \in Accumulators
          /\ DOMAIN acc'.blocks = DOMAIN acc.blocks \cup {c} /\ acc'.blocks[c] = b
          /\ \A j \in DOMAIN acc.blocks : j # c => acc'.blocks[j] = acc.blocks[j]
      BY <1>1, <2>4, <2>5, <3>1, PutIs
    <3> QED BY <2>2, <3>2
  <2>7. AccFits'
    <3>1. \A k \in DOMAIN acc'.blocks : acc'.blocks[k].id = IF k \in Begun' THEN CallId(k) ELSE NoId
      BY <1>1, <2>1, <2>4, <2>6
    <3> QED BY <1>1, <1>2, <2>1, <2>6, <3>1 DEF AccFits
  <2>8. Says(h.out)
    <3>1. CASE raw.kind = "text"
      BY <1>4, <2>1, <2>2, <2>5, <3>1, DeltaIs DEF Says
    <3>2. CASE raw.kind = "tool"
      <4>1. acc.blocks[c].id = CallId(c)
        BY <1>1, <2>1, <2>2, <3>2
      <4> QED BY <1>2, <1>4, <2>1, <2>2, <2>5, <3>2, <4>1, DeltaIs DEF Says
    <3>3. CASE raw.kind = "reasoning"
      BY <1>4, <2>1, <2>2, <2>5, <3>3, DeltaIs DEF Says
    <3> QED BY <2>1, <3>1, <3>2, <3>3 DEF Kinds
  <2> QED BY <2>6, <2>7, <2>8
<1>7. CASE raw.type = "close"
  <2>1. /\ Current' = c /\ c >= 1 /\ Begun' = Begun /\ raw.kind \in Kinds
        /\ raw.kind = "tool" => c \in Begun \ Closed /\ Closed' = Closed \cup {c}
        /\ raw.kind # "tool" => Closed' = Closed
    BY <1>1, <1>2, <1>7, VendorMoves
  <2>2. c \in DOMAIN acc.blocks /\ c \in Blocks
    BY <1>1, <1>2, <1>3, <2>1 DEF Blocks
  <2>3. /\ h.acc = acc
        /\ h.out = IF raw.kind = "tool"
                   THEN <<Delta("tool_call_completed", acc.blocks[c].id, NoPart)>> ELSE <<>>
    BY <1>2, <1>7 DEF HandleAnthropic, OnBlockStop
  <2>4. AccFits'
    BY <1>1, <1>2, <2>1, <2>3 DEF AccFits
  <2>5. Says(h.out)
    <3>1. CASE raw.kind = "tool"
      <4>1. acc.blocks[c].id = CallId(c)
        BY <1>1, <2>1, <2>2, <3>1
      <4>2. PICK d : d = Delta("tool_call_completed", CallId(c), NoPart)
        OBVIOUS
      <4>3. d \in Deltas /\ d.type = "tool_call_completed" /\ d.id = CallId(c)
        BY <2>2, <4>2, DeltaIs
      <4>4. h.out = <<d>>
        BY <2>3, <3>1, <4>1, <4>2
      <4> QED BY <1>2, <2>1, <2>2, <3>1, <4>3, <4>4 DEF Says
    <3>2. CASE raw.kind # "tool"
      BY <2>1, <2>3, <3>2 DEF Says
    <3> QED BY <3>1, <3>2
  <2> QED BY <1>1, <2>3, <2>4, <2>5
<1>8. CASE raw.type \in {"start", "finish", "usage"}
  <2>1. Current' = c /\ Begun' = Begun /\ Closed' = Closed /\ raw.kind = ""
    BY <1>1, <1>2, <1>8, VendorMoves
  <2>2. raw.type # "usage"
    BY <1>1 DEF Legal
  <2>3. /\ h.out = <<>> /\ h.acc \in Accumulators /\ h.acc.blocks = acc.blocks
    BY <1>1, <1>8, <2>2 DEF HandleAnthropic, Quiet, Accumulators
  <2>4. AccFits'
    BY <1>1, <1>2, <2>1, <2>3 DEF AccFits
  <2> QED BY <2>1, <2>3, <2>4 DEF Says
<1>9. raw.type \in {"start", "open", "delta", "close", "finish", "usage"}
  BY DEF Raw
<1> QED BY <1>5, <1>6, <1>7, <1>8, <1>9

LEMMA ResponsesHandles ==
    ASSUME AdapterTypes, AccFits, Responses, NEW raw \in Raw, Legal(raw), vendor' = Sent(raw),
           UNCHANGED protocol, NEW h, h = HandleResponses(raw), acc' = h.acc
    PROVE  acc' \in Accumulators /\ AccFits' /\ Says(h.out)
<1>1. /\ ~Anthropic /\ ~Chat /\ ~Anthropic' /\ ~Chat' /\ DOMAIN acc.blocks = {}
      /\ acc \in Accumulators /\ acc.items = Begun
  <2>1. UNCHANGED <<Anthropic, Chat>>
    BY DEF Anthropic, Chat
  <2> QED BY <2>1, OneProtocol DEF AdapterTypes, AccFits
<1>2. PICK c : c = Current
  OBVIOUS
<1>3. c \in 0 .. MaxBlocks /\ MaxBlocks \in Nat /\ Begun \subseteq 1 .. c /\ Closed \subseteq Begun
  BY <1>2, Numbers
<1>4. raw.n \in Nat
  <2>1. raw.n \in 0 .. Whole
    BY DEF Raw
  <2> QED BY <2>1, BlocksAssumption
<1>5. ASSUME NEW a \in Accumulators, a.blocks = acc.blocks, acc' = a, a.items = Begun'
      PROVE  acc' \in Accumulators /\ AccFits'
  BY <1>1, <1>5 DEF AccFits
<1>6. CASE raw.type = "open"
  <2>1. /\ Current' = c + 1 /\ c < MaxBlocks
        /\ Begun' = IF raw.kind = "tool" THEN Begun \cup {c + 1} ELSE Begun
        /\ Closed' = Closed
    BY <1>1, <1>2, <1>6, VendorMoves
  <2>2. c + 1 \in Blocks /\ c + 1 \notin Begun
    BY <1>3, <2>1 DEF Blocks
  <2>3. CASE raw.kind = "tool"
    <3>1. PICK a : a = [acc EXCEPT !.items = @ \cup {c + 1}]
      OBVIOUS
    <3>2. /\ h.acc = a
          /\ h.out = <<Delta("tool_call_started", CallId(c + 1), NoPart)>>
      BY <1>2, <1>6, <2>3, <3>1 DEF HandleResponses
    <3>3. a \in Accumulators /\ a.blocks = acc.blocks /\ a.items = Begun'
      BY <1>1, <2>1, <2>2, <2>3, <3>1 DEF Accumulators
    <3>4. Says(h.out)
      BY <1>2, <2>1, <2>2, <2>3, <3>2, DeltaIs DEF Says
    <3> QED BY <1>5, <3>2, <3>3, <3>4
  <2>4. CASE raw.kind # "tool"
    <3>1. h.acc = acc /\ h.out = <<>>
      BY <1>6, <2>4 DEF HandleResponses, Quiet
    <3> QED BY <1>1, <1>5, <2>1, <2>4, <3>1 DEF Says
  <2> QED BY <2>3, <2>4
<1>7. CASE raw.type = "delta"
  <2>1. /\ Current' = c /\ c >= 1 /\ Begun' = Begun /\ Closed' = Closed /\ raw.kind \in Kinds
        /\ raw.kind = "tool" => c \in Begun \ Closed
    BY <1>1, <1>2, <1>7, VendorMoves
  <2>2. c \in Blocks
    BY <1>3, <2>1 DEF Blocks
  <2>3. /\ h.acc = acc
        /\ h.out = CASE raw.kind = "text" -> <<Said("text_delta", c, raw.n)>>
                     [] raw.kind = "reasoning" -> <<Said("reasoning_delta", c, raw.n)>>
                     [] raw.kind = "tool" ->
                           <<Delta("tool_call_args_delta", IdOfItem(c), <<c, raw.n>>)>>
    BY <1>2, <1>7 DEF HandleResponses
  <2>4. Says(h.out)
    <3>1. CASE raw.kind = "text"
      BY <1>4, <2>1, <2>2, <2>3, <3>1, DeltaIs DEF Says
    <3>2. CASE raw.kind = "tool"
      <4>1. IdOfItem(c) = CallId(c)
        BY <1>1, <2>1, <3>2 DEF IdOfItem
      <4> QED BY <1>2, <1>4, <2>1, <2>2, <2>3, <3>2, <4>1, DeltaIs DEF Says
    <3>3. CASE raw.kind = "reasoning"
      BY <1>4, <2>1, <2>2, <2>3, <3>3, DeltaIs DEF Says
    <3> QED BY <2>1, <3>1, <3>2, <3>3 DEF Kinds
  <2> QED BY <1>1, <1>5, <2>1, <2>3, <2>4
<1>8. CASE raw.type = "close"
  <2>1. /\ Current' = c /\ c >= 1 /\ Begun' = Begun
        /\ raw.kind = "tool" => c \in Begun \ Closed /\ Closed' = Closed \cup {c}
        /\ raw.kind # "tool" => Closed' = Closed
    BY <1>1, <1>2, <1>8, VendorMoves
  <2>2. c \in Blocks
    BY <1>3, <2>1 DEF Blocks
  <2>3. /\ h.acc = acc
        /\ h.out = IF raw.kind = "tool"
                   THEN <<Delta("tool_call_completed", CallId(c), NoPart)>> ELSE <<>>
    BY <1>2, <1>8 DEF HandleResponses, Quiet
  <2>4. Says(h.out)
    <3>1. CASE raw.kind = "tool"
      BY <1>2, <2>1, <2>2, <2>3, <3>1, DeltaIs DEF Says
    <3>2. CASE raw.kind # "tool"
      BY <2>1, <2>3, <3>2 DEF Says
    <3> QED BY <3>1, <3>2
  <2> QED BY <1>1, <1>5, <2>1, <2>3, <2>4
<1>9. CASE raw.type \in {"start", "finish", "usage"}
  <2>1. Begun' = Begun /\ Closed' = Closed
    BY <1>1, <1>2, <1>9, VendorMoves
  <2>2. /\ h.out = <<>> /\ h.acc \in Accumulators /\ h.acc.blocks = acc.blocks
        /\ h.acc.items = acc.items
    <3>1. vendor.blocks \in {f \in Seq(VendorBlock) : Len(f) <= MaxBlocks}
      BY DEF AdapterTypes, Vendors, Current
    <3> QED BY <1>1, <1>9, <3>1 DEF HandleResponses, Quiet, Accumulators
  <2> QED BY <1>1, <1>5, <2>1, <2>2 DEF Says
<1>10. raw.type \in {"start", "open", "delta", "close", "finish", "usage"}
  BY DEF Raw
<1> QED BY <1>6, <1>7, <1>8, <1>9, <1>10

LEMMA ChatHandles ==
    ASSUME AdapterTypes, AccFits, Chat, NEW raw \in Raw, Legal(raw), vendor' = Sent(raw),
           UNCHANGED protocol, NEW h, h = HandleChat(raw), acc' = h.acc
    PROVE  acc' \in Accumulators /\ AccFits' /\ Says(h.out)
<1>1. /\ ~Anthropic /\ ~Responses /\ ~Anthropic' /\ ~Responses'
      /\ DOMAIN acc.blocks \ {0} = Begun /\ acc.started = Begun
      /\ acc \in Accumulators /\ Closed = {}
      /\ \A k \in DOMAIN acc.blocks : acc.blocks[k].id = IF k \in Begun THEN CallId(k) ELSE NoId
  <2>1. UNCHANGED <<Anthropic, Responses>>
    BY DEF Anthropic, Responses
  <2> QED BY <2>1, OneProtocol DEF AdapterTypes, AccFits
<1>2. PICK c : c = Current
  OBVIOUS
<1>3. c \in 0 .. MaxBlocks /\ MaxBlocks \in Nat /\ Begun \subseteq 1 .. c /\ 0 \notin Begun
  BY <1>2, Numbers
<1>4. raw.n \in Nat
  <2>1. raw.n \in 0 .. Whole
    BY DEF Raw
  <2> QED BY <2>1, BlocksAssumption
<1>5. ASSUME NEW a \in Accumulators, acc' = a, Closed' = {}, a.started = Begun',
             DOMAIN a.blocks \ {0} = Begun',
             \A k \in DOMAIN a.blocks : a.blocks[k].id = IF k \in Begun' THEN CallId(k) ELSE NoId
      PROVE  acc' \in Accumulators /\ AccFits'
  BY <1>1, <1>5 DEF AccFits
<1>6. CASE raw.type = "open" /\ raw.kind = "tool"
  <2>1. c < MaxBlocks /\ Begun' = Begun \cup {c + 1} /\ Closed' = Closed
    BY <1>1, <1>2, <1>6, VendorMoves
  <2>2. c + 1 \in Blocks /\ c + 1 \notin Begun /\ c + 1 \in 0 .. MaxBlocks /\ c + 1 # 0
    BY <1>3, <2>1 DEF Blocks
  <2>3. PICK b : b = [kind |-> "tool", id |-> CallId(c + 1), parts |-> <<>>]
    OBVIOUS
  <2>4. b \in Block /\ b.id = CallId(c + 1) /\ b = [NewBlock("tool") EXCEPT !.id = CallId(c + 1)]
    <3>1. b.id \in BlockIds
      BY <2>2, <2>3 DEF BlockIds, Ids
    <3>2. b \in Block /\ b.id = CallId(c + 1)
      BY <2>3, <3>1 DEF Block, Kinds
    <3>3. b = [NewBlock("tool") EXCEPT !.id = CallId(c + 1)]
      BY <2>3 DEF NewBlock
    <3> QED BY <3>2, <3>3
  <2>5. PICK p, d : p = Put(c + 1, b) /\ d = Delta("tool_call_started", CallId(c + 1), NoPart)
    OBVIOUS
  <2>6. h.acc = [p EXCEPT !.started = @ \cup {c + 1}] /\ h.out = <<d>>
    <3>1. h = OnToolCallDelta(raw)
      BY <1>6 DEF HandleChat
    <3>2. h.acc = [p EXCEPT !.started = @ \cup {c + 1}] /\ h.out = <<d>> \o <<>>
      BY <1>1, <1>2, <1>6, <2>2, <2>4, <2>5, <3>1 DEF OnToolCallDelta
    <3> QED BY <3>2
  <2>7. /\ p \in Accumulators /\ p.started = Begun
        /\ DOMAIN p.blocks = DOMAIN acc.blocks \cup {c + 1} /\ p.blocks[c + 1] = b
        /\ \A j \in DOMAIN acc.blocks : j # c + 1 => p.blocks[j] = acc.blocks[j]
    BY <1>1, <2>2, <2>4, <2>5, PutIs
  <2>8. PICK a : a = [p EXCEPT !.started = @ \cup {c + 1}]
    OBVIOUS
  <2>9. a \in Accumulators /\ a.started = Begun' /\ a.blocks = p.blocks
    BY <2>1, <2>2, <2>7, <2>8 DEF Accumulators
  <2>10. ASSUME NEW k \in DOMAIN a.blocks
         PROVE  a.blocks[k].id = IF k \in Begun' THEN CallId(k) ELSE NoId
    <3>1. CASE k = c + 1
      BY <2>1, <2>4, <2>7, <2>9, <3>1
    <3>2. CASE k # c + 1
      BY <1>1, <2>1, <2>7, <2>9, <3>2
    <3> QED BY <3>1, <3>2
  <2>11. DOMAIN a.blocks \ {0} = Begun'
    BY <1>1, <2>1, <2>2, <2>7, <2>9
  <2>12. acc' \in Accumulators /\ AccFits'
    BY <1>1, <1>5, <2>1, <2>6, <2>8, <2>9, <2>10, <2>11
  <2>13. Says(h.out)
    BY <1>2, <2>1, <2>2, <2>5, <2>6, DeltaIs DEF Says
  <2> QED BY <2>12, <2>13
<1>7. CASE raw.type = "delta" /\ raw.kind = "tool"
  <2>1. c >= 1 /\ Begun' = Begun /\ Closed' = Closed /\ c \in Begun \ Closed
    BY <1>1, <1>2, <1>7, VendorMoves
  <2>2. c \in Blocks /\ c \in DOMAIN acc.blocks /\ c # 0
    BY <1>1, <1>3, <2>1 DEF Blocks
  <2>3. PICK b : b = [acc.blocks[c] EXCEPT !.parts = Append(@, <<Current, raw.n>>)]
    OBVIOUS
  <2>4. b \in Block /\ b.id = CallId(c)
    BY <1>1, <1>4, <2>1, <2>2, <2>3, Grows
  <2>5. PICK p, d : /\ p = Put(c, b)
                    /\ d = Delta("tool_call_args_delta", CallId(c), <<c, raw.n>>)
    OBVIOUS
  <2>6. h.acc = [p EXCEPT !.started = @ \cup {c}] /\ h.out = <<d>>
    <3>1. h = OnToolCallDelta(raw)
      BY <1>7 DEF HandleChat
    <3>2. c = Current /\ c \in acc.started
      BY <1>1, <1>2, <2>1
    <3>3. /\ OnToolCallDelta(raw).acc = [p EXCEPT !.started = @ \cup {c}]
          /\ OnToolCallDelta(raw).out
                = <<>> \o <<Delta("tool_call_args_delta", b.id, <<c, raw.n>>)>>
      <4>1. AddsPart(raw, MorePart(raw))
        BY <1>7, ToolDeltaIs
      <4>2. MorePart(raw) = b
        BY <2>3, <3>2 DEF MorePart
      <4> QED BY <2>5, <3>2, <4>1, <4>2 DEF AddsPart
    <3> QED BY <2>4, <2>5, <3>1, <3>3
  <2>7. /\ p \in Accumulators /\ p.started = Begun
        /\ DOMAIN p.blocks = DOMAIN acc.blocks \cup {c} /\ p.blocks[c] = b
        /\ \A j \in DOMAIN acc.blocks : j # c => p.blocks[j] = acc.blocks[j]
    <3>1. c \in 0 .. MaxBlocks
      BY <1>3
    <3> QED BY <1>1, <2>4, <2>5, <3>1, PutIs
  <2>8. PICK a : a = [p EXCEPT !.started = @ \cup {c}]
    OBVIOUS
  <2>9. a \in Accumulators /\ a.started = Begun' /\ a.blocks = p.blocks
    <3>1. p.started \cup {c} = Begun
      BY <2>1, <2>7
    <3> QED BY <2>1, <2>2, <2>7, <2>8, <3>1 DEF Accumulators
  <2>10. \A k \in DOMAIN a.blocks : a.blocks[k].id = IF k \in Begun' THEN CallId(k) ELSE NoId
    BY <1>1, <2>1, <2>4, <2>7, <2>9
  <2>11. DOMAIN a.blocks \ {0} = Begun'
    BY <1>1, <2>1, <2>2, <2>7, <2>9
  <2>12. acc' \in Accumulators /\ AccFits'
    BY <1>1, <1>5, <2>1, <2>6, <2>8, <2>9, <2>10, <2>11
  <2>13. Says(h.out)
    BY <1>2, <1>4, <2>1, <2>2, <2>5, <2>6, DeltaIs DEF Says
  <2> QED BY <2>12, <2>13
<1>8. CASE raw.type = "delta" /\ raw.kind # "tool"
  <2>1. c >= 1 /\ Begun' = Begun /\ Closed' = Closed
    BY <1>1, <1>2, <1>8, VendorMoves
  <2>2. c \in Blocks /\ 0 \in 0 .. MaxBlocks
    BY <1>3, <2>1 DEF Blocks
  <2>3. PICK b : b = IF Has(0) THEN [acc.blocks[0] EXCEPT !.parts = Append(@, <<Current, raw.n>>)]
                     ELSE [NewBlock("text") EXCEPT !.parts = <<<<Current, raw.n>>>>]
    OBVIOUS
  <2>4. b \in Block /\ b.id = NoId
    <3>1. CASE Has(0)
      <4>1. 0 \in DOMAIN acc.blocks /\ b = [acc.blocks[0] EXCEPT !.parts = Append(@, <<Current, raw.n>>)]
        BY <2>3, <3>1 DEF Has
      <4>2. acc.blocks[0].id = NoId
        BY <1>1, <1>3, <4>1
      <4> QED BY <1>4, <4>1, <4>2, Grows
    <3>2. CASE ~Has(0)
      <4>1. PICK p : p = <<<<c, raw.n>>>>
        OBVIOUS
      <4>2. p \in Seq(Part)
        BY <1>3, <1>4, <4>1 DEF Part
      <4>3. b = [kind |-> "text", id |-> NoId, parts |-> p]
        <5>1. b = [NewBlock("text") EXCEPT !.parts = p]
          BY <1>2, <2>3, <3>2, <4>1
        <5> QED BY <5>1 DEF NewBlock
      <4>4. NoId \in BlockIds
        BY DEF BlockIds
      <4> QED BY <4>2, <4>3, <4>4 DEF Block, Kinds
    <3> QED BY <3>1, <3>2
  <2>5. /\ h.acc = Put(0, b)
        /\ h.out = <<Said("text_delta", c, raw.n)>>
    <3>1. h = [acc |-> IF Has(0) THEN Grown(0, raw.n)
                       ELSE Put(0, [NewBlock("text") EXCEPT !.parts = <<<<Current, raw.n>>>>]),
               out |-> <<Said("text_delta", Current, raw.n)>>]
      BY <1>8 DEF HandleChat
    <3> QED BY <1>2, <2>3, <3>1 DEF Grown
  <2>6. PICK a : a = Put(0, b)
    OBVIOUS
  <2>7. /\ a \in Accumulators /\ a.started = Begun
        /\ DOMAIN a.blocks = DOMAIN acc.blocks \cup {0} /\ a.blocks[0] = b
        /\ \A j \in DOMAIN acc.blocks : j # 0 => a.blocks[j] = acc.blocks[j]
    BY <1>1, <2>2, <2>4, <2>6, PutIs
  <2>8. \A k \in DOMAIN a.blocks : a.blocks[k].id = IF k \in Begun' THEN CallId(k) ELSE NoId
    BY <1>1, <1>3, <2>1, <2>4, <2>7
  <2>9. DOMAIN a.blocks \ {0} = Begun'
    BY <1>1, <2>1, <2>7
  <2>10. acc' \in Accumulators /\ AccFits'
    BY <1>1, <1>5, <2>1, <2>5, <2>6, <2>7, <2>8, <2>9
  <2>11. Says(h.out)
    BY <1>4, <2>1, <2>2, <2>5, DeltaIs DEF Says
  <2> QED BY <2>10, <2>11
<1>9. CASE raw.type \in {"start", "finish", "usage"} \/ (raw.type = "open" /\ raw.kind # "tool")
  <2>1. Begun' = Begun /\ Closed' = Closed /\ raw.kind # "tool"
    BY <1>1, <1>2, <1>9, VendorMoves
  <2>2. /\ h.out = <<>> /\ h.acc \in Accumulators /\ h.acc.blocks = acc.blocks
        /\ h.acc.started = acc.started
    BY <1>1, <1>9, <2>1 DEF HandleChat, Quiet, Accumulators
  <2> QED BY <1>1, <1>5, <2>1, <2>2 DEF Says
<1>10. raw.type \in {"start", "open", "delta", "finish", "usage"}
  <2>1. raw.type # "close"
    BY DEF Legal
  <2> QED BY <2>1 DEF Raw
<1> QED BY <1>6, <1>7, <1>8, <1>9, <1>10

-----------------------------------------------------------------------------
(* The line of events *)

LEMMA IdsAre ==
    ASSUME NEW S, NEW k
    PROVE  /\ CallId(k) \in Ids(S) <=> k \in S
           /\ Ids(S \cup {k}) = Ids(S) \cup {CallId(k)}
           /\ NoId \notin Ids(S)
  BY IdsApart DEF Ids

LEMMA NamedAre ==
    ASSUME NEW S, NEW line \in Seq(S), NEW type
    PROVE  /\ \A i \in 1 .. Len(line) : line[i].type = type => line[i].id \in NamedIn(line, type)
           /\ \A id \in NamedIn(line, type) :
                 \E i \in 1 .. Len(line) : line[i].type = type /\ line[i].id = id
<1>1. DOMAIN line = 1 .. Len(line)
  OBVIOUS
<1> QED BY <1>1 DEF NamedIn, Range

\* Completions of calls that were begun keep the order.
LEMMA CompletionsFollow ==
    ASSUME NEW S, NEW line \in Seq(S), NEW c \in Seq(S), Ordered(line),
           NamedIn(line, "model_call_completed") = {},
           NamedIn(line, "tool_call_completed") = {},
           \A i \in 1 .. Len(c) : /\ c[i].type = "tool_call_completed"
                                  /\ c[i].id \in NamedIn(line, "tool_call_started"),
           \A i, j \in 1 .. Len(c) : c[i].id = c[j].id => i = j
    PROVE  /\ Ordered(line \o c)
           /\ NamedIn(line \o c, "tool_call_started") = NamedIn(line, "tool_call_started")
           /\ NamedIn(line \o c, "model_call_completed") = {}
<1>1. PICK n \in Nat, m \in Nat, g \in {line \o c} :
         n = Len(line) /\ m = Len(c) /\ g = line \o c
  <2>1. Len(line) \in Nat /\ Len(c) \in Nat
    OBVIOUS
  <2> QED BY <2>1, Zenon
<1>2. /\ g \in Seq(S) /\ Len(g) = n + m
      /\ \A i \in 1 .. n : g[i] = line[i]
      /\ \A i \in n + 1 .. n + m : g[i] = c[i - n] /\ i - n \in 1 .. m
  BY <1>1
<1>3. \A i \in n + 1 .. n + m :
         /\ g[i].type = "tool_call_completed"
         /\ g[i].id \in NamedIn(line, "tool_call_started")
  BY <1>1, <1>2
<1>4. \A i, j \in n + 1 .. n + m : g[i].id = g[j].id => i = j
  <2>1. ASSUME NEW i \in n + 1 .. n + m, NEW j \in n + 1 .. n + m, g[i].id = g[j].id
        PROVE  i = j
    <3>1. /\ g[i] = c[i - n] /\ i - n \in 1 .. m
          /\ g[j] = c[j - n] /\ j - n \in 1 .. m
      BY <1>2
    <3>2. c[i - n].id = c[j - n].id
      BY <2>1, <3>1
    <3>3. i - n = j - n
      BY <1>1, <3>1, <3>2
    <3> QED BY <3>3
  <2> QED BY <2>1
<1>5. ASSUME NEW k \in n .. n + m, NEW p, p = SubSeq(g, 1, k)
      PROVE  /\ NamedIn(p, "tool_call_started") = NamedIn(line, "tool_call_started")
             /\ NamedIn(p, "model_call_completed") = {}
             /\ \A id \in NamedIn(p, "tool_call_completed") : \E i \in n + 1 .. k : g[i].id = id
  <2>1. p \in Seq(S) /\ Len(p) = k /\ \A i \in 1 .. k : p[i] = g[i]
    BY <1>2, <1>5
  <2>2. 1 .. k = 1 .. n \cup n + 1 .. k /\ n + 1 .. k \subseteq n + 1 .. n + m
    OBVIOUS
  <2>3. ASSUME NEW type, NEW id \in NamedIn(p, type)
        PROVE  \/ id \in NamedIn(line, type)
               \/ type = "tool_call_completed" /\ \E i \in n + 1 .. k : g[i].id = id
    <3>1. PICK i \in 1 .. k : g[i].type = type /\ g[i].id = id
      <4>1. \E i \in 1 .. Len(p) : p[i].type = type /\ p[i].id = id
        BY <2>1, <2>3, NamedAre
      <4> QED BY <2>1, <4>1
    <3>2. CASE i \in 1 .. n
      BY <1>1, <1>2, <3>1, <3>2, NamedAre
    <3>3. CASE i \in n + 1 .. k
      BY <1>3, <2>2, <3>1, <3>3
    <3> QED BY <2>2, <3>2, <3>3
  <2>4. ASSUME NEW type, NEW id \in NamedIn(line, type) PROVE id \in NamedIn(p, type)
    <3>1. PICK i \in 1 .. n : line[i].type = type /\ line[i].id = id
      BY <1>1, NamedAre
    <3>2. i \in 1 .. k /\ p[i] = line[i]
      BY <1>2, <2>1, <2>2
    <3>3. p[i].id \in NamedIn(p, type)
      BY <2>1, <3>1, <3>2, NamedAre
    <3> QED BY <3>1, <3>2, <3>3
  <2>5. NamedIn(p, "tool_call_started") = NamedIn(line, "tool_call_started")
    <3>1. "tool_call_started" # "tool_call_completed"
      OBVIOUS
    <3>2. \A id \in NamedIn(p, "tool_call_started") : id \in NamedIn(line, "tool_call_started")
      BY <2>3, <3>1
    <3>3. \A id \in NamedIn(line, "tool_call_started") : id \in NamedIn(p, "tool_call_started")
      BY <2>4
    <3> QED BY <3>2, <3>3, Zenon
  <2>6. NamedIn(p, "model_call_completed") = {}
    BY <2>3
  <2>7. \A id \in NamedIn(p, "tool_call_completed") : \E i \in n + 1 .. k : g[i].id = id
    BY <2>3
  <2> QED BY <2>5, <2>6, <2>7
<1>6. ASSUME NEW i \in 1 .. n + m PROVE Follows(SubSeq(g, 1, i - 1), g[i])
  <2>1. CASE i \in 1 .. n
    <3>1. Follows(SubSeq(line, 1, i - 1), line[i])
      BY <1>1, <2>1 DEF Ordered
    <3>2. SubSeq(g, 1, i - 1) = SubSeq(line, 1, i - 1)
      <4>1. \A k \in 1 .. i - 1 : k \in 1 .. n
        BY <2>1
      <4>2. \A k \in 1 .. i - 1 : g[k] = line[k]
        BY <1>2, <4>1
      <4>3. /\ SubSeq(g, 1, i - 1) = [k \in 1 .. i - 1 |-> g[k]]
            /\ SubSeq(line, 1, i - 1) = [k \in 1 .. i - 1 |-> line[k]]
        BY <1>1, <1>2
      <4> QED BY <4>2, <4>3
    <3> QED BY <1>2, <2>1, <3>1, <3>2
  <2>2. CASE i \in n + 1 .. n + m
    <3>1. PICK p : p = SubSeq(g, 1, i - 1)
      OBVIOUS
    <3>2. i - 1 \in n .. n + m
      BY <2>2
    <3>3. /\ NamedIn(p, "tool_call_started") = NamedIn(line, "tool_call_started")
          /\ NamedIn(p, "model_call_completed") = {}
          /\ \A id \in NamedIn(p, "tool_call_completed") : \E k \in n + 1 .. i - 1 : g[k].id = id
      BY <1>5, <3>1, <3>2
    <3>4. g[i].id \notin NamedIn(p, "tool_call_completed")
      <4>1. ASSUME g[i].id \in NamedIn(p, "tool_call_completed") PROVE FALSE
        <5>1. PICK k \in n + 1 .. i - 1 : g[k].id = g[i].id
          BY <3>3, <4>1
        <5>2. k \in n + 1 .. n + m /\ k # i
          BY <2>2
        <5> QED BY <1>4, <2>2, <5>1, <5>2
      <4> QED BY <4>1
    <3>5. g[i].type = "tool_call_completed" /\ g[i].id \in NamedIn(line, "tool_call_started")
      BY <1>3, <2>2
    <3>6. Follows(p, g[i])
      BY <3>3, <3>4, <3>5 DEF Follows
    <3> QED BY <3>1, <3>6
  <2> QED BY <2>1, <2>2
<1>7. SubSeq(g, 1, n + m) = g
  BY <1>2
<1>8. n + m \in n .. n + m
  OBVIOUS
<1>9. /\ NamedIn(g, "tool_call_started") = NamedIn(line, "tool_call_started")
      /\ NamedIn(g, "model_call_completed") = {}
  BY <1>5, <1>7, <1>8
<1> QED BY <1>1, <1>2, <1>6, <1>9 DEF Ordered

\* One more event about what the vendor has sent.
LEMMA SaysKeeps ==
    ASSUME AdapterTypes, AccFits, LineFits, pc = "reading", out = <<>>,
           NEW o, Says(o), Chat => Closed' = {}, Begun' \subseteq Blocks
    PROVE  /\ o \in Seq(Events) /\ Ordered(events \o o)
           /\ NamedIn(events \o o, "tool_call_started") = Ids(Begun')
           /\ ~Chat => NamedIn(events \o o, "tool_call_completed") = Ids(Closed')
           /\ Chat => NamedIn(events \o o, "tool_call_completed") = {}
           /\ NamedIn(events \o o, "model_call_completed") = {}
<1>1. events \in Seq(Events) /\ Line = events
  BY DEF AdapterTypes, Line
<1>2. /\ Ordered(events)
      /\ NamedIn(events, "tool_call_started") = Ids(Begun)
      /\ ~Chat => NamedIn(events, "tool_call_completed") = Ids(Closed)
      /\ Chat => NamedIn(events, "tool_call_completed") = {}
      /\ NamedIn(events, "model_call_completed") = {}
  BY <1>1 DEF LineFits
<1>3. CASE o = <<>> /\ Begun' = Begun /\ Closed' = Closed
  <2>1. events \o o = events /\ o \in Seq(Events)
    BY <1>1, <1>3
  <2> QED BY <1>2, <1>3, <2>1
<1>4. ASSUME NEW d \in Deltas, o = <<d>>
      PROVE  /\ d \in Events /\ o \in Seq(Events) /\ events \o o = Append(events, d)
             /\ Follows(events, d) => Ordered(events \o o)
             /\ \A type : NamedIn(events \o o, type)
                             = NamedIn(events, type) \cup IF d.type = type THEN {d.id} ELSE {}
  <2>1. d \in Events
    BY DEF Events
  <2>2. o \in Seq(Events) /\ events \o o = Append(events, d)
    BY <1>1, <1>4, <2>1
  <2> QED BY <1>1, <1>2, <2>1, <2>2, NamedAppended, OrderedAppended
<1>5. ASSUME NEW d \in Deltas, o = <<d>>, d.type \in {"text_delta", "reasoning_delta"},
             Begun' = Begun, Closed' = Closed
      PROVE  Follows(events, d)
  BY <1>2, <1>5 DEF Follows, Deltas
<1>6. ASSUME NEW d \in Deltas, o = <<d>>, d.type \in {"text_delta", "reasoning_delta"},
             Begun' = Begun, Closed' = Closed
      PROVE  /\ Ordered(events \o o)
             /\ \A type \in {"tool_call_started", "tool_call_completed", "model_call_completed"} :
                   NamedIn(events \o o, type) = NamedIn(events, type)
  BY <1>4, <1>5, <1>6
<1>7. ASSUME NEW d \in Deltas, o = <<d>>, d.type = "tool_call_started",
             d.id = CallId(Current + 1), Current + 1 \in Blocks \ Begun,
             Begun' = Begun \cup {Current + 1}, Closed' = Closed
      PROVE  /\ Ordered(events \o o)
             /\ NamedIn(events \o o, "tool_call_started") = Ids(Begun')
             /\ \A type \in {"tool_call_completed", "model_call_completed"} :
                   NamedIn(events \o o, type) = NamedIn(events, type)
  <2>1. d.id \in Ids(Blocks) /\ d.id \notin Ids(Begun) /\ Ids(Begun') = Ids(Begun) \cup {d.id}
    <3>1. PICK k, b : k = Current + 1 /\ b = Begun
      OBVIOUS
    <3>2. /\ d.id = CallId(k) /\ k \in Blocks /\ k \notin b
          /\ Begun' = b \cup {k}
      BY <1>7, <3>1
    <3>3. CallId(k) \in Ids(Blocks) /\ CallId(k) \notin Ids(b) /\ Ids(b \cup {k}) = Ids(b) \cup {CallId(k)}
      BY <3>2, IdsAre
    <3> QED BY <3>1, <3>2, <3>3
  <2>2. Follows(events, d)
    BY <1>2, <1>7, <2>1 DEF Follows
  <2>3. Ordered(events \o o)
    BY <1>4, <1>7, <2>2
  <2>4. NamedIn(events \o o, "tool_call_started") = Ids(Begun) \cup {d.id}
    BY <1>2, <1>4, <1>7
  <2>5. ASSUME NEW type \in {"tool_call_completed", "model_call_completed"}
        PROVE  NamedIn(events \o o, type) = NamedIn(events, type)
    <3>1. d.type # type
      BY <1>7
    <3> QED BY <1>4, <1>7, <3>1
  <2> QED BY <2>1, <2>3, <2>4, <2>5
<1>8. ASSUME NEW d \in Deltas, o = <<d>>, d.type = "tool_call_args_delta",
             d.id = CallId(Current), Current \in Begun \ Closed,
             Begun' = Begun, Closed' = Closed
      PROVE  /\ Ordered(events \o o)
             /\ \A type \in {"tool_call_started", "tool_call_completed", "model_call_completed"} :
                   NamedIn(events \o o, type) = NamedIn(events, type)
  <2>1. d.id \in Ids(Begun) /\ d.id \notin Ids(Closed)
    BY <1>8, IdsAre
  <2>2. d.id \notin NamedIn(events, "tool_call_completed")
    BY <1>2, <2>1
  <2>3. Follows(events, d)
    BY <1>2, <1>8, <2>1, <2>2 DEF Follows
  <2> QED BY <1>4, <1>8, <2>3
<1>9. ASSUME NEW d \in Deltas, o = <<d>>, d.type = "tool_call_completed",
             d.id = CallId(Current), Current \in Begun \ Closed,
             Begun' = Begun, Closed' = Closed \cup {Current}
      PROVE  /\ Ordered(events \o o) /\ ~Chat
             /\ NamedIn(events \o o, "tool_call_completed") = Ids(Closed')
             /\ \A type \in {"tool_call_started", "model_call_completed"} :
                   NamedIn(events \o o, type) = NamedIn(events, type)
  <2>1. /\ d.id \in Ids(Begun) /\ d.id \notin Ids(Closed) /\ Ids(Closed') = Ids(Closed) \cup {d.id}
    BY <1>9, IdsAre
  <2>2. ~Chat
    BY <1>9
  <2>3. Follows(events, d)
    BY <1>2, <1>9, <2>1, <2>2 DEF Follows
  <2>4. Ordered(events \o o)
    BY <1>4, <1>9, <2>3
  <2>5. NamedIn(events \o o, "tool_call_completed") = Ids(Closed) \cup {d.id}
    BY <1>2, <1>4, <1>9, <2>2
  <2>6. ASSUME NEW type \in {"tool_call_started", "model_call_completed"}
        PROVE  NamedIn(events \o o, type) = NamedIn(events, type)
    <3>1. d.type # type
      BY <1>9
    <3> QED BY <1>4, <1>9, <3>1
  <2> QED BY <2>1, <2>2, <2>4, <2>5, <2>6
<1>10. CASE \E d \in Deltas :
              /\ o = <<d>>
              /\ \/ /\ d.type \in {"text_delta", "reasoning_delta"}
                    /\ Begun' = Begun /\ Closed' = Closed
                 \/ /\ d.type = "tool_call_started" /\ d.id = CallId(Current + 1)
                    /\ Current + 1 \in Blocks \ Begun
                    /\ Begun' = Begun \cup {Current + 1} /\ Closed' = Closed
                 \/ /\ d.type = "tool_call_args_delta" /\ d.id = CallId(Current)
                    /\ Current \in Begun \ Closed
                    /\ Begun' = Begun /\ Closed' = Closed
                 \/ /\ d.type = "tool_call_completed" /\ d.id = CallId(Current)
                    /\ Current \in Begun \ Closed
                    /\ Begun' = Begun /\ Closed' = Closed \cup {Current}
  <2>1. PICK d \in Deltas :
              /\ o = <<d>>
              /\ \/ /\ d.type \in {"text_delta", "reasoning_delta"}
                    /\ Begun' = Begun /\ Closed' = Closed
                 \/ /\ d.type = "tool_call_started" /\ d.id = CallId(Current + 1)
                    /\ Current + 1 \in Blocks \ Begun
                    /\ Begun' = Begun \cup {Current + 1} /\ Closed' = Closed
                 \/ /\ d.type = "tool_call_args_delta" /\ d.id = CallId(Current)
                    /\ Current \in Begun \ Closed
                    /\ Begun' = Begun /\ Closed' = Closed
                 \/ /\ d.type = "tool_call_completed" /\ d.id = CallId(Current)
                    /\ Current \in Begun \ Closed
                    /\ Begun' = Begun /\ Closed' = Closed \cup {Current}
    BY <1>10
  <2>2. o \in Seq(Events)
    BY <1>4, <2>1
  <2>3. CASE d.type \in {"text_delta", "reasoning_delta"} /\ Begun' = Begun /\ Closed' = Closed
    BY <1>2, <1>6, <2>1, <2>2, <2>3
  <2>4. CASE /\ d.type = "tool_call_started" /\ d.id = CallId(Current + 1)
             /\ Current + 1 \in Blocks \ Begun
             /\ Begun' = Begun \cup {Current + 1} /\ Closed' = Closed
    BY <1>2, <1>7, <2>1, <2>2, <2>4
  <2>5. CASE /\ d.type = "tool_call_args_delta" /\ d.id = CallId(Current)
             /\ Current \in Begun \ Closed
             /\ Begun' = Begun /\ Closed' = Closed
    BY <1>2, <1>8, <2>1, <2>2, <2>5
  <2>6. CASE /\ d.type = "tool_call_completed" /\ d.id = CallId(Current)
             /\ Current \in Begun \ Closed
             /\ Begun' = Begun /\ Closed' = Closed \cup {Current}
    BY <1>2, <1>9, <2>1, <2>2, <2>6
  <2> QED BY <2>1, <2>3, <2>4, <2>5, <2>6
<1> QED BY <1>3, <1>10 DEF Says

-----------------------------------------------------------------------------
(* The steps of an adapter *)

LEMMA Receives == ASSUME AdapterInv, Receive PROVE AdapterInv'
<1>1. AdapterTypes /\ AccFits /\ LineFits /\ pc = "reading" /\ out = <<>>
      /\ UNCHANGED <<protocol, events, pc>>
  BY DEF AdapterInv, Receive
<1>2. PICK raw \in {r \in Raw : Legal(r)} :
         /\ vendor' = Sent(raw)
         /\ acc' = Handle(raw).acc
         /\ out' = Handle(raw).out
  BY DEF Receive
<1>3. raw \in Raw /\ Legal(raw)
  BY <1>2
<1>4. /\ Anthropic \/ Responses \/ Chat
      /\ UNCHANGED <<Anthropic, Responses, Chat>>
  BY <1>1, OneProtocol DEF AdapterTypes, Anthropic, Responses, Chat
<1>5. acc' \in Accumulators /\ AccFits' /\ Says(out')
  <2>1. CASE Anthropic
    <3>1. Handle(raw) = HandleAnthropic(raw)
      BY <1>1, <2>1, OneProtocol DEF Handle, AdapterTypes
    <3> QED BY <1>1, <1>2, <1>3, <2>1, <3>1, AnthropicHandles
  <2>2. CASE Responses
    <3>1. Handle(raw) = HandleResponses(raw)
      BY <1>1, <2>2, OneProtocol DEF Handle, AdapterTypes
    <3> QED BY <1>1, <1>2, <1>3, <2>2, <3>1, ResponsesHandles
  <2>3. CASE Chat
    <3>1. Handle(raw) = HandleChat(raw)
      BY <1>1, <2>3, OneProtocol DEF Handle, AdapterTypes
    <3> QED BY <1>1, <1>2, <1>3, <2>3, <3>1, ChatHandles
  <2> QED BY <1>4, <2>1, <2>2, <2>3
<1>6. vendor' \in Vendors /\ Current' <= MaxBlocks
  <2>1. Chat => Closed = {}
    BY <1>1 DEF AccFits
  <2> QED BY <1>1, <1>2, <1>3, <2>1, VendorMoves
<1>7. Chat => Closed' = {}
  BY <1>4, <1>5 DEF AccFits
<1>8. Begun' \subseteq Blocks
  <2>1. Current' \in Nat /\ MaxBlocks \in Nat
    BY <1>6, BlocksAssumption DEF Vendors, Current
  <2> QED BY <1>6, <2>1 DEF Begun, Blocks
<1>9. /\ out' \in Seq(Events) /\ Ordered(events \o out')
      /\ NamedIn(events \o out', "tool_call_started") = Ids(Begun')
      /\ ~Chat => NamedIn(events \o out', "tool_call_completed") = Ids(Closed')
      /\ Chat => NamedIn(events \o out', "tool_call_completed") = {}
      /\ NamedIn(events \o out', "model_call_completed") = {}
  BY <1>1, <1>5, <1>7, <1>8, SaysKeeps
<1>10. Line' = events \o out' /\ pc' = "reading"
  BY <1>1 DEF Line
<1>11. LineFits'
  BY <1>4, <1>9, <1>10 DEF LineFits
<1>12. AdapterTypes'
  BY <1>1, <1>5, <1>6, <1>9 DEF AdapterTypes
<1> QED BY <1>5, <1>11, <1>12 DEF AdapterInv

\* An event that is yielded leaves the line as it was.
LEMMA YieldKeeps ==
    ASSUME AdapterInv, YieldEvent
    PROVE  /\ AdapterInv'
           /\ Head(out) \in Events /\ Follows(events, Head(out))
           /\ events' = Append(events, Head(out)) /\ pc' = pc
           /\ pc \notin {"create", "broken"} \cup Over
<1>1. /\ AdapterTypes /\ AccFits /\ LineFits /\ out # <<>>
      /\ events' = Append(events, Head(out)) /\ out' = Tail(out)
      /\ UNCHANGED <<protocol, vendor, acc, pc>>
      /\ pc \in {"reading", "returning", "told", "reraising"}
  BY DEF AdapterInv, YieldEvent
<1>2. /\ events \in Seq(Events) /\ out \in Seq(Events) /\ Ordered(events \o out)
  BY <1>1 DEF AdapterTypes, LineFits, Line
<1>3. /\ Follows(events, Head(out)) /\ Head(out) \in Events
      /\ events' \o out' = events \o out
      /\ events' \in Seq(Events) /\ out' \in Seq(Events)
  BY <1>1, <1>2, NextFollows
<1>4. Line' = Line
  BY <1>3 DEF Line
<1>5. /\ UNCHANGED <<Anthropic, Responses, Chat, Current>> /\ Begun' = Begun /\ Closed' = Closed
  BY <1>1 DEF Anthropic, Responses, Chat, Current, Begun, Closed
<1>6. LineFits'
  <2>1. pc' \notin {"create", "broken", "returned"} /\ pc' = pc
    BY <1>1
  <2> QED BY <1>1, <1>4, <1>5, <2>1 DEF LineFits
<1>7. AccFits'
  BY <1>1, <1>5 DEF AccFits
<1>8. AdapterTypes'
  BY <1>1, <1>3, <1>5 DEF AdapterTypes
<1> QED BY <1>1, <1>3, <1>6, <1>7, <1>8 DEF AdapterInv, Over

LEMMA MessageBlockIs ==
    ASSUME NEW b \in Block
    PROVE  MessageBlock(b.kind, b.id, b.parts) \in Block
  BY DEF MessageBlock, Block

LEMMA InOrderIs ==
    ASSUME AdapterTypes, NEW S \in SUBSET DOMAIN acc.blocks
    PROVE  InOrder(S) \in Seq(Block)
<1>1. /\ S \in SUBSET (0 .. MaxBlocks) /\ MaxBlocks \in Nat
      /\ \A k \in S : acc.blocks[k] \in Block
  BY Numbers
<1>2. PICK order, n : order = Ascending(S) /\ n = Len(order)
  OBVIOUS
<1>3. n \in Nat /\ DOMAIN order = 1 .. n /\ \A j \in 1 .. n : order[j] \in S
  BY <1>1, <1>2, AscendingIs
<1>4. InOrder(S) = [j \in 1 .. n |->
         MessageBlock(acc.blocks[order[j]].kind, acc.blocks[order[j]].id,
                      acc.blocks[order[j]].parts)]
  BY <1>2, <1>3 DEF InOrder
<1>5. \A j \in 1 .. n : MessageBlock(acc.blocks[order[j]].kind, acc.blocks[order[j]].id,
                                     acc.blocks[order[j]].parts) \in Block
  BY <1>1, <1>3, MessageBlockIs
<1> QED BY <1>3, <1>4, <1>5

LEMMA FinalMessageIs == ASSUME AdapterTypes PROVE FinalMessage \in Seq(Block)
<1>1. /\ Anthropic \/ Responses \/ Chat
      /\ ~(Anthropic /\ Responses) /\ ~(Anthropic /\ Chat) /\ ~(Responses /\ Chat)
  BY OneProtocol DEF AdapterTypes
<1>2. AnthropicMessage \in Seq(Block)
  BY InOrderIs DEF AnthropicMessage
<1>3. ResponsesMessage \in Seq(Block)
  <2>1. PICK f, n : f = acc.final /\ n = Len(f)
    OBVIOUS
  <2>2. f \in Seq(VendorBlock) /\ n \in Nat /\ n <= MaxBlocks /\ DOMAIN f = 1 .. n
    BY <2>1 DEF AdapterTypes, Accumulators
  <2>3. MaxBlocks \in Nat /\ Whole \in Nat
    BY BlocksAssumption
  <2>4. ASSUME NEW k \in 1 .. n
        PROVE  MessageBlock(f[k].kind, IF f[k].kind = "tool" THEN CallId(k) ELSE NoId,
                            PartsOf(k, f[k].parts)) \in Block
    <3>1. f[k].kind \in Kinds /\ f[k].parts \in Nat
      <4>1. f[k] \in VendorBlock
        BY <2>2
      <4>2. f[k].kind \in Kinds
        BY <4>1 DEF VendorBlock
      <4>3. f[k].parts \in 0 .. Whole
        BY <4>1 DEF VendorBlock
      <4> QED BY <2>3, <4>2, <4>3
    <3>2. k \in Blocks /\ k \in Nat
      BY <2>2, <2>3 DEF Blocks
    <3>3. (IF f[k].kind = "tool" THEN CallId(k) ELSE NoId) \in BlockIds
      BY <3>2 DEF BlockIds, Ids
    <3>4. PartsOf(k, f[k].parts) \in Seq(Part)
      <4>1. PICK m \in Nat : m = f[k].parts
        BY <3>1
      <4>2. \A j \in 1 .. m : <<k, j>> \in Part
        BY <3>2 DEF Part
      <4>3. [j \in 1 .. m |-> <<k, j>>] \in Seq(Part)
        BY <4>2
      <4> QED BY <4>1, <4>3 DEF PartsOf
    <3> QED BY <3>1, <3>3, <3>4 DEF MessageBlock, Block
  <2>5. ResponsesMessage = [k \in 1 .. n |->
           MessageBlock(f[k].kind, IF f[k].kind = "tool" THEN CallId(k) ELSE NoId,
                        PartsOf(k, f[k].parts))]
    BY <2>1, <2>2 DEF ResponsesMessage
  <2> QED BY <2>2, <2>4, <2>5
<1>4. ChatMessage \in Seq(Block)
  <2>1. InOrder(DOMAIN acc.blocks \ {0}) \in Seq(Block)
    BY InOrderIs
  <2>2. (IF Has(0) THEN <<MessageBlock("text", NoId, acc.blocks[0].parts)>> ELSE <<>>) \in Seq(Block)
    <3>1. ASSUME Has(0) PROVE MessageBlock("text", NoId, acc.blocks[0].parts) \in Block
      <4>1. acc.blocks[0] \in Block
        BY <3>1, Numbers DEF Has
      <4>2. NoId \in BlockIds
        BY DEF BlockIds
      <4> QED BY <4>1, <4>2 DEF MessageBlock, Block, Kinds
    <3> QED BY <3>1
  <2> QED BY <2>1, <2>2 DEF ChatMessage
<1> QED BY <1>1, <1>2, <1>3, <1>4 DEF FinalMessage

LEMMA TerminalIs ==
    ASSUME AdapterTypes, NEW interrupted \in BOOLEAN, NEW e, e = Terminal(interrupted)
    PROVE  e \in Terminals /\ e.type = "model_call_completed" /\ e.id = NoId
<1>1. PICK m, u, s :
         /\ m = FinalMessage /\ u = Usage(interrupted)
         /\ s = IF interrupted THEN "interrupted" ELSE IF acc.stop THEN "vendor" ELSE "unknown"
  OBVIOUS
<1>2. m \in Seq(Block)
  BY <1>1, FinalMessageIs
<1>3. u \in Usages
  <2>1. acc.input \in BOOLEAN /\ acc.output \in BOOLEAN
    BY DEF AdapterTypes, Accumulators
  <2>2. FullUsage \in Usages /\ NoUsage \in Usages
    BY DEF FullUsage, NoUsage, Usages
  <2>3. AnthropicUsage \in Usages
    <3>1. PICK w : w = AnthropicUsage
      OBVIOUS
    <3>2. /\ w = [state |-> w.state, input |-> acc.input, output |-> acc.output]
          /\ w.state \in {"complete", "partial", "unavailable"}
          /\ w.state = "complete" => acc.input
      BY <3>1 DEF AnthropicUsage
    <3> QED BY <2>1, <3>1, <3>2 DEF Usages
  <2>4. ResponsesUsage \in Usages
    BY <2>2 DEF ResponsesUsage
  <2>5. ChatUsage(interrupted) \in Usages
    BY <2>2 DEF ChatUsage
  <2>6. /\ Anthropic \/ Responses \/ Chat
        /\ ~(Anthropic /\ Responses) /\ ~(Anthropic /\ Chat) /\ ~(Responses /\ Chat)
    BY OneProtocol DEF AdapterTypes
  <2> QED BY <1>1, <2>3, <2>4, <2>5, <2>6 DEF Usage
<1>4. e = [type |-> "model_call_completed", id |-> NoId, part |-> NoPart, message |-> m,
           usage |-> u, stop |-> s]
  BY <1>1 DEF Terminal
<1>5. s \in {"interrupted", "vendor", "unknown"}
  BY <1>1
<1> QED BY <1>2, <1>3, <1>4, <1>5 DEF Terminals

LEMMA EndKeeps == ASSUME AdapterInv, StreamEnds PROVE AdapterInv'
<1>1. /\ AdapterTypes /\ AccFits /\ LineFits /\ pc = "reading" /\ out = <<>>
      /\ pc' = "returning" /\ out' = CompletedAtEnd
      /\ UNCHANGED <<protocol, vendor, acc, events>>
  BY DEF AdapterInv, StreamEnds
<1>2. /\ UNCHANGED <<Anthropic, Responses, Chat, Current>> /\ Begun' = Begun /\ Closed' = Closed
  BY <1>1 DEF Anthropic, Responses, Chat, Current, Begun, Closed
<1>3. events \in Seq(Events) /\ Line = events /\ Line' = events \o CompletedAtEnd
  BY <1>1 DEF AdapterTypes, Line
<1>4. AccFits'
  BY <1>1, <1>2 DEF AccFits
<1>5. CASE ~Chat
  <2>1. CompletedAtEnd = <<>> /\ CompletedAtEnd \in Seq(Events)
    BY <1>5 DEF CompletedAtEnd
  <2>2. Line' = Line
    BY <1>3, <2>1
  <2>3. LineFits'
    BY <1>1, <1>2, <1>5, <2>2 DEF LineFits
  <2>4. AdapterTypes'
    BY <1>1, <1>2, <2>1 DEF AdapterTypes
  <2> QED BY <1>4, <2>3, <2>4 DEF AdapterInv
<1>6. CASE Chat
  <2>1. PICK S, order, n : /\ S = {k \in DOMAIN acc.blocks : acc.blocks[k].id # NoId}
                           /\ order = Ascending(S) /\ n = Len(order)
    OBVIOUS
  <2>2. S \in SUBSET (0 .. MaxBlocks) /\ MaxBlocks \in Nat
    BY <1>1, <2>1, Numbers
  <2>3. /\ n \in Nat /\ DOMAIN order = 1 .. n /\ \A j \in 1 .. n : order[j] \in S
        /\ \A i, j \in 1 .. n : order[i] = order[j] => i = j
    <3>1. PICK m \in Nat : m = MaxBlocks /\ S \in SUBSET (0 .. m)
      BY <2>2
    <3>2. /\ Len(Ascending(S)) \in Nat /\ DOMAIN Ascending(S) = 1 .. Len(Ascending(S))
          /\ \A i \in 1 .. Len(Ascending(S)) : Ascending(S)[i] \in S
          /\ \A i, j \in 1 .. Len(Ascending(S)) :
                Ascending(S)[i] = Ascending(S)[j] => i = j
      BY <3>1, AscendingIs, Zenon
    <3>3. /\ Len(order) \in Nat /\ DOMAIN order = 1 .. Len(order)
          /\ \A i \in 1 .. Len(order) : order[i] \in S
          /\ \A i, j \in 1 .. Len(order) : order[i] = order[j] => i = j
      BY <2>1, <3>2, Zenon
    <3> QED BY <2>1, <3>3, Zenon
  <2>4. \A k \in S : k \in Begun /\ acc.blocks[k].id = CallId(k)
    BY <1>1, <2>1 DEF AccFits
  <2>5. \A k \in S : k \in Blocks
    BY <1>1, <2>4, Numbers
  <2>6. PICK c : c = CompletedAtEnd
    OBVIOUS
  <2>7. c = [j \in 1 .. n |-> Delta("tool_call_completed", acc.blocks[order[j]].id, NoPart)]
    BY <1>6, <2>1, <2>3, <2>6 DEF CompletedAtEnd
  <2>8. ASSUME NEW j \in 1 .. n
        PROVE  /\ c[j] \in Events /\ c[j].type = "tool_call_completed"
               /\ c[j].id = CallId(order[j]) /\ order[j] \in Begun
    <3>1. order[j] \in S /\ order[j] \in Blocks /\ order[j] \in Begun
      BY <2>3, <2>4, <2>5
    <3>2. c[j] = Delta("tool_call_completed", CallId(order[j]), NoPart)
      BY <2>4, <2>7, <3>1
    <3>3. 0 \in Nat
      OBVIOUS
    <3> QED BY <3>1, <3>2, <3>3, DeltaIs DEF Events
  <2>9. c \in Seq(Events) /\ Len(c) = n
    BY <2>3, <2>7, <2>8
  <2>10. /\ Ordered(events)
         /\ NamedIn(events, "tool_call_started") = Ids(Begun)
         /\ NamedIn(events, "tool_call_completed") = {}
         /\ NamedIn(events, "model_call_completed") = {}
    BY <1>1, <1>3, <1>6 DEF LineFits
  <2>11. \A i \in 1 .. Len(c) : /\ c[i].type = "tool_call_completed"
                                /\ c[i].id \in NamedIn(events, "tool_call_started")
    BY <2>8, <2>9, <2>10, IdsAre
  <2>12. ASSUME NEW i \in 1 .. Len(c), NEW j \in 1 .. Len(c), c[i].id = c[j].id PROVE i = j
    <3>1. CallId(order[i]) = CallId(order[j])
      BY <2>8, <2>9, <2>12
    <3>2. order[i] = order[j]
      BY <3>1, IdsApart
    <3> QED BY <2>3, <2>9, <3>2
  <2>13. /\ Ordered(events \o c)
         /\ NamedIn(events \o c, "tool_call_started") = NamedIn(events, "tool_call_started")
         /\ NamedIn(events \o c, "model_call_completed") = {}
    BY <1>3, <2>9, <2>10, <2>11, <2>12, CompletionsFollow
  <2>14. LineFits'
    BY <1>1, <1>2, <1>3, <1>6, <2>6, <2>10, <2>13 DEF LineFits
  <2>15. AdapterTypes'
    BY <1>1, <1>2, <2>6, <2>9 DEF AdapterTypes
  <2> QED BY <1>4, <2>14, <2>15 DEF AdapterInv
<1> QED BY <1>5, <1>6

LEMMA ConcludeKeeps == ASSUME AdapterInv, Conclude PROVE AdapterInv'
<1>1. /\ AdapterTypes /\ AccFits /\ LineFits /\ pc \in {"returning", "broken"} /\ out = <<>>
      /\ UNCHANGED <<protocol, vendor, acc, events>>
  BY DEF AdapterInv, Conclude
<1>2. /\ UNCHANGED <<Anthropic, Responses, Chat, Current>> /\ Begun' = Begun /\ Closed' = Closed
  BY <1>1 DEF Anthropic, Responses, Chat, Current, Begun, Closed
<1>3. /\ events \in Seq(Events) /\ Line = events /\ Line' = events \o out'
      /\ Ordered(events) /\ NamedIn(events, "model_call_completed") = {}
      /\ NamedIn(events, "tool_call_started") = Ids(Begun)
      /\ ~Chat => NamedIn(events, "tool_call_completed") = Ids(Closed)
  <2>1. events \in Seq(Events) /\ Line = events /\ Line' = events \o out'
    BY <1>1 DEF AdapterTypes, Line
  <2> QED BY <1>1, <2>1 DEF LineFits
<1>4. AccFits'
  BY <1>1, <1>2 DEF AccFits
<1>5. CASE Assembles
  <2>1. PICK b, e : b = (pc = "broken") /\ e = Terminal(b)
    OBVIOUS
  <2>2. out' = <<e>> /\ pc' \in {"told", "reraising"}
    BY <1>5, <2>1 DEF Conclude
  <2>3. e \in Terminals /\ e.type = "model_call_completed" /\ e.id = NoId
    BY <1>1, <2>1, TerminalIs
  <2>4. e \in Events /\ out' \in Seq(Events)
    BY <2>2, <2>3 DEF Events
  <2>5. Line' = Append(events, e)
    BY <1>3, <2>2, <2>4
  <2>6. Follows(events, e)
    BY <1>3, <2>3 DEF Follows
  <2>7. Ordered(Line')
    BY <1>3, <2>4, <2>5, <2>6, OrderedAppended
  <2>8. ASSUME NEW type \in {"tool_call_started", "tool_call_completed"}
        PROVE  NamedIn(Line', type) = NamedIn(events, type)
    <3>1. e.type # type
      BY <2>3
    <3>2. NamedIn(Append(events, e), type)
             = NamedIn(events, type) \cup IF e.type = type THEN {e.id} ELSE {}
      BY <1>3, <2>4, NamedAppended
    <3> QED BY <2>5, <3>1, <3>2
  <2>9. NamedIn(Line', "model_call_completed") # {}
    <3>1. NamedIn(Append(events, e), "model_call_completed")
             = NamedIn(events, "model_call_completed")
               \cup IF e.type = "model_call_completed" THEN {e.id} ELSE {}
      BY <1>3, <2>4, NamedAppended
    <3> QED BY <2>3, <2>5, <3>1
  <2>10. LineFits'
    BY <1>2, <1>3, <2>2, <2>7, <2>8, <2>9 DEF LineFits
  <2>11. AdapterTypes'
    BY <1>1, <1>2, <2>2, <2>4 DEF AdapterTypes
  <2> QED BY <1>4, <2>10, <2>11 DEF AdapterInv
<1>6. CASE ~Assembles
  <2>1. out' = out /\ pc' = "raised"
    BY <1>6 DEF Conclude
  <2>2. Line' = Line
    BY <1>1, <2>1 DEF Line
  <2>3. LineFits'
    BY <1>1, <1>2, <2>1, <2>2 DEF LineFits
  <2>4. AdapterTypes'
    BY <1>1, <1>2, <2>1 DEF AdapterTypes, Over
  <2> QED BY <1>4, <2>3, <2>4 DEF AdapterInv
<1> QED BY <1>5, <1>6

\* Where only the generator moves on.
LEMMA MoveKeeps ==
    ASSUME AdapterInv, UNCHANGED <<protocol, vendor, acc, out, events>>,
           \/ Create \/ StreamBreaks \/ Return \/ Reraise \/ Cancel \/ UNCHANGED pc
    PROVE  AdapterInv'
<1>1. AdapterTypes /\ AccFits /\ LineFits
  BY DEF AdapterInv
<1>2. /\ UNCHANGED <<Anthropic, Responses, Chat, Current, Line>> /\ Begun' = Begun /\ Closed' = Closed
  BY DEF Anthropic, Responses, Chat, Current, Begun, Closed, Line
<1>3. \/ pc = "create" /\ pc' \in {"reading", "raised"}
      \/ pc = "reading" /\ out = <<>> /\ pc' = "broken"
      \/ pc = "told" /\ out = <<>> /\ pc' = "returned"
      \/ pc' \in {"raised", "cancelled"}
      \/ pc' = pc
  BY DEF Create, StreamBreaks, Return, Reraise, Cancel
<1>4. pc' \in {"create", "reading", "returning", "broken", "told", "reraising"} \cup Over
  BY <1>1, <1>3 DEF AdapterTypes, Over
<1>5. AdapterTypes'
  BY <1>1, <1>2, <1>4 DEF AdapterTypes
<1>6. AccFits'
  BY <1>1, <1>2 DEF AccFits
<1>7. /\ Chat /\ pc' \in {"create", "reading", "broken"} => NamedIn(Line, "tool_call_completed") = {}
      /\ pc' \in {"create", "reading", "returning", "broken"} =>
            NamedIn(Line, "model_call_completed") = {}
      /\ pc' \in {"told", "reraising", "returned"} => NamedIn(Line, "model_call_completed") # {}
      /\ pc' \in {"create", "broken", "returned"} => out = <<>>
  BY <1>1, <1>3 DEF LineFits
<1>8. LineFits'
  BY <1>1, <1>2, <1>7 DEF LineFits
<1> QED BY <1>5, <1>6, <1>8 DEF AdapterInv

\* A new call of the model.
Fresh == /\ protocol \in Adapters /\ vendor = NewVendor /\ acc = NewAcc
         /\ out = <<>> /\ events = <<>> /\ pc = "create"

LEMMA FreshFits == Fresh => AdapterInv
<1> SUFFICES ASSUME Fresh PROVE AdapterInv
  OBVIOUS
<1>1. MaxBlocks \in Nat /\ Len(<<>>) = 0 /\ DOMAIN <<>> = {}
  BY BlocksAssumption
<1>2. vendor \in Vendors /\ vendor.blocks = <<>>
  BY DEF Fresh, NewVendor, Vendors
<1>3. Current = 0
  BY <1>1, <1>2 DEF Current
<1>4. Begun = {} /\ Closed = {}
  BY <1>3 DEF Begun, Closed
<1>5. <<>> \in UNION {[D -> Block] : D \in SUBSET (0 .. MaxBlocks)}
  <2>1. <<>> \in [{} -> Block] /\ {} \in SUBSET (0 .. MaxBlocks)
    BY <1>1
  <2> QED BY <2>1
<1>6. <<>> \in {f \in Seq(VendorBlock) : Len(f) <= MaxBlocks}
  BY <1>1
<1>7. acc \in Accumulators /\ acc.blocks = <<>> /\ acc.items = {} /\ acc.started = {}
  BY <1>5, <1>6 DEF Fresh, NewAcc, Accumulators
<1>8. AccFits
  BY <1>1, <1>3, <1>4, <1>7 DEF AccFits
<1>9. AdapterTypes
  BY <1>1, <1>2, <1>3, <1>7 DEF Fresh, AdapterTypes
<1>10. Line = <<>>
  BY DEF Fresh, Line
<1>11. Ids({}) = {}
  BY DEF Ids
<1>12. LineFits
  BY <1>4, <1>10, <1>11, NamedNone, OrderedNone DEF Fresh, LineFits
<1> QED BY <1>8, <1>9, <1>12 DEF AdapterInv

LEMMA AgainKeeps == ASSUME AdapterInv, Again PROVE AdapterInv'
<1>1. Fresh'
  BY DEF AdapterInv, AdapterTypes, Again, Fresh
<1>2. Fresh' => AdapterInv'
  BY FreshFits, PTL
<1> QED BY <1>1, <1>2

\* AdapterInv is inductive.
THEOREM AdapterInvariant == ReplaySpec => []AdapterInv
<1>1. ReplayInit => AdapterInv
  BY FreshFits DEF ReplayInit, AdapterInit, Fresh
<1>2. ASSUME AdapterInv, [ReplayNext]_replayingVars PROVE AdapterInv'
  <2>1. CASE Record
    <3>1. CASE Create \/ StreamBreaks \/ Return \/ Reraise \/ Cancel
      <4>1. UNCHANGED <<protocol, vendor, acc, out, events>>
        BY <3>1 DEF Create, StreamBreaks, Return, Reraise, Cancel
      <4> QED BY <1>2, <3>1, <4>1, MoveKeeps
    <3>2. CASE Receive
      BY <1>2, <3>2, Receives
    <3>3. CASE YieldEvent
      BY <1>2, <3>3, YieldKeeps
    <3>4. CASE StreamEnds
      BY <1>2, <3>4, EndKeeps
    <3>5. CASE Conclude
      BY <1>2, <3>5, ConcludeKeeps
    <3> QED BY <2>1, <3>1, <3>2, <3>3, <3>4, <3>5 DEF Record, Step
  <2>2. CASE NextTurn
    BY <1>2, <2>2, AgainKeeps DEF NextTurn
  <2>3. CASE UNCHANGED adapterVars
    <3>1. UNCHANGED <<protocol, vendor, acc, out, events>> /\ UNCHANGED pc
      BY <2>3 DEF adapterVars
    <3> QED BY <1>2, <3>1, MoveKeeps
  <2> QED BY <1>2, <2>1, <2>2, <2>3 DEF ReplayNext, Load, Ask, replayingVars
<1> QED BY <1>1, <1>2, PTL DEF ReplaySpec

-----------------------------------------------------------------------------
(* What ModelPort.stream promises *)

Spoken == IF events = <<>> THEN NoEvent
          ELSE [type |-> Last(events).type, id |-> Last(events).id]

Stage == CASE pc \in {"raised", "cancelled"} -> "raised"
           [] pc = "returned" -> "returned"
           [] OTHER -> IF Named("model_call_completed") = {} THEN "open" ELSE "told"

LEMMA StageIs ==
    /\ pc \in {"raised", "cancelled"} => Stage = "raised"
    /\ pc = "returned" => Stage = "returned"
    /\ pc \notin Over => Stage = IF NamedIn(events, "model_call_completed") = {} THEN "open" ELSE "told"
  BY DEF Stage, Over, Named, NamedIn

LEMMA SpokenIs ==
    ASSUME NEW e \in Events, events \in Seq(Events), events' = Append(events, e)
    PROVE  Spoken' = [type |-> e.type, id |-> e.id]
<1>1. events' # <<>> /\ Last(events') = e
  BY DEF Last
<1> QED BY <1>1 DEF Spoken

LEMMA NamedIs ==
    /\ \A type : Named(type) = NamedIn(events, type)
    /\ \A type : Named(type)' = NamedIn(events', type)
  BY DEF Named, NamedIn

\* A step that only moves the generator raises, returns or changes nothing.
LEMMA MovesQuietly ==
    ASSUME events' = events, pc \notin Over,
           \/ pc' \notin Over
           \/ pc' \in {"raised", "cancelled"}
           \/ pc' = "returned" /\ NamedIn(events, "model_call_completed") # {}
    PROVE  [Port!Next]_Port!vars
<1>1. /\ UNCHANGED <<Spoken, Named("tool_call_started"), Named("tool_call_completed"),
                     Named("model_call_completed")>>
  BY DEF Spoken, Named
<1>2. CASE pc' \notin Over
  <2>1. Stage' = Stage
    BY <1>1, <1>2 DEF Stage, Over
  <2> QED BY <1>1, <2>1 DEF Port!vars, Spoken, Stage
<1>3. CASE pc' \in {"raised", "cancelled"}
  <2>1. Stage \in {"open", "told"} /\ Stage' = "raised"
    BY <1>3, StageIs DEF Stage
  <2>2. Port!Raise
    BY <1>1, <2>1 DEF Port!Raise, Spoken, Stage
  <2> QED BY <2>2 DEF Port!Next
<1>4. CASE pc' = "returned" /\ NamedIn(events, "model_call_completed") # {}
  <2>1. Stage = "told" /\ Stage' = "returned"
    BY <1>4, StageIs DEF Stage
  <2>2. Port!Return
    BY <1>1, <2>1 DEF Port!Return, Spoken, Stage
  <2> QED BY <2>2 DEF Port!Next
<1> QED BY <1>2, <1>3, <1>4

LEMMA Speaks == ASSUME AdapterInv, YieldEvent PROVE [Port!Next]_Port!vars
<1>1. PICK e : e = Head(out)
  OBVIOUS
<1>2. /\ e \in Events /\ Follows(events, e) /\ events' = Append(events, e) /\ pc' = pc
      /\ pc \notin Over /\ events \in Seq(Events)
  BY <1>1, YieldKeeps DEF AdapterInv, AdapterTypes
<1>3. Spoken' = [type |-> e.type, id |-> e.id]
  BY <1>2, SpokenIs
<1>4. \A type : NamedIn(events', type)
                   = NamedIn(events, type) \cup IF e.type = type THEN {e.id} ELSE {}
  BY <1>2, NamedAppended
<1>5. NamedIn(events, "model_call_completed") = {}
  BY <1>2 DEF Follows
<1>6. Stage = "open"
  BY <1>2, <1>5, StageIs
<1>7. ASSUME e.type # "model_call_completed" PROVE Stage' = "open"
  <2>1. NamedIn(events', "model_call_completed") = {}
    BY <1>4, <1>5, <1>7
  <2>2. Named("model_call_completed")' = {}
    BY <2>1, NamedIs
  <2> QED BY <1>2, <2>2 DEF Stage, Over
<1>8. ASSUME e.type # "tool_call_started"
      PROVE  Named("tool_call_started")' = Named("tool_call_started")
  <2>1. NamedIn(events', "tool_call_started") = NamedIn(events, "tool_call_started")
    BY <1>4, <1>8
  <2> QED BY <2>1, NamedIs
<1>9. ASSUME e.type # "tool_call_completed"
      PROVE  Named("tool_call_completed")' = Named("tool_call_completed")
  <2>1. NamedIn(events', "tool_call_completed") = NamedIn(events, "tool_call_completed")
    BY <1>4, <1>9
  <2> QED BY <2>1, NamedIs
<1>10. NamedIn(events, "tool_call_started") \subseteq Ids(Blocks)
  <2>1. /\ out \in Seq(Events) /\ NamedIn(events \o out, "tool_call_started") = Ids(Begun)
        /\ Begun \subseteq Blocks
    <3>1. AdapterTypes /\ NamedIn(Line, "tool_call_started") = Ids(Begun)
      BY DEF AdapterInv, LineFits
    <3> QED BY <3>1, Numbers DEF AdapterTypes, Line
  <2>2. NamedIn(events, "tool_call_started") \subseteq NamedIn(events \o out, "tool_call_started")
    <3>1. PICK n, m, g : n = Len(events) /\ m = Len(out) /\ g = events \o out
      OBVIOUS
    <3>2. /\ n \in Nat /\ m \in Nat /\ g \in Seq(Events) /\ Len(g) = n + m
          /\ \A i \in 1 .. n : g[i] = events[i] /\ i \in 1 .. n + m
      BY <1>2, <2>1, <3>1
    <3>3. ASSUME NEW id \in NamedIn(events, "tool_call_started")
          PROVE  id \in NamedIn(g, "tool_call_started")
      <4>1. PICK i \in 1 .. n : events[i].type = "tool_call_started" /\ events[i].id = id
        BY <1>2, <3>1, NamedAre
      <4>2. i \in 1 .. Len(g) /\ g[i].type = "tool_call_started" /\ g[i].id = id
        BY <3>2, <4>1
      <4> QED BY <3>2, <4>2, NamedAre
    <3> QED BY <3>1, <3>3
  <2>3. Ids(Begun) \subseteq Ids(Blocks)
    BY <2>1 DEF Ids
  <2> QED BY <2>1, <2>2, <2>3
<1>11. CASE e.type \in {"text_delta", "reasoning_delta"} /\ e.id = NoId
  <2>1. /\ Stage' = "open"
        /\ UNCHANGED <<Named("tool_call_started"), Named("tool_call_completed")>>
    BY <1>7, <1>8, <1>9, <1>11
  <2>2. \E type \in {"text_delta", "reasoning_delta"} : Port!Say(type, NoId)
    BY <1>3, <1>11 DEF Port!Say, Spoken
  <2>3. Port!Text
    BY <1>6, <2>1, <2>2 DEF Port!Text, Stage
  <2> QED BY <2>3 DEF Port!Next
<1>12. CASE /\ e.type = "tool_call_started"
            /\ e.id \in Ids(Blocks) \ NamedIn(events, "tool_call_started")
  <2>1. /\ Stage' = "open"
        /\ UNCHANGED Named("tool_call_completed")
        /\ Named("tool_call_started")' = Named("tool_call_started") \cup {e.id}
        /\ e.id \notin Named("tool_call_started")
    BY <1>4, <1>7, <1>9, <1>12, NamedIs
  <2>2. Port!Say("tool_call_started", e.id)
    BY <1>3, <1>12 DEF Port!Say, Spoken
  <2>3. Port!Announce(e.id)
    BY <1>6, <2>1, <2>2 DEF Port!Announce, Stage
  <2> QED BY <1>12, <2>3 DEF Port!Next, Ids
<1>13. CASE /\ e.type = "tool_call_args_delta"
            /\ e.id \in NamedIn(events, "tool_call_started") \ NamedIn(events, "tool_call_completed")
  <2>1. /\ Stage' = "open"
        /\ UNCHANGED <<Named("tool_call_started"), Named("tool_call_completed")>>
        /\ e.id \in Named("tool_call_started") \ Named("tool_call_completed")
    BY <1>7, <1>8, <1>9, <1>13, NamedIs
  <2>2. Port!Say("tool_call_args_delta", e.id)
    BY <1>3, <1>13 DEF Port!Say, Spoken
  <2>3. Port!Arguments(e.id)
    BY <1>6, <2>1, <2>2 DEF Port!Arguments, Stage
  <2>4. e.id \in Ids(Blocks)
    BY <1>10, <1>13
  <2> QED BY <2>3, <2>4 DEF Port!Next, Ids
<1>14. CASE /\ e.type = "tool_call_completed"
            /\ e.id \in NamedIn(events, "tool_call_started") \ NamedIn(events, "tool_call_completed")
  <2>1. /\ Stage' = "open"
        /\ UNCHANGED Named("tool_call_started")
        /\ Named("tool_call_completed")' = Named("tool_call_completed") \cup {e.id}
        /\ e.id \in Named("tool_call_started") \ Named("tool_call_completed")
    BY <1>4, <1>7, <1>8, <1>14, NamedIs
  <2>2. Port!Say("tool_call_completed", e.id)
    BY <1>3, <1>14 DEF Port!Say, Spoken
  <2>3. Port!Complete(e.id)
    BY <1>6, <2>1, <2>2 DEF Port!Complete, Stage
  <2>4. e.id \in Ids(Blocks)
    BY <1>10, <1>14
  <2> QED BY <2>3, <2>4 DEF Port!Next, Ids
<1>15. CASE e.type = "model_call_completed" /\ e.id = NoId
  <2>1. UNCHANGED <<Named("tool_call_started"), Named("tool_call_completed")>>
    BY <1>8, <1>9, <1>15
  <2>2. Stage' = "told"
    <3>1. NamedIn(events', "model_call_completed") # {}
      BY <1>4, <1>15
    <3>2. Named("model_call_completed")' # {}
      BY <3>1, NamedIs
    <3> QED BY <1>2, <3>2 DEF Stage, Over
  <2>3. Port!Say("model_call_completed", NoId)
    BY <1>3, <1>15 DEF Port!Say, Spoken
  <2>4. Port!Tell
    BY <1>6, <2>1, <2>2, <2>3 DEF Port!Tell, Stage
  <2> QED BY <2>4 DEF Port!Next
<1> QED BY <1>2, <1>11, <1>12, <1>13, <1>14, <1>15 DEF Follows

\* Callers of ModelPort.stream see, through every adapter, a call announced
\* before it is spoken of and completed once, and a last event before a normal
\* return: adapters/anthropic_messages.py, openai_responses.py and
\* openai_chat_completions.py implement ModelStream.
THEOREM AdaptersKeepPromise == ReplaySpec => ModelStreamSpec
<1>1. ASSUME ReplayInit PROVE Port!Init
  <2>1. events = <<>> /\ pc = "create"
    BY <1>1 DEF ReplayInit, AdapterInit
  <2>2. \A type : Named(type) = {}
    BY <2>1, NamedNone, NamedIs
  <2>3. Stage = "open" /\ Spoken = NoEvent
    BY <2>1, <2>2 DEF Stage, Spoken
  <2> QED BY <2>2, <2>3 DEF Port!Init, Stage, Spoken
<1>2. ASSUME AdapterInv, [ReplayNext]_replayingVars PROVE [Port!Next]_Port!vars
  <2>1. AdapterTypes /\ LineFits
    BY <1>2 DEF AdapterInv
  <2>2. CASE Record
    <3>1. CASE Create \/ Receive \/ StreamEnds \/ StreamBreaks \/ Conclude \/ Reraise \/ Cancel
      <4>1. events' = events /\ pc \notin Over /\ (pc' \notin Over \/ pc' \in {"raised", "cancelled"})
        BY <3>1 DEF Create, Receive, StreamEnds, StreamBreaks, Conclude, Reraise, Cancel, Over
      <4> QED BY <4>1, MovesQuietly
    <3>2. CASE Return
      <4>1. events' = events /\ pc = "told" /\ pc' = "returned" /\ out = <<>>
        BY <3>2 DEF Return
      <4>2. Line = events
        BY <2>1, <4>1 DEF AdapterTypes, Line
      <4>3. NamedIn(events, "model_call_completed") # {}
        BY <2>1, <4>1, <4>2 DEF LineFits
      <4> QED BY <4>1, <4>3, MovesQuietly DEF Over
    <3>3. CASE YieldEvent
      BY <1>2, <3>3, Speaks
    <3> QED BY <2>2, <3>1, <3>2, <3>3 DEF Record, Step
  <2>3. CASE NextTurn
    <3>1. pc = "returned" /\ pc' = "create" /\ events' = <<>>
      BY <2>3 DEF NextTurn, Again
    <3>2. Named("tool_call_started")' = {} /\ Named("tool_call_completed")' = {}
          /\ Named("model_call_completed")' = {}
      BY <3>1, NamedNone, NamedIs
    <3>3. Spoken' = NoEvent
      BY <3>1 DEF Spoken
    <3>4. Stage = "returned"
      BY <3>1 DEF Stage
    <3>5. Stage' = "open"
      BY <3>1, <3>2 DEF Stage
    <3>6. Port!Again
      BY <3>2, <3>3, <3>4, <3>5 DEF Port!Again, Spoken, Stage
    <3> QED BY <3>6 DEF Port!Next
  <2>4. CASE UNCHANGED adapterVars
    <3>1. UNCHANGED <<Spoken, Stage, Named("tool_call_started"), Named("tool_call_completed")>>
      BY <2>4 DEF adapterVars, Spoken, Stage, Named
    <3> QED BY <3>1 DEF Port!vars, Spoken, Stage
  <2> QED BY <1>2, <2>2, <2>3, <2>4 DEF ReplayNext, Load, Ask, replayingVars
<1> QED BY <1>1, <1>2, AdapterInvariant, PTL DEF ReplaySpec, ModelStreamSpec, Port!Spec

-----------------------------------------------------------------------------
(* The file of a recording *)

LEMMA BlockReturns ==
    ASSUME NEW b \in Block, NEW raw,
           raw = [type |-> BlockType[b.kind], id |-> b.id, data |-> b.parts]
    PROVE  MessageBlock(BlockKind[raw.type], raw.id, raw.data) = b
<1>1. b = [kind |-> b.kind, id |-> b.id, parts |-> b.parts] /\ b.kind \in Kinds
  BY DEF Block
<1>2. /\ DOMAIN BlockType = Kinds
      /\ BlockType["text"] = "text" /\ BlockType["tool"] = "tool_call"
      /\ BlockType["reasoning"] = "opaque"
  BY DEF BlockType, Kinds
<1>3. \A k, l \in Kinds : BlockType[k] = BlockType[l] => k = l
  BY <1>2 DEF Kinds
<1>4. BlockType[b.kind] \in Range(BlockType)
  BY <1>1, <1>2 DEF Range
<1>5. BlockKind[BlockType[b.kind]] = b.kind
  <2>1. BlockKind[BlockType[b.kind]]
           = CHOOSE kind \in Kinds : BlockType[kind] = BlockType[b.kind]
    BY <1>4 DEF BlockKind
  <2> QED BY <1>1, <1>3, <2>1
<1>6. raw.type = BlockType[b.kind] /\ raw.id = b.id /\ raw.data = b.parts
  OBVIOUS
<1> QED BY <1>1, <1>5, <1>6 DEF MessageBlock

LEMMA MessageReturns ==
    ASSUME NEW m \in Seq(Block)
    PROVE  MessageFromDict(MessageToDict(m)) = m
<1>1. PICK n \in Nat : n = Len(m)
  OBVIOUS
<1>2. DOMAIN m = 1 .. n /\ \A j \in 1 .. n : m[j] \in Block
  BY <1>1
<1>3. PICK r : r = MessageToDict(m)
  OBVIOUS
<1>4. r = [j \in 1 .. n |->
             [type |-> BlockType[m[j].kind], id |-> m[j].id, data |-> m[j].parts]]
  BY <1>2, <1>3 DEF MessageToDict
<1>5. DOMAIN r = 1 .. n /\ \A j \in 1 .. n :
         r[j] = [type |-> BlockType[m[j].kind], id |-> m[j].id, data |-> m[j].parts]
  BY <1>4
<1>6. \A j \in 1 .. n : MessageBlock(BlockKind[r[j].type], r[j].id, r[j].data) = m[j]
  BY <1>2, <1>5, BlockReturns
<1>7. MessageFromDict(r)
         = [j \in 1 .. n |-> MessageBlock(BlockKind[r[j].type], r[j].id, r[j].data)]
  BY <1>5 DEF MessageFromDict
<1>8. m = [j \in 1 .. n |-> m[j]]
  BY <1>1
<1> QED BY <1>3, <1>6, <1>7, <1>8

\* What is written is read back, and accepted.
LEMMA EventReturns ==
    ASSUME NEW e \in Events
    PROVE  EventFromDict(EventToDict(e)) = e /\ Decodes(EventToDict(e))
<1>1. PICK r : r = EventToDict(e)
  OBVIOUS
<1>2. CASE e \in Deltas
  <2>1. /\ e = [type |-> e.type, id |-> e.id, part |-> e.part]
        /\ e.type \in {"text_delta", "reasoning_delta", "tool_call_started",
                       "tool_call_args_delta", "tool_call_completed"}
        /\ e.type \in {"text_delta", "reasoning_delta"} => e.id = NoId
        /\ e.type \in {"tool_call_started", "tool_call_completed"} => e.part = NoPart
    BY <1>2 DEF Deltas
  <2>2. CASE e.type \in {"text_delta", "reasoning_delta"}
    <3>1. r = [type |-> e.type, text |-> e.part]
      BY <1>1, <2>2 DEF EventToDict
    <3>2. EventFromDict(r) = Delta(e.type, NoId, e.part)
      BY <2>2, <3>1 DEF EventFromDict
    <3> QED BY <1>1, <2>1, <2>2, <3>1, <3>2 DEF Delta, Decodes
  <2>3. CASE e.type \in {"tool_call_started", "tool_call_completed"}
    <3>1. r = [type |-> e.type, id |-> e.id]
      BY <1>1, <2>3 DEF EventToDict
    <3>2. EventFromDict(r) = Delta(e.type, e.id, NoPart)
      BY <2>3, <3>1 DEF EventFromDict
    <3> QED BY <1>1, <2>1, <2>3, <3>1, <3>2 DEF Delta, Decodes
  <2>4. CASE e.type = "tool_call_args_delta"
    <3>1. r = [type |-> e.type, id |-> e.id, args_delta |-> e.part]
      BY <1>1, <2>4 DEF EventToDict
    <3>2. EventFromDict(r) = Delta(e.type, e.id, e.part)
      BY <2>4, <3>1 DEF EventFromDict
    <3> QED BY <1>1, <2>1, <2>4, <3>1, <3>2 DEF Delta, Decodes
  <2> QED BY <2>1, <2>2, <2>3, <2>4
<1>3. CASE e \in Terminals
  <2>1. /\ e = [type |-> "model_call_completed", id |-> NoId, part |-> NoPart,
                message |-> e.message, usage |-> e.usage, stop |-> e.stop]
        /\ e.type = "model_call_completed"
        /\ e.message \in Seq(Block) /\ e.usage \in Usages
    BY <1>3 DEF Terminals
  <2>2. r = [type |-> "model_call_completed", message |-> MessageToDict(e.message),
             usage |-> e.usage, stop_reason |-> e.stop]
    BY <1>1, <2>1 DEF EventToDict
  <2>3. EventFromDict(r) = [type |-> "model_call_completed", id |-> NoId, part |-> NoPart,
                            message |-> MessageFromDict(MessageToDict(e.message)),
                            usage |-> e.usage, stop |-> e.stop]
    BY <2>2 DEF EventFromDict
  <2>4. EventFromDict(r) = e
    BY <2>1, <2>3, MessageReturns
  <2>5. Decodes(r)
    <3>1. r.usage = e.usage
      BY <2>2
    <3>2. /\ e.usage.state \in {"complete", "partial", "unavailable"}
          /\ e.usage.state = "complete" => e.usage.input
      BY <2>1 DEF Usages
    <3> QED BY <3>1, <3>2 DEF Decodes
  <2> QED BY <1>1, <2>4, <2>5
<1> QED BY <1>2, <1>3 DEF Events

Turns == [request : Nat, events : Seq(Events), failed : BOOLEAN]

LEMMA TurnReturns ==
    ASSUME NEW t \in Turns
    PROVE  /\ TurnFromDict(TurnToDict(t)) = t
           /\ \A raw \in Range(TurnToDict(t).events) : Decodes(raw)
<1>1. t = [request |-> t.request, events |-> t.events, failed |-> t.failed] /\ t.failed \in BOOLEAN
  BY DEF Turns
<1>2. PICK s, n, r : s = t.events /\ n = Len(s) /\ r = [j \in 1 .. n |-> EventToDict(s[j])]
  OBVIOUS
<1>3. s \in Seq(Events) /\ n \in Nat /\ DOMAIN s = 1 .. n /\ \A j \in 1 .. n : s[j] \in Events
  <2>1. s \in Seq(Events)
    BY <1>2 DEF Turns
  <2> QED BY <1>2, <2>1
<1>4. PICK d : d = TurnToDict(t)
  OBVIOUS
<1>5. d = IF t.failed THEN [request |-> t.request, events |-> r, error |-> TRUE]
          ELSE [request |-> t.request, events |-> r]
  BY <1>2, <1>3, <1>4 DEF TurnToDict
<1>6. d.request = t.request /\ d.events = r /\ ("error" \in DOMAIN d <=> t.failed)
  BY <1>5
<1>7. DOMAIN r = 1 .. n /\ \A j \in 1 .. n : r[j] = EventToDict(s[j])
  BY <1>2
<1>8. \A j \in 1 .. n : EventFromDict(r[j]) = s[j] /\ Decodes(r[j])
  BY <1>3, <1>7, EventReturns
<1>9. [j \in DOMAIN r |-> EventFromDict(r[j])] = s
  <2>1. s = [j \in 1 .. n |-> s[j]]
    BY <1>2, <1>3
  <2> QED BY <1>7, <1>8, <2>1
<1>10. TurnFromDict(d) = t
  <2>1. CASE t.failed
    <3>1. ("error" \in DOMAIN d) = TRUE /\ t.failed = TRUE
      BY <1>1, <1>6, <2>1, Zenon
    <3>2. TurnFromDict(d) = Heard(t.request, s, TRUE)
      BY <1>6, <1>9, <3>1, Zenon DEF TurnFromDict
    <3> QED BY <1>1, <1>2, <3>1, <3>2 DEF Heard
  <2>2. CASE ~t.failed
    <3>1. ("error" \in DOMAIN d) = FALSE
      BY <1>6, <2>2
    <3>2. t.failed = FALSE
      BY <1>1, <2>2
    <3>3. TurnFromDict(d) = Heard(t.request, s, FALSE)
      BY <1>6, <1>9, <3>1, Zenon DEF TurnFromDict
    <3> QED BY <1>1, <1>2, <3>2, <3>3 DEF Heard
  <2> QED BY <2>1, <2>2
<1>11. \A raw \in Range(r) : Decodes(raw)
  BY <1>7, <1>8 DEF Range
<1> QED BY <1>4, <1>6, <1>10, <1>11

-----------------------------------------------------------------------------
(* The inductive invariant of a recording *)

ReplayTypes ==
    /\ turns \in Seq(Turns) /\ seen \in Seq(Turns) /\ heard \in Seq(Turns)
    /\ cursor \in Nat

\* The recording holds what the consumers got, and one turn more if the run was
\* cancelled.
RecordFits ==
    /\ \A j \in 1 .. Len(turns) : turns[j].request = j
    /\ Len(turns) \in {Len(seen), Len(seen) + 1}
    /\ Len(turns) > Len(seen) => pc = "cancelled" /\ turns[Len(turns)].failed
    /\ \A j \in 1 .. Len(seen) : turns[j] = seen[j]

\* The first n replayed calls asked what the recorded run asked.
InStep(n) == \A i \in 1 .. n : heard[i].request = i

HeardFits ==
    /\ cursor = 0 => heard = <<>>
    /\ cursor > 0 => pc \in Over
    /\ \A j \in 1 .. Len(heard) : heard[j].failed \/ \E i \in 1 .. Len(turns) : heard[j] = turns[i]
    /\ \A j \in 1 .. Len(heard) : j <= Len(turns) /\ InStep(j) => heard[j] = turns[j]
    /\ cursor > 0 /\ Len(heard) <= Len(turns) /\ InStep(Len(heard)) => cursor = Len(heard) + 1

RecordingInv == AdapterInv /\ ReplayTypes /\ RecordFits /\ HeardFits

LEMMA HeardIs ==
    ASSUME NEW n \in Nat, NEW s \in Seq(Events)
    PROVE  /\ Heard(n, s, TRUE) \in Turns /\ Heard(n, s, FALSE) \in Turns
           /\ Heard(n, s, TRUE).request = n /\ Heard(n, s, FALSE).request = n
           /\ Heard(n, s, TRUE).failed
  BY DEF Heard, Turns

\* The end of a call adds the same turn to the recording and to what was seen.
LEMMA RecordKeeps ==
    ASSUME AdapterInv, AdapterInv', ReplayTypes, RecordFits, HeardFits, Record
    PROVE  ReplayTypes' /\ RecordFits' /\ HeardFits'
<1>1. /\ pc \notin Over
      /\ pc' = "returned" => pc = "told" /\ out' = <<>>
      /\ pc' \in Over => pc' \in {"returned", "raised", "cancelled"}
      /\ cursor' = cursor /\ heard' = heard
  <2>1. CASE Step
    BY <2>1 DEF Step, Create, Receive, YieldEvent, StreamEnds, StreamBreaks, Conclude, Over, Record
  <2>2. CASE Return \/ Reraise \/ Cancel
    BY <2>2 DEF Return, Reraise, Cancel, Over, Record
  <2> QED BY <2>1, <2>2 DEF Record
<1>2. cursor = 0 /\ heard = <<>>
  BY <1>1 DEF HeardFits, ReplayTypes
<1>3. Len(turns) = Len(seen)
  BY <1>1 DEF RecordFits, ReplayTypes, Over
<1>4. HeardFits'
  <2>1. Len(<<>>) = 0 /\ heard' = <<>> /\ cursor' = 0
    BY <1>1, <1>2
  <2> QED BY <2>1 DEF HeardFits
<1>5. CASE pc' \notin Over
  <2>1. turns' = turns /\ seen' = seen
    BY <1>5 DEF Record
  <2> QED BY <1>1, <1>3, <1>4, <2>1 DEF ReplayTypes, RecordFits
<1>6. CASE pc' \in Over
  <2>1. PICK n : n = Len(turns)
    OBVIOUS
  <2>2. n \in Nat /\ n = Len(seen) /\ events' \in Seq(Events)
    BY <1>3, <2>1 DEF ReplayTypes, AdapterInv, AdapterTypes
  <2>3. /\ turns' = Recorded
        /\ seen' = IF pc' = "cancelled" THEN seen
                   ELSE Append(seen, Heard(Len(seen) + 1, events', pc' = "raised"))
    BY <1>6 DEF Record
  <2>4. PICK t : t = Heard(n + 1, events', IF pc' = "returned" THEN FALSE ELSE TRUE)
    OBVIOUS
  <2>5. t \in Turns /\ t.request = n + 1 /\ (pc' # "returned" => t.failed)
    <3>1. n + 1 \in Nat
      BY <2>2
    <3>2. CASE pc' = "returned"
      <4>1. t = Heard(n + 1, events', FALSE)
        BY <2>4, <3>2
      <4> QED BY <2>2, <3>1, <3>2, <4>1, HeardIs
    <3>3. CASE pc' # "returned"
      <4>1. t = Heard(n + 1, events', TRUE)
        BY <2>4, <3>3
      <4> QED BY <2>2, <3>1, <4>1, HeardIs
    <3> QED BY <3>2, <3>3
  <2>6. turns' = Append(turns, t)
    <3>1. CASE pc' = "returned"
      <4>1. events' \in Seq(Events) /\ Line' = events'
        BY <1>1, <2>2, <3>1 DEF Line
      <4>2. NamedIn(events', "model_call_completed") # {}
        BY <3>1, <4>1 DEF AdapterInv, LineFits
      <4>3. \E e \in Range(events') : e.type = "model_call_completed"
        BY <4>2 DEF NamedIn
      <4>4. (\/ pc' # "returned"
             \/ \A e \in Range(events') : e.type # "model_call_completed") = FALSE
        BY <3>1, <4>3, Zenon
      <4>5. Recorded = Append(turns, Heard(Len(turns) + 1, events', FALSE))
        BY <4>4, Zenon DEF Recorded
      <4>6. t = Heard(n + 1, events', FALSE)
        BY <2>4, <3>1
      <4> QED BY <2>1, <2>3, <4>5, <4>6
    <3>2. CASE pc' # "returned"
      <4>1. (\/ pc' # "returned"
             \/ \A e \in Range(events') : e.type # "model_call_completed") = TRUE
        BY <3>2, Zenon
      <4>2. Recorded = Append(turns, Heard(Len(turns) + 1, events', TRUE))
        BY <4>1, Zenon DEF Recorded
      <4>3. t = Heard(n + 1, events', TRUE)
        BY <2>4, <3>2
      <4> QED BY <2>1, <2>3, <4>2, <4>3
    <3> QED BY <3>1, <3>2
  <2>7. pc' # "cancelled" => seen' = Append(seen, t)
    <3>1. CASE pc' = "returned"
      <4>1. (pc' = "raised") = FALSE
        BY <3>1
      <4>2. seen' = Append(seen, Heard(Len(seen) + 1, events', FALSE))
        BY <2>3, <3>1, <4>1
      <4>3. t = Heard(n + 1, events', FALSE)
        BY <2>4, <3>1
      <4> QED BY <2>2, <4>2, <4>3
    <3>2. CASE pc' = "raised"
      <4>1. (pc' = "raised") = TRUE
        BY <3>2
      <4>2. seen' = Append(seen, Heard(Len(seen) + 1, events', TRUE))
        BY <2>3, <3>2, <4>1
      <4>3. t = Heard(n + 1, events', TRUE)
        BY <2>4, <3>2
      <4> QED BY <2>2, <4>2, <4>3
    <3> QED BY <1>1, <1>6, <3>1, <3>2
  <2>8. pc' = "cancelled" => seen' = seen
    BY <2>3
  <2>9. /\ turns \in Seq(Turns) /\ seen \in Seq(Turns)
        /\ \A j \in 1 .. n : turns[j].request = j /\ turns[j] = seen[j]
    BY <2>1, <2>2 DEF ReplayTypes, RecordFits
  <2>10. /\ turns' \in Seq(Turns) /\ Len(turns') = n + 1 /\ turns'[n + 1] = t
         /\ \A j \in 1 .. n : turns'[j] = turns[j]
    BY <2>1, <2>5, <2>6, <2>9
  <2>11. CASE pc' = "cancelled"
    <3>1. ReplayTypes'
      BY <1>1, <2>8, <2>10, <2>11 DEF ReplayTypes
    <3>2. RecordFits'
      BY <2>2, <2>5, <2>8, <2>9, <2>10, <2>11 DEF RecordFits
    <3> QED BY <1>4, <3>1, <3>2
  <2>12. CASE pc' # "cancelled"
    <3>1. /\ seen' \in Seq(Turns) /\ Len(seen') = n + 1 /\ seen'[n + 1] = t
          /\ \A j \in 1 .. n : seen'[j] = seen[j]
      <4>1. seen' = Append(seen, t)
        BY <2>7, <2>12
      <4>2. t \in Turns /\ seen \in Seq(Turns) /\ n = Len(seen)
        BY <2>2, <2>5, <2>9
      <4> QED BY <4>1, <4>2
    <3>2. ReplayTypes'
      BY <1>1, <2>10, <3>1 DEF ReplayTypes
    <3>3. /\ \A j \in 1 .. n + 1 : turns'[j] = seen'[j]
          /\ \A j \in 1 .. n + 1 : turns'[j].request = j
      <4>1. 1 .. n + 1 = 1 .. n \cup {n + 1}
        BY <2>2
      <4> QED BY <2>5, <2>9, <2>10, <3>1, <4>1
    <3>4. RecordFits'
      BY <2>2, <2>10, <3>1, <3>3 DEF RecordFits
    <3> QED BY <1>4, <3>2, <3>4
  <2> QED BY <2>11, <2>12
<1> QED BY <1>5, <1>6

\* A recording is loaded as it was saved.
LEMMA LoadReturns ==
    ASSUME ReplayTypes
    PROVE  /\ [j \in DOMAIN Saved |-> TurnFromDict(Saved[j])] = turns
           /\ Loadable
<1>1. PICK n \in Nat : n = Len(turns)
  BY DEF ReplayTypes
<1>2. /\ DOMAIN turns = 1 .. n /\ turns = [j \in 1 .. n |-> turns[j]]
      /\ \A j \in 1 .. n : turns[j] \in Turns
  BY <1>1 DEF ReplayTypes
<1>3. Saved = [j \in 1 .. n |-> TurnToDict(turns[j])]
  BY <1>2 DEF Saved
<1>4. DOMAIN Saved = 1 .. n /\ \A j \in 1 .. n : Saved[j] = TurnToDict(turns[j])
  BY <1>3
<1>5. \A j \in 1 .. n : TurnFromDict(Saved[j]) = turns[j]
  BY <1>2, <1>4, TurnReturns
<1>6. [j \in DOMAIN Saved |-> TurnFromDict(Saved[j])] = turns
  BY <1>2, <1>4, <1>5
<1>7. ASSUME NEW j \in DOMAIN Saved, NEW raw \in Range(Saved[j].events) PROVE Decodes(raw)
  <2>1. turns[j] \in Turns /\ raw \in Range(TurnToDict(turns[j]).events)
    BY <1>2, <1>4, <1>7
  <2> QED BY <2>1, TurnReturns
<1> QED BY <1>6, <1>7 DEF Loadable

LEMMA AskKeeps ==
    ASSUME AdapterInv, ReplayTypes, RecordFits, HeardFits,
           NEW request \in 1 .. MaxTurns + 1, Ask(request)
    PROVE  ReplayTypes' /\ RecordFits' /\ HeardFits'
<1>1. PICK n, l : n = Len(turns) /\ l = Len(heard)
  OBVIOUS
<1>2. /\ n \in Nat /\ l \in Nat /\ turns \in Seq(Turns) /\ heard \in Seq(Turns)
      /\ seen \in Seq(Turns) /\ cursor \in Nat /\ cursor >= 1
      /\ UNCHANGED <<turns, seen, pc>>
  BY <1>1 DEF ReplayTypes, Ask, adapterVars
<1>3. request \in Nat
  BY RecordingAssumption
<1>4. RecordFits'
  BY <1>2 DEF RecordFits
<1>5. PICK t : t = IF Takes(request) THEN turns[cursor] ELSE Heard(request, <<>>, TRUE)
  OBVIOUS
<1>6. Takes(request) => cursor \in 1 .. n /\ t = turns[cursor] /\ request = cursor
  BY <1>1, <1>2, <1>5 DEF Takes, RecordFits
<1>7. ~Takes(request) => cursor > n \/ request # cursor
  <2>1. \A j \in 1 .. n : turns[j].request = j
    BY <1>1 DEF RecordFits
  <2> QED BY <1>1, <1>2, <2>1 DEF Takes
<1>8. t \in Turns /\ t.request = request /\ (~Takes(request) => t.failed)
  <2>1. CASE Takes(request)
    BY <1>1, <1>2, <1>5, <2>1 DEF Takes
  <2>2. CASE ~Takes(request)
    <3>1. t = Heard(request, <<>>, TRUE) /\ <<>> \in Seq(Events)
      BY <1>5, <2>2
    <3> QED BY <1>3, <3>1, HeardIs
  <2> QED BY <2>1, <2>2
<1>9. heard' = Append(heard, t) /\ cursor' = IF Takes(request) THEN cursor + 1 ELSE cursor
  <2>1. CASE Takes(request)
    <3>1. turns[cursor] \in Turns /\ turns[cursor].request = request
      BY <1>1, <1>2, <1>6, <2>1 DEF Takes
    <3>2. PICK u : u = turns[cursor]
      OBVIOUS
    <3>3. u = [request |-> request, events |-> u.events, failed |-> u.failed]
      BY <3>1, <3>2 DEF Turns
    <3>4. Heard(request, turns[cursor].events, turns[cursor].failed) = u
      BY <3>2, <3>3, Zenon DEF Heard
    <3>5. /\ heard' = Append(heard, Heard(request, turns[cursor].events, turns[cursor].failed))
          /\ cursor' = cursor + 1
      BY <2>1 DEF Ask
    <3> QED BY <1>5, <2>1, <3>2, <3>4, <3>5
  <2>2. CASE ~Takes(request)
    <3>1. heard' = Append(heard, Heard(request, <<>>, TRUE)) /\ cursor' = cursor
      BY <2>2, Zenon DEF Ask
    <3> QED BY <1>5, <2>2, <3>1
  <2> QED BY <2>1, <2>2
<1>10. /\ heard' \in Seq(Turns) /\ Len(heard') = l + 1 /\ heard'[l + 1] = t
       /\ \A j \in 1 .. l : heard'[j] = heard[j]
  BY <1>1, <1>2, <1>8, <1>9
<1>11. ReplayTypes'
  BY <1>2, <1>9, <1>10 DEF ReplayTypes
<1>12. \A j \in 1 .. l : InStep(j)' <=> InStep(j)
  <2>1. ASSUME NEW j \in 1 .. l PROVE InStep(j)' <=> InStep(j)
    <3>1. \A i \in 1 .. j : heard'[i] = heard[i]
      BY <1>2, <1>10, <2>1
    <3> QED BY <3>1 DEF InStep
  <2> QED BY <2>1
<1>13. InStep(l + 1)' => InStep(l) /\ request = l + 1
  <2>1. \A i \in 1 .. l : i \in 1 .. l + 1 /\ heard'[i] = heard[i]
    BY <1>2, <1>10
  <2>2. l + 1 \in 1 .. l + 1
    BY <1>2
  <2> QED BY <1>8, <1>10, <2>1, <2>2 DEF InStep
<1>14. ASSUME InStep(l + 1)', l + 1 <= n
       PROVE  Takes(request) /\ cursor = l + 1 /\ t = turns[l + 1]
  <2>1. cursor = l + 1
    BY <1>1, <1>2, <1>13, <1>14 DEF HeardFits
  <2>2. Takes(request)
    BY <1>2, <1>7, <1>13, <1>14, <2>1
  <2> QED BY <1>6, <2>1, <2>2
<1>15. ASSUME NEW j \in 1 .. l + 1
       PROVE  /\ heard'[j].failed \/ \E i \in 1 .. n : heard'[j] = turns[i]
              /\ j <= n /\ InStep(j)' => heard'[j] = turns[j]
  <2>1. CASE j \in 1 .. l
    <3>1. /\ heard[j].failed \/ \E i \in 1 .. n : heard[j] = turns[i]
          /\ j <= n /\ InStep(j) => heard[j] = turns[j]
      BY <1>1, <2>1 DEF HeardFits
    <3> QED BY <1>10, <1>12, <2>1, <3>1
  <2>2. CASE j = l + 1
    <3>1. t.failed \/ \E i \in 1 .. n : t = turns[i]
      BY <1>6, <1>8
    <3>2. heard'[j] = t
      BY <1>10, <2>2
    <3> QED BY <1>14, <2>2, <3>1, <3>2
  <2> QED BY <1>2, <2>1, <2>2
<1>16. l + 1 <= n /\ InStep(l + 1)' => cursor' = (l + 1) + 1
  BY <1>2, <1>9, <1>14
<1>17. cursor' > 0 /\ pc' \in Over
  BY <1>2, <1>9 DEF HeardFits
<1>18. turns' = turns /\ Len(turns') = n
  BY <1>1, <1>2
<1>19. HeardFits'
  <2>1. \A j \in 1 .. Len(heard') :
           /\ heard'[j].failed \/ \E i \in 1 .. Len(turns') : heard'[j] = turns'[i]
           /\ j <= Len(turns') /\ InStep(j)' => heard'[j] = turns'[j]
    BY <1>10, <1>15, <1>18
  <2>2. cursor' # 0
    BY <1>2, <1>9
  <2>3. Len(heard') <= Len(turns') /\ InStep(Len(heard))' => cursor' = Len(heard') + 1
    <3>1. InStep(Len(heard))' <=> InStep(l + 1)'
      BY <1>10 DEF InStep
    <3> QED BY <1>10, <1>16, <1>18, <3>1
  <2> QED BY <1>17, <2>1, <2>2, <2>3 DEF HeardFits
<1> QED BY <1>4, <1>11, <1>19

\* RecordingInv is inductive.
THEOREM RecordingInvariant == ReplaySpec => []RecordingInv
<1>1. ReplayInit => ReplayTypes /\ RecordFits /\ HeardFits
  <2>1. Len(<<>>) = 0 /\ <<>> \in Seq(Turns)
    OBVIOUS
  <2> QED BY <2>1 DEF ReplayInit, ReplayTypes, RecordFits, HeardFits
<1>2. ASSUME AdapterInv, AdapterInv', ReplayTypes, RecordFits, HeardFits,
             [ReplayNext]_replayingVars
      PROVE  ReplayTypes' /\ RecordFits' /\ HeardFits'
  <2>1. CASE Record
    BY <1>2, <2>1, RecordKeeps
  <2>2. CASE NextTurn
    <3>1. /\ cursor = 0 /\ heard = <<>> /\ pc = "returned"
          /\ UNCHANGED <<turns, seen, cursor, heard>>
      BY <1>2, <2>2 DEF NextTurn, Again, HeardFits, replayVars
    <3>2. ReplayTypes' /\ RecordFits'
      BY <1>2, <3>1 DEF ReplayTypes, RecordFits
    <3>3. Len(<<>>) = 0
      OBVIOUS
    <3>4. HeardFits'
      BY <3>1, <3>3 DEF HeardFits
    <3> QED BY <3>2, <3>4
  <2>3. CASE Load
    <3>1. /\ cursor = 0 /\ heard = <<>> /\ pc \in Over /\ cursor' = 1
          /\ UNCHANGED <<seen, heard, pc>>
      BY <1>2, <2>3 DEF Load, HeardFits, adapterVars
    <3>2. turns' = turns
      BY <1>2, <2>3, LoadReturns DEF Load
    <3>3. ReplayTypes' /\ RecordFits'
      BY <1>2, <3>1, <3>2 DEF ReplayTypes, RecordFits
    <3>4. Len(<<>>) = 0 /\ heard' = <<>>
      BY <3>1
    <3>5. HeardFits'
      BY <3>1, <3>4 DEF HeardFits
    <3> QED BY <3>3, <3>5
  <2>4. CASE \E request \in 1 .. MaxTurns + 1 : Ask(request)
    <3>1. PICK request \in 1 .. MaxTurns + 1 : Ask(request)
      BY <2>4
    <3> QED BY <1>2, <3>1, AskKeeps
  <2>5. CASE UNCHANGED replayingVars
    <3>1. UNCHANGED <<turns, seen, cursor, heard, pc>>
      BY <2>5 DEF replayingVars, replayVars, adapterVars
    <3> QED BY <1>2, <3>1 DEF ReplayTypes, RecordFits, HeardFits, InStep
  <2> QED BY <1>2, <2>1, <2>2, <2>3, <2>4, <2>5 DEF ReplayNext
<1> QED BY <1>1, <1>2, AdapterInvariant, PTL DEF ReplaySpec, RecordingInv

\* A recording of llm/replay.py always loads, and a replayed call fails or
\* hears what the recorded run heard, to the event and the failure.
THEOREM RecordingReplays == ReplaySpec => []ReplayRepeats
<1>1. RecordingInv => ReplayRepeats
  <2> SUFFICES ASSUME RecordingInv PROVE ReplayRepeats
    OBVIOUS
  <2>1. ReplayTypes /\ RecordFits /\ HeardFits
    BY DEF RecordingInv
  <2>2. Loadable
    BY <2>1, LoadReturns
  <2>3. PICK n, s, l : n = Len(turns) /\ s = Len(seen) /\ l = Len(heard)
    OBVIOUS
  <2>4. /\ n \in Nat /\ s \in Nat /\ l \in Nat /\ DOMAIN heard = 1 .. l /\ DOMAIN seen = 1 .. s
    BY <2>1, <2>3 DEF ReplayTypes
  <2>5. /\ n \in {s, s + 1}
        /\ n > s => turns[n].failed
        /\ \A j \in 1 .. s : turns[j] = seen[j]
    BY <2>1, <2>3 DEF RecordFits
  <2>6. ASSUME NEW j \in DOMAIN heard
        PROVE  /\ heard[j] \in Range(seen) \/ heard[j].failed
               /\ (\A i \in 1 .. j : heard[i].request = i) /\ j <= Len(seen) => heard[j] = seen[j]
    <3>1. j \in 1 .. l
      BY <2>4
    <3>2. heard[j].failed \/ \E i \in 1 .. n : heard[j] = turns[i]
      BY <2>1, <2>3, <3>1 DEF HeardFits
    <3>3. j <= n /\ (\A i \in 1 .. j : heard[i].request = i) => heard[j] = turns[j]
      BY <2>1, <2>3, <3>1 DEF HeardFits, InStep
    <3>4. ASSUME NEW i \in 1 .. n, heard[j] = turns[i]
          PROVE  heard[j] \in Range(seen) \/ heard[j].failed
      <4>1. CASE i \in 1 .. s
        BY <2>4, <2>5, <3>4, <4>1 DEF Range
      <4>2. CASE i \notin 1 .. s
        <5>1. i = n /\ n > s
          BY <2>4, <2>5, <4>2
        <5> QED BY <2>5, <3>4, <5>1
      <4> QED BY <4>1, <4>2
    <3>5. ASSUME j <= s, \A i \in 1 .. j : heard[i].request = i
          PROVE  heard[j] = seen[j]
      <4>1. j <= n /\ j \in 1 .. s
        BY <2>4, <2>5, <3>1, <3>5
      <4> QED BY <2>5, <3>3, <3>5, <4>1
    <3> QED BY <2>3, <3>2, <3>4, <3>5
  <2> QED BY <2>2, <2>6 DEF ReplayRepeats
<1> QED BY <1>1, RecordingInvariant, PTL

-----------------------------------------------------------------------------
(* What the terminal event tells *)

CallsOf(message) == {b.id : b \in {x \in Range(message) : x.kind = "tool"}}

\* The accumulator has the kinds of the blocks, a Responses answer once it is whole.
KindsFit ==
    /\ \A k \in DOMAIN acc.blocks : acc.blocks[k].kind = "tool" <=> k \in Begun
    /\ Responses /\ ~vendor.finished => acc.final = <<>>
    /\ Responses /\ vendor.finished =>
          /\ Len(acc.final) = Current
          /\ \A k \in 1 .. Current : acc.final[k].kind = "tool" <=> k \in Begun

\* It counts what the vendor has told.
UsageFits ==
    /\ acc.input => vendor.started \/ vendor.usage
    /\ acc.output => vendor.usage
    /\ ~Anthropic => acc.input = acc.output
    /\ vendor.usage => vendor.finished

\* The terminal event as it stands in the line.
Tells(e) ==
    /\ \/ CallsOf(e.message) = Ids(Begun)
       \/ Responses /\ ~vendor.finished /\ e.message = <<>>
    /\ e.usage.input => vendor.started \/ vendor.usage
    /\ e.usage.output => vendor.usage
    /\ e.usage.state = "complete" <=> e.usage.input /\ e.usage.output
    /\ e.stop = "interrupted" => pc \notin {"told", "returned"}

TruthInv ==
    /\ KindsFit
    /\ UsageFits
    /\ \A i \in 1 .. Len(Line) : Line[i].type = "model_call_completed" => Tells(Line[i])

\* What the vendor has told of itself.
LEMMA VendorTells ==
    ASSUME vendor \in Vendors, NEW raw \in Raw, Legal(raw), vendor' = Sent(raw)
    PROVE  /\ vendor'.started = (vendor.started \/ raw.type = "start")
           /\ vendor'.finished = (vendor.finished \/ raw.type = "finish")
           /\ vendor'.usage = IF raw.type = "finish" THEN ~Chat ELSE vendor.usage \/ raw.type = "usage"
           /\ raw.type \in {"open", "finish"} => ~vendor.finished
           /\ raw.type = "usage" => Chat /\ vendor.finished
           /\ raw.type = "start" => Anthropic
<1>1. raw.type \in {"start", "open", "delta", "close", "finish", "usage"}
  BY DEF Raw
<1>2. CASE raw.type = "start"
  BY <1>2 DEF Sent, Legal, Vendors
<1>3. CASE raw.type = "open"
  <2>1. PICK s : vendor' = [vendor EXCEPT !.blocks = s]
    BY <1>3 DEF Sent
  <2> QED BY <1>3, <2>1 DEF Legal, Vendors, Ready
<1>4. CASE raw.type \in {"delta", "close"}
  <2>1. PICK s : vendor' = [vendor EXCEPT !.blocks = s]
    <3>1. CASE raw.type = "delta"
      BY <3>1 DEF Sent
    <3>2. CASE raw.type = "close"
      BY <3>2 DEF Sent
    <3> QED BY <1>4, <3>1, <3>2
  <2> QED BY <1>4, <2>1 DEF Vendors
<1>5. CASE raw.type = "finish"
  BY <1>5 DEF Sent, Legal, Vendors, Ready
<1>6. CASE raw.type = "usage"
  BY <1>6 DEF Sent, Legal, Vendors
<1> QED BY <1>1, <1>2, <1>3, <1>4, <1>5, <1>6

\* Put changes one block.
LEMMA PutBlocks ==
    ASSUME acc \in Accumulators, NEW k, NEW b, NEW a, a = Put(k, b)
    PROVE  /\ DOMAIN a.blocks = DOMAIN acc.blocks \cup {k} /\ a.blocks[k] = b
           /\ \A j \in DOMAIN acc.blocks : j # k => a.blocks[j] = acc.blocks[j]
           /\ a.input = acc.input /\ a.output = acc.output /\ a.final = acc.final
           /\ DOMAIN a = DOMAIN acc
<1>1. PICK g : g = [j \in DOMAIN acc.blocks \cup {k} |-> IF j = k THEN b ELSE acc.blocks[j]]
  OBVIOUS
<1>2. a = [acc EXCEPT !.blocks = g]
  BY <1>1 DEF Put
<1>3. a.blocks = g /\ a.input = acc.input /\ a.output = acc.output /\ a.final = acc.final
  BY <1>2 DEF Accumulators
<1> QED BY <1>1, <1>2, <1>3

\* A step of the accumulator that keeps its blocks and what the vendor began.
LEMMA KindsStay ==
    ASSUME KindsFit, Begun' = Begun, acc'.blocks = acc.blocks
    PROVE  \A k \in DOMAIN acc'.blocks : acc'.blocks[k].kind = "tool" <=> k \in Begun'
  BY DEF KindsFit

LEMMA AnthropicTells ==
    ASSUME AdapterTypes, AccFits, KindsFit, UsageFits, Anthropic,
           NEW raw \in Raw, Legal(raw), vendor' = Sent(raw), UNCHANGED protocol,
           NEW h, h = HandleAnthropic(raw), acc' = h.acc
    PROVE  KindsFit' /\ UsageFits'
<1>1. /\ ~Responses /\ ~Chat /\ ~Responses' /\ Anthropic' /\ DOMAIN acc.blocks = 1 .. Current
      /\ acc \in Accumulators /\ vendor \in Vendors
  <2>1. UNCHANGED <<Responses, Anthropic>>
    BY DEF Responses, Anthropic
  <2> QED BY <2>1, OneProtocol DEF AdapterTypes, AccFits
<1>2. PICK c : c = Current
  OBVIOUS
<1>3. c \in Nat /\ Begun \subseteq 1 .. c
  BY <1>2, Numbers
<1>4. /\ vendor'.started = (vendor.started \/ raw.type = "start")
      /\ vendor'.finished = (vendor.finished \/ raw.type = "finish")
      /\ vendor'.usage = (vendor.usage \/ raw.type = "finish")
      /\ raw.type # "usage"
  BY <1>1, VendorTells DEF Vendors
<1>5. CASE raw.type = "open"
  <2>1. Begun' = IF raw.kind = "tool" THEN Begun \cup {c + 1} ELSE Begun
    BY <1>1, <1>2, <1>5, VendorMoves
  <2>2. c + 1 \notin Begun /\ c + 1 \notin 1 .. c
    BY <1>3
  <2>3. PICK b : b = [NewBlock(raw.kind) EXCEPT
                        !.id = IF raw.kind = "tool" THEN CallId(c + 1) ELSE NoId,
                        !.parts = IF raw.n = 1 THEN <<<<c + 1, 1>>>> ELSE <<>>]
    OBVIOUS
  <2>4. b.kind = raw.kind
    BY <2>3 DEF NewBlock
  <2>5. acc' = Put(c + 1, b)
    BY <1>2, <1>5, <2>3 DEF HandleAnthropic, OnBlockStart
  <2>6. /\ DOMAIN acc'.blocks = DOMAIN acc.blocks \cup {c + 1} /\ acc'.blocks[c + 1] = b
        /\ \A j \in DOMAIN acc.blocks : j # c + 1 => acc'.blocks[j] = acc.blocks[j]
        /\ acc'.input = acc.input /\ acc'.output = acc.output
    BY <1>1, <2>5, PutBlocks
  <2>7. \A k \in DOMAIN acc'.blocks : acc'.blocks[k].kind = "tool" <=> k \in Begun'
    BY <1>1, <1>2, <2>1, <2>2, <2>4, <2>6 DEF KindsFit
  <2> QED BY <1>1, <1>4, <1>5, <2>6, <2>7 DEF KindsFit, UsageFits
<1>6. CASE raw.type = "delta"
  <2>1. Begun' = Begun /\ c >= 1
    BY <1>1, <1>2, <1>6, VendorMoves
  <2>2. PICK b : b = [acc.blocks[c] EXCEPT !.parts = Append(@, <<Current, raw.n>>)]
    OBVIOUS
  <2>3. c \in DOMAIN acc.blocks /\ acc.blocks[c] \in Block
    BY <1>1, <1>2, <1>3, <2>1, Numbers
  <2>4. b.kind = acc.blocks[c].kind
    BY <2>2, <2>3 DEF Block
  <2>5. acc' = Put(c, b)
    BY <1>2, <1>6, <2>2 DEF HandleAnthropic, OnBlockDelta, Grown
  <2>6. /\ DOMAIN acc'.blocks = DOMAIN acc.blocks \cup {c} /\ acc'.blocks[c] = b
        /\ \A j \in DOMAIN acc.blocks : j # c => acc'.blocks[j] = acc.blocks[j]
        /\ acc'.input = acc.input /\ acc'.output = acc.output
    BY <1>1, <2>5, PutBlocks
  <2>7. \A k \in DOMAIN acc'.blocks : acc'.blocks[k].kind = "tool" <=> k \in Begun'
    BY <2>1, <2>3, <2>4, <2>6 DEF KindsFit
  <2> QED BY <1>1, <1>4, <1>6, <2>6, <2>7 DEF KindsFit, UsageFits
<1>7. CASE raw.type \in {"close", "start", "finish"}
  <2>1. Begun' = Begun
    BY <1>1, <1>7, VendorMoves
  <2>2. /\ acc'.blocks = acc.blocks
        /\ acc'.input = (acc.input \/ raw.type = "start")
        /\ acc'.output = (acc.output \/ raw.type = "finish")
    <3>1. CASE raw.type = "close"
      BY <1>1, <3>1 DEF HandleAnthropic, OnBlockStop, Accumulators
    <3>2. CASE raw.type = "start"
      BY <1>1, <3>2 DEF HandleAnthropic, Quiet, Accumulators
    <3>3. CASE raw.type = "finish"
      BY <1>1, <3>3 DEF HandleAnthropic, Quiet, Accumulators
    <3> QED BY <1>7, <3>1, <3>2, <3>3
  <2>3. \A k \in DOMAIN acc'.blocks : acc'.blocks[k].kind = "tool" <=> k \in Begun'
    BY <2>1, <2>2, KindsStay
  <2> QED BY <1>1, <1>4, <2>2, <2>3 DEF KindsFit, UsageFits
<1>8. raw.type \in {"start", "open", "delta", "close", "finish", "usage"}
  BY DEF Raw
<1> QED BY <1>4, <1>5, <1>6, <1>7, <1>8

LEMMA ResponsesTells ==
    ASSUME AdapterTypes, AccFits, KindsFit, UsageFits, Responses,
           NEW raw \in Raw, Legal(raw), vendor' = Sent(raw), UNCHANGED protocol,
           NEW h, h = HandleResponses(raw), acc' = h.acc
    PROVE  KindsFit' /\ UsageFits'
<1>1. /\ ~Anthropic /\ ~Chat /\ Responses' /\ ~Anthropic' /\ DOMAIN acc.blocks = {}
      /\ acc \in Accumulators /\ vendor \in Vendors
  <2>1. UNCHANGED <<Responses, Anthropic>>
    BY DEF Responses, Anthropic
  <2> QED BY <2>1, OneProtocol DEF AdapterTypes, AccFits
<1>2. /\ vendor'.started = (vendor.started \/ raw.type = "start")
      /\ vendor'.finished = (vendor.finished \/ raw.type = "finish")
      /\ vendor'.usage = (vendor.usage \/ raw.type = "finish")
      /\ raw.type \notin {"start", "usage"}
      /\ raw.type \in {"open", "finish"} => ~vendor.finished
  BY <1>1, VendorTells DEF Vendors
<1>3. CASE raw.type = "finish"
  <2>1. Begun' = Begun /\ Current' = Current
    BY <1>1, <1>3, VendorMoves
  <2>2. acc' = [acc EXCEPT !.stop = TRUE, !.input = TRUE, !.output = TRUE, !.final = vendor.blocks]
    BY <1>3 DEF HandleResponses, Quiet
  <2>3. /\ acc'.blocks = acc.blocks /\ acc'.input = TRUE /\ acc'.output = TRUE
        /\ acc'.final = vendor.blocks
    BY <1>1, <2>2 DEF Accumulators
  <2>4. Len(acc'.final) = Current /\ \A k \in 1 .. Current : acc'.final[k].kind = "tool" <=> k \in Begun
    BY <2>3 DEF Current, Begun
  <2> QED BY <1>1, <1>2, <1>3, <2>1, <2>3, <2>4 DEF KindsFit, UsageFits
<1>4. CASE raw.type # "finish"
  <2>1. /\ acc'.blocks = acc.blocks /\ acc'.input = acc.input /\ acc'.output = acc.output
        /\ acc'.final = acc.final
    <3>1. CASE raw.type = "open" /\ raw.kind = "tool"
      BY <1>1, <3>1 DEF HandleResponses, Accumulators
    <3>2. CASE ~(raw.type = "open" /\ raw.kind = "tool")
      <4>1. acc' = acc
        <5>1. CASE raw.type = "delta"
          BY <5>1 DEF HandleResponses
        <5>2. CASE raw.type = "close" /\ raw.kind = "tool"
          BY <5>2 DEF HandleResponses
        <5>3. CASE raw.type # "delta" /\ ~(raw.type = "close" /\ raw.kind = "tool")
          BY <1>4, <3>2, <5>3 DEF HandleResponses, Quiet
        <5> QED BY <5>1, <5>2, <5>3
      <4> QED BY <4>1
    <3> QED BY <3>1, <3>2
  <2>2. vendor.finished => Begun' = Begun /\ Current' = Current
    <3>1. raw.type \in {"open", "delta", "close"}
      BY <1>2, <1>4 DEF Raw
    <3> QED BY <1>1, <1>2, <3>1, VendorMoves
  <2> QED BY <1>1, <1>2, <1>4, <2>1, <2>2 DEF KindsFit, UsageFits
<1> QED BY <1>3, <1>4

LEMMA ChatTells ==
    ASSUME AdapterTypes, AccFits, KindsFit, UsageFits, Chat,
           NEW raw \in Raw, Legal(raw), vendor' = Sent(raw), UNCHANGED protocol,
           NEW h, h = HandleChat(raw), acc' = h.acc
    PROVE  KindsFit' /\ UsageFits'
<1>1. /\ ~Anthropic /\ ~Responses /\ ~Responses' /\ ~Anthropic'
      /\ acc \in Accumulators /\ vendor \in Vendors
      /\ Closed = {} /\ DOMAIN acc.blocks \ {0} = Begun
  <2>1. UNCHANGED <<Responses, Anthropic>>
    BY DEF Responses, Anthropic
  <2> QED BY <2>1, OneProtocol DEF AdapterTypes, AccFits
<1>2. /\ vendor'.started = (vendor.started \/ raw.type = "start")
      /\ vendor'.finished = (vendor.finished \/ raw.type = "finish")
      /\ vendor'.usage = ((vendor.usage /\ raw.type # "finish") \/ raw.type = "usage")
      /\ raw.type = "finish" => ~vendor.finished
      /\ raw.type = "usage" => vendor.finished
      /\ raw.type # "close"
  <2>1. raw.type # "close"
    BY DEF Legal
  <2> QED BY <2>1, <1>1, VendorTells DEF Vendors
<1>3. PICK c : c = Current
  OBVIOUS
<1>4. c \in Nat /\ Begun \subseteq 1 .. c /\ 0 \notin Begun
  BY <1>3, Numbers
<1>5. ASSUME \A k \in DOMAIN acc'.blocks : acc'.blocks[k].kind = "tool" <=> k \in Begun',
             acc'.input = (acc.input \/ raw.type = "usage"),
             acc'.output = (acc.output \/ raw.type = "usage")
      PROVE  KindsFit' /\ UsageFits'
  BY <1>1, <1>2, <1>5 DEF KindsFit, UsageFits, Accumulators
<1>6. CASE raw.type = "open" /\ raw.kind = "tool"
  <2>1. Begun' = Begun \cup {c + 1}
    BY <1>1, <1>3, <1>6, VendorMoves
  <2>2. PICK b, p : b = [NewBlock("tool") EXCEPT !.id = CallId(c + 1)] /\ p = Put(c + 1, b)
    OBVIOUS
  <2>3. b.kind = "tool"
    BY <2>2 DEF NewBlock
  <2>4. acc' = [p EXCEPT !.started = @ \cup {c + 1}]
    <3>1. h = OnToolCallDelta(raw)
      BY <1>6 DEF HandleChat
    <3> QED BY <1>3, <1>6, <2>2, <3>1 DEF OnToolCallDelta
  <2>5. /\ DOMAIN p.blocks = DOMAIN acc.blocks \cup {c + 1} /\ p.blocks[c + 1] = b
        /\ \A j \in DOMAIN acc.blocks : j # c + 1 => p.blocks[j] = acc.blocks[j]
        /\ p.input = acc.input /\ p.output = acc.output
        /\ DOMAIN p = DOMAIN acc
    BY <1>1, <2>2, PutBlocks
  <2>6. acc'.blocks = p.blocks /\ acc'.input = p.input /\ acc'.output = p.output
    <3>1. DOMAIN acc = {"input", "output", "stop", "blocks", "started", "items", "final"}
      BY <1>1 DEF Accumulators
    <3> QED BY <2>4, <2>5, <3>1
  <2>7. \A k \in DOMAIN acc'.blocks : acc'.blocks[k].kind = "tool" <=> k \in Begun'
    BY <2>1, <2>3, <2>5, <2>6 DEF KindsFit
  <2> QED BY <1>1, <1>5, <1>6, <2>5, <2>6, <2>7 DEF Accumulators
<1>7. CASE raw.type = "delta" /\ raw.kind = "tool"
  <2>1. Begun' = Begun /\ c \in Begun
    BY <1>1, <1>3, <1>7, VendorMoves
  <2>2. PICK b, p : b = [acc.blocks[c] EXCEPT !.parts = Append(@, <<c, raw.n>>)] /\ p = Put(c, b)
    OBVIOUS
  <2>3. c \in DOMAIN acc.blocks /\ acc.blocks[c] \in Block
    BY <1>1, <2>1, Numbers
  <2>4. b.kind = acc.blocks[c].kind
    BY <2>2, <2>3 DEF Block
  <2>5. acc' = [p EXCEPT !.started = @ \cup {c}]
    <3>1. h = OnToolCallDelta(raw)
      BY <1>7 DEF HandleChat
    <3>2. OnToolCallDelta(raw).acc = [p EXCEPT !.started = @ \cup {c}]
      <4>1. AddsPart(raw, MorePart(raw))
        BY <1>7, ToolDeltaIs
      <4>2. MorePart(raw) = b
        BY <1>3, <2>2 DEF MorePart
      <4> QED BY <1>3, <2>2, <4>1, <4>2 DEF AddsPart
    <3> QED BY <1>3, <3>1, <3>2
  <2>6. /\ DOMAIN p.blocks = DOMAIN acc.blocks \cup {c} /\ p.blocks[c] = b
        /\ \A j \in DOMAIN acc.blocks : j # c => p.blocks[j] = acc.blocks[j]
        /\ p.input = acc.input /\ p.output = acc.output
        /\ DOMAIN p = DOMAIN acc
    BY <1>1, <2>2, PutBlocks
  <2>7. acc'.blocks = p.blocks /\ acc'.input = p.input /\ acc'.output = p.output
    <3>1. DOMAIN acc = {"input", "output", "stop", "blocks", "started", "items", "final"}
      BY <1>1 DEF Accumulators
    <3> QED BY <2>5, <2>6, <3>1
  <2>8. \A k \in DOMAIN acc'.blocks : acc'.blocks[k].kind = "tool" <=> k \in Begun'
    BY <2>1, <2>3, <2>4, <2>6, <2>7 DEF KindsFit
  <2> QED BY <1>1, <1>5, <1>7, <2>6, <2>7, <2>8 DEF Accumulators
<1>8. CASE raw.type = "delta" /\ raw.kind # "tool"
  <2>1. Begun' = Begun
    BY <1>1, <1>3, <1>8, VendorMoves
  <2>2. PICK b : b = IF Has(0) THEN [acc.blocks[0] EXCEPT !.parts = Append(@, <<Current, raw.n>>)]
                     ELSE [NewBlock("text") EXCEPT !.parts = <<<<Current, raw.n>>>>]
    OBVIOUS
  <2>3. b.kind # "tool"
    <3>1. CASE Has(0)
      <4>1. 0 \in DOMAIN acc.blocks /\ acc.blocks[0] \in Block
        BY <3>1, Numbers DEF Has
      <4>2. b.kind = acc.blocks[0].kind
        BY <2>2, <3>1, <4>1 DEF Block
      <4> QED BY <1>4, <4>1, <4>2 DEF KindsFit
    <3>2. CASE ~Has(0)
      <4>1. PICK s : s = <<<<Current, raw.n>>>>
        OBVIOUS
      <4>2. b = [NewBlock("text") EXCEPT !.parts = s]
        BY <2>2, <3>2, <4>1
      <4> QED BY <4>2 DEF NewBlock
    <3> QED BY <3>1, <3>2
  <2>4. acc' = Put(0, b)
    <3>1. acc' = IF Has(0) THEN Grown(0, raw.n)
                 ELSE Put(0, [NewBlock("text") EXCEPT !.parts = <<<<Current, raw.n>>>>])
      BY <1>8 DEF HandleChat
    <3> QED BY <2>2, <3>1 DEF Grown
  <2>5. /\ DOMAIN acc'.blocks = DOMAIN acc.blocks \cup {0} /\ acc'.blocks[0] = b
        /\ \A j \in DOMAIN acc.blocks : j # 0 => acc'.blocks[j] = acc.blocks[j]
        /\ acc'.input = acc.input /\ acc'.output = acc.output
    BY <1>1, <2>4, PutBlocks
  <2>6. \A k \in DOMAIN acc'.blocks : acc'.blocks[k].kind = "tool" <=> k \in Begun'
    BY <1>4, <2>1, <2>3, <2>5 DEF KindsFit
  <2> QED BY <1>1, <1>5, <1>8, <2>5, <2>6 DEF Accumulators
<1>9. CASE raw.type \in {"start", "finish", "usage"} \/ (raw.type = "open" /\ raw.kind # "tool")
  <2>1. Begun' = Begun /\ raw.kind # "tool"
    BY <1>1, <1>3, <1>9, VendorMoves
  <2>2. /\ acc'.blocks = acc.blocks
        /\ acc'.input = (acc.input \/ raw.type = "usage")
        /\ acc'.output = (acc.output \/ raw.type = "usage")
    <3>1. CASE raw.type = "usage"
      BY <1>1, <2>1, <3>1 DEF HandleChat, Quiet, Accumulators
    <3>2. CASE raw.type = "finish"
      BY <1>1, <2>1, <3>2 DEF HandleChat, Quiet, Accumulators
    <3>3. CASE raw.type = "start" \/ raw.type = "open"
      <4>1. acc' = acc
        BY <2>1, <3>3 DEF HandleChat, Quiet
      <4> QED BY <1>1, <3>3, <4>1 DEF Accumulators
    <3> QED BY <1>9, <3>1, <3>2, <3>3
  <2>3. \A k \in DOMAIN acc'.blocks : acc'.blocks[k].kind = "tool" <=> k \in Begun'
    BY <2>1, <2>2, KindsStay
  <2> QED BY <1>5, <2>2, <2>3
<1>10. raw.type \in {"start", "open", "delta", "finish", "usage"}
  BY <1>2 DEF Raw
<1> QED BY <1>6, <1>7, <1>8, <1>9, <1>10

\* Ascending leaves out none of the numbers.
LEMMA AscendingOnto ==
    ASSUME NEW m \in Nat, NEW S \in SUBSET (0 .. m)
    PROVE  \A k \in S : \E i \in 1 .. Len(Ascending(S)) : Ascending(S)[i] = k
<1>1. CanRise(S)
  <2>1. S \in SUBSET (0 .. (m + 1) - 1) /\ m + 1 \in Nat
    OBVIOUS
  <2> QED BY <2>1, AllRise
<1>2. PICK n : n = Cardinality(S)
  OBVIOUS
<1>3. n \in Nat /\ IsFiniteSet(S)
  BY <1>1, <1>2, FS_CardinalityType DEF CanRise
<1>4. \E order \in [1 .. n -> S] : \A i, j \in 1 .. n : i < j => order[i] < order[j]
  BY <1>1, <1>2 DEF CanRise, Rises
<1>5. Ascending(S) \in [1 .. n -> S]
  BY <1>2, <1>4 DEF Ascending
<1>6. Len(Ascending(S)) = n
  BY <1>3, <1>5
<1>7. PICK s : s = Ascending(S)
  OBVIOUS
<1>8. s \in Injection(1 .. n, S)
  <2>1. \A i, j \in 1 .. Len(Ascending(S)) : Ascending(S)[i] = Ascending(S)[j] => i = j
    BY AscendingIs
  <2>2. \A i, j \in 1 .. n : s[i] = s[j] => i = j
    BY <1>6, <1>7, <2>1
  <2> QED BY <1>5, <1>7, <2>2 DEF Injection, IsInjective
<1>9. IsFiniteSet(1 .. n) /\ Cardinality(1 .. n) = n
  BY <1>3, FS_Interval
<1>10. s \in Surjection(1 .. n, S)
  BY <1>2, <1>3, <1>8, <1>9, FS_Injection
<1> QED BY <1>6, <1>7, <1>10 DEF Surjection

\* The calls among blocks in order are those the vendor began.
LEMMA InOrderCalls ==
    ASSUME AdapterTypes, AccFits, KindsFit, NEW S \in SUBSET DOMAIN acc.blocks
    PROVE  CallsOf(InOrder(S)) = Ids(S \cap Begun)
<1>1. S \in SUBSET (0 .. MaxBlocks) /\ MaxBlocks \in Nat
  BY Numbers
<1>2. PICK order, n : order = Ascending(S) /\ n = Len(order)
  OBVIOUS
<1>3. /\ n \in Nat /\ DOMAIN order = 1 .. n /\ \A j \in 1 .. n : order[j] \in S
      /\ \A k \in S : \E j \in 1 .. n : order[j] = k
  BY <1>1, <1>2, AscendingIs, AscendingOnto
<1>4. PICK message : message = InOrder(S)
  OBVIOUS
<1>5. /\ DOMAIN message = 1 .. n
      /\ \A j \in 1 .. n : /\ message[j].kind = acc.blocks[order[j]].kind
                           /\ message[j].id = acc.blocks[order[j]].id
  BY <1>2, <1>3, <1>4 DEF InOrder, MessageBlock
<1>6. \A k \in S : /\ acc.blocks[k].kind = "tool" <=> k \in Begun
                   /\ k \in Begun => acc.blocks[k].id = CallId(k)
  BY DEF KindsFit, AccFits
<1>7. CallsOf(message) = {CallId(k) : k \in S \cap Begun}
  <2>1. ASSUME NEW j \in 1 .. n, message[j].kind = "tool"
        PROVE  \E k \in S \cap Begun : message[j].id = CallId(k)
    BY <1>3, <1>5, <1>6, <2>1
  <2>2. ASSUME NEW k \in S \cap Begun
        PROVE  \E j \in 1 .. n : message[j].kind = "tool" /\ message[j].id = CallId(k)
    BY <1>3, <1>5, <1>6
  <2>3. Range(message) = {message[j] : j \in 1 .. n}
    BY <1>5 DEF Range
  <2> QED BY <2>1, <2>2, <2>3 DEF CallsOf
<1> QED BY <1>4, <1>7 DEF Ids

LEMMA CallsOfJoined ==
    ASSUME NEW s \in Seq(Block), NEW t \in Seq(Block)
    PROVE  CallsOf(s \o t) = CallsOf(s) \cup CallsOf(t)
<1>1. Range(s \o t) = Range(s) \cup Range(t)
  <2>1. PICK m \in Nat, n \in Nat : m = Len(s) /\ n = Len(t)
    OBVIOUS
  <2>2. DOMAIN s = 1 .. m /\ DOMAIN t = 1 .. n /\ DOMAIN (s \o t) = 1 .. m + n
    BY <2>1
  <2>3. /\ \A i \in 1 .. m : (s \o t)[i] = s[i] /\ i \in 1 .. m + n
        /\ \A i \in 1 .. n : (s \o t)[m + i] = t[i] /\ m + i \in 1 .. m + n
    BY <2>1
  <2>4. ASSUME NEW i \in 1 .. m + n
        PROVE  i \in 1 .. m \/ \E j \in 1 .. n : i = m + j
    <3>1. CASE i <= m
      BY <3>1
    <3>2. CASE i > m
      <4>1. i - m \in 1 .. n /\ i = m + (i - m)
        BY <2>1, <3>2
      <4> QED BY <4>1
    <3> QED BY <2>1, <3>1, <3>2
  <2>5. PICK u : u = s \o t
    OBVIOUS
  <2>6. /\ Range(u) = {u[i] : i \in 1 .. m + n}
        /\ Range(s) = {s[i] : i \in 1 .. m} /\ Range(t) = {t[i] : i \in 1 .. n}
    BY <2>2, <2>5 DEF Range
  <2>7. ASSUME NEW x \in Range(u) PROVE x \in Range(s) \cup Range(t)
    <3>1. PICK i \in 1 .. m + n : x = u[i]
      BY <2>6, <2>7
    <3> QED BY <2>3, <2>4, <2>5, <2>6, <3>1
  <2>8. ASSUME NEW x \in Range(s) \cup Range(t) PROVE x \in Range(u)
    BY <2>3, <2>5, <2>6, <2>8
  <2> QED BY <2>5, <2>7, <2>8
<1> QED BY <1>1 DEF CallsOf

LEMMA NoCalls == CallsOf(<<>>) = {}
  BY DEF CallsOf, Range

\* The message of the terminal event has the calls, unless it is the empty one of
\* a Responses answer that is not whole.
LEMMA MessageTells ==
    ASSUME AdapterTypes, AccFits, KindsFit
    PROVE  \/ CallsOf(FinalMessage) = Ids(Begun)
           \/ Responses /\ ~vendor.finished /\ FinalMessage = <<>>
<1>1. /\ Anthropic \/ Responses \/ Chat
      /\ ~(Anthropic /\ Responses) /\ ~(Anthropic /\ Chat) /\ ~(Responses /\ Chat)
  BY OneProtocol DEF AdapterTypes
<1>2. CASE Anthropic
  <2>1. DOMAIN acc.blocks \cap Begun = Begun
    BY <1>2 DEF AccFits, Begun
  <2>2. FinalMessage = InOrder(DOMAIN acc.blocks)
    BY <1>1, <1>2 DEF FinalMessage, AnthropicMessage
  <2> QED BY <2>1, <2>2, InOrderCalls
<1>3. CASE Responses
  <2>1. FinalMessage = ResponsesMessage
    BY <1>1, <1>3 DEF FinalMessage
  <2>2. CASE vendor.finished
    <3>1. PICK final, n : final = acc.final /\ n = Current
      OBVIOUS
    <3>2. /\ final \in Seq(VendorBlock) /\ Len(final) = n
          /\ \A k \in 1 .. n : final[k].kind = "tool" <=> k \in Begun
      BY <1>3, <2>2, <3>1 DEF KindsFit, AdapterTypes, Accumulators
    <3>3. DOMAIN final = 1 .. n /\ Begun \subseteq 1 .. n
      BY <3>1, <3>2, Numbers
    <3>4. PICK message : message = ResponsesMessage
      OBVIOUS
    <3>5. /\ DOMAIN message = 1 .. n
          /\ \A k \in 1 .. n : /\ message[k].kind = final[k].kind
                               /\ message[k].id = IF final[k].kind = "tool" THEN CallId(k) ELSE NoId
      BY <3>1, <3>3, <3>4 DEF ResponsesMessage, MessageBlock
    <3>6. Range(message) = {message[k] : k \in 1 .. n}
      BY <3>5 DEF Range
    <3>7. CallsOf(message) = {CallId(k) : k \in Begun}
      BY <3>2, <3>3, <3>5, <3>6 DEF CallsOf
    <3> QED BY <2>1, <3>4, <3>7 DEF Ids
  <2>3. CASE ~vendor.finished
    <3>1. acc.final = <<>>
      BY <1>3, <2>3 DEF KindsFit
    <3>2. ResponsesMessage = <<>>
      BY <3>1 DEF ResponsesMessage
    <3> QED BY <1>3, <2>1, <2>3, <3>2
  <2> QED BY <2>2, <2>3
<1>4. CASE Chat
  <2>1. DOMAIN acc.blocks \ {0} = Begun
    BY <1>4 DEF AccFits
  <2>2. PICK texts : texts = IF Has(0) THEN <<MessageBlock("text", NoId, acc.blocks[0].parts)>> ELSE <<>>
    OBVIOUS
  <2>3. PICK S : S = DOMAIN acc.blocks \ {0}
    OBVIOUS
  <2>4. FinalMessage = texts \o InOrder(S)
    BY <1>1, <1>4, <2>2, <2>3 DEF FinalMessage, ChatMessage
  <2>5. CallsOf(InOrder(S)) = Ids(Begun) /\ InOrder(S) \in Seq(Block)
    <3>1. S \in SUBSET DOMAIN acc.blocks /\ S \cap Begun = Begun
      BY <2>1, <2>3
    <3> QED BY <3>1, InOrderCalls, InOrderIs
  <2>6. texts \in Seq(Block) /\ CallsOf(texts) = {}
    <3>1. CASE Has(0)
      <4>1. PICK b : b = MessageBlock("text", NoId, acc.blocks[0].parts)
        OBVIOUS
      <4>2. acc.blocks[0] \in Block
        BY <3>1, Numbers DEF Has
      <4>3. b \in Block /\ b.kind = "text"
        BY <4>1, <4>2 DEF MessageBlock, Block, Kinds, BlockIds
      <4>4. texts = <<b>>
        BY <2>2, <3>1, <4>1
      <4>5. Range(texts) = {b}
        BY <4>4 DEF Range
      <4> QED BY <4>3, <4>4, <4>5 DEF CallsOf
    <3>2. CASE ~Has(0)
      BY <2>2, <3>2, NoCalls
    <3> QED BY <3>1, <3>2
  <2>7. CallsOf(texts \o InOrder(S)) = CallsOf(texts) \cup CallsOf(InOrder(S))
    BY <2>5, <2>6, CallsOfJoined
  <2> QED BY <2>4, <2>5, <2>6, <2>7
<1> QED BY <1>1, <1>2, <1>3, <1>4

LEMMA UsageTells ==
    ASSUME AdapterTypes, UsageFits, NEW interrupted \in BOOLEAN, NEW u, u = Usage(interrupted)
    PROVE  /\ u.input => vendor.started \/ vendor.usage
           /\ u.output => vendor.usage
           /\ u.state = "complete" <=> u.input /\ u.output
<1>1. /\ Anthropic \/ Responses \/ Chat
      /\ ~(Anthropic /\ Responses) /\ ~(Anthropic /\ Chat) /\ ~(Responses /\ Chat)
  BY OneProtocol DEF AdapterTypes
<1>2. CASE Anthropic
  <2>1. u = AnthropicUsage
    BY <1>1, <1>2 DEF Usage
  <2> QED BY <2>1 DEF AnthropicUsage, UsageFits
<1>3. CASE Responses
  <2>1. u = ResponsesUsage
    BY <1>1, <1>3 DEF Usage
  <2> QED BY <1>1, <1>3, <2>1 DEF ResponsesUsage, UsageFits, FullUsage, NoUsage
<1>4. CASE Chat
  <2>1. u = ChatUsage(interrupted)
    BY <1>1, <1>4 DEF Usage
  <2> QED BY <1>1, <1>4, <2>1 DEF ChatUsage, UsageFits, FullUsage, NoUsage
<1> QED BY <1>1, <1>2, <1>3, <1>4

LEMMA ReceiveTells == ASSUME AdapterInv, AdapterInv', TruthInv, Receive PROVE TruthInv'
<1>1. AdapterTypes /\ AccFits /\ KindsFit /\ UsageFits /\ pc = "reading" /\ UNCHANGED <<protocol, pc>>
  BY DEF AdapterInv, TruthInv, Receive
<1>2. PICK raw \in {r \in Raw : Legal(r)} : vendor' = Sent(raw) /\ acc' = Handle(raw).acc
  BY DEF Receive
<1>3. raw \in Raw /\ Legal(raw)
  OBVIOUS
<1>4. /\ Anthropic \/ Responses \/ Chat
      /\ ~(Anthropic /\ Responses) /\ ~(Anthropic /\ Chat) /\ ~(Responses /\ Chat)
  BY <1>1, OneProtocol DEF AdapterTypes
<1>5. KindsFit' /\ UsageFits'
  <2>1. CASE Anthropic
    <3>1. Handle(raw) = HandleAnthropic(raw)
      BY <1>4, <2>1 DEF Handle
    <3> QED BY <1>1, <1>2, <1>3, <2>1, <3>1, AnthropicTells
  <2>2. CASE Responses
    <3>1. Handle(raw) = HandleResponses(raw)
      BY <1>4, <2>2 DEF Handle
    <3> QED BY <1>1, <1>2, <1>3, <2>2, <3>1, ResponsesTells
  <2>3. CASE Chat
    <3>1. Handle(raw) = HandleChat(raw)
      BY <1>4, <2>3 DEF Handle
    <3> QED BY <1>1, <1>2, <1>3, <2>3, <3>1, ChatTells
  <2> QED BY <1>4, <2>1, <2>2, <2>3
<1>6. NamedIn(Line', "model_call_completed") = {} /\ Line' \in Seq(Events)
  <2>1. NamedIn(Line', "model_call_completed") = {}
    BY <1>1 DEF AdapterInv, LineFits
  <2>2. Line' \in Seq(Events)
    BY DEF AdapterInv, AdapterTypes, Line
  <2> QED BY <2>1, <2>2
<1>7. \A i \in 1 .. Len(Line') : Line'[i].type # "model_call_completed"
  BY <1>6, NamedAre
<1> QED BY <1>5, <1>7 DEF TruthInv

\* A step that leaves the vendor and the accumulator alone.
LEMMA RestTells ==
    ASSUME TruthInv, UNCHANGED <<protocol, vendor, acc>>
    PROVE  /\ KindsFit' /\ UsageFits' /\ Begun' = Begun
           /\ UNCHANGED <<Anthropic, Responses, Chat>>
<1>1. UNCHANGED <<Anthropic, Responses, Chat, Current>> /\ Begun' = Begun
  BY DEF Anthropic, Responses, Chat, Current, Begun
<1> QED BY <1>1 DEF TruthInv, KindsFit, UsageFits

LEMMA YieldTells == ASSUME AdapterInv, TruthInv, YieldEvent PROVE TruthInv'
<1>1. UNCHANGED <<protocol, vendor, acc, pc>>
  BY DEF YieldEvent
<1>2. Line' = Line
  <2>1. events \in Seq(Events) /\ out \in Seq(Events) /\ out # <<>>
    BY DEF AdapterInv, AdapterTypes, YieldEvent
  <2>2. events' = Append(events, Head(out)) /\ out' = Tail(out)
    BY DEF YieldEvent
  <2>3. Append(events, Head(out)) \o Tail(out) = events \o out
    BY <2>1
  <2> QED BY <2>2, <2>3 DEF Line
<1>3. KindsFit' /\ UsageFits' /\ Begun' = Begun /\ UNCHANGED <<Anthropic, Responses, Chat>>
  BY <1>1, RestTells
<1> QED BY <1>1, <1>2, <1>3 DEF TruthInv, Tells

LEMMA EndTells == ASSUME AdapterInv, AdapterInv', TruthInv, StreamEnds PROVE TruthInv'
<1>1. UNCHANGED <<protocol, vendor, acc>> /\ pc' = "returning"
  BY DEF StreamEnds
<1>2. NamedIn(Line', "model_call_completed") = {} /\ Line' \in Seq(Events)
  <2>1. NamedIn(Line', "model_call_completed") = {}
    BY <1>1 DEF AdapterInv, LineFits
  <2>2. Line' \in Seq(Events)
    BY DEF AdapterInv, AdapterTypes, Line
  <2> QED BY <2>1, <2>2
<1>3. \A i \in 1 .. Len(Line') : Line'[i].type # "model_call_completed"
  BY <1>2, NamedAre
<1> QED BY <1>1, <1>3, RestTells DEF TruthInv

LEMMA ConcludeTells == ASSUME AdapterInv, TruthInv, Conclude PROVE TruthInv'
<1>1. /\ AdapterTypes /\ AccFits /\ LineFits /\ KindsFit /\ UsageFits
      /\ pc \in {"returning", "broken"} /\ out = <<>> /\ UNCHANGED <<protocol, vendor, acc, events>>
  BY DEF AdapterInv, TruthInv, Conclude
<1>2. KindsFit' /\ UsageFits' /\ Begun' = Begun /\ UNCHANGED <<Anthropic, Responses, Chat>>
  BY <1>1, RestTells
<1>3. Line = events /\ events \in Seq(Events)
  BY <1>1 DEF AdapterTypes, Line
<1>4. \A i \in 1 .. Len(events) : events[i].type # "model_call_completed"
  <2>1. NamedIn(Line, "model_call_completed") = {}
    BY <1>1 DEF LineFits
  <2> QED BY <1>3, <2>1, NamedAre
<1>5. CASE Assembles
  <2>1. PICK b, e : b = (pc = "broken") /\ e = Terminal(b)
    OBVIOUS
  <2>2. out' = <<e>> /\ pc' = IF pc = "broken" THEN "reraising" ELSE "told"
    BY <1>5, <2>1 DEF Conclude
  <2>3. e \in Terminals
    BY <1>1, <2>1, TerminalIs
  <2>4. Line' = Append(events, e)
    <3>1. e \in Events
      BY <2>3 DEF Events
    <3> QED BY <1>1, <1>3, <2>2, <3>1 DEF Line
  <2>5. /\ e.message = FinalMessage /\ e.usage = Usage(b)
        /\ e.stop = "interrupted" => b
    BY <2>1 DEF Terminal
  <2>6. \/ CallsOf(FinalMessage) = Ids(Begun)
        \/ Responses /\ ~vendor.finished /\ FinalMessage = <<>>
    BY <1>1, MessageTells
  <2>7. /\ e.usage.input => vendor.started \/ vendor.usage
        /\ e.usage.output => vendor.usage
        /\ e.usage.state = "complete" <=> e.usage.input /\ e.usage.output
    BY <1>1, <2>1, <2>5, UsageTells
  <2>8. e.stop = "interrupted" => pc' \notin {"told", "returned"}
    BY <2>1, <2>2, <2>5
  <2>9. Tells(e)'
    BY <1>1, <1>2, <2>5, <2>6, <2>7, <2>8 DEF Tells
  <2>10. PICK line : line = Append(events, e)
    OBVIOUS
  <2>11. /\ Len(line) = Len(events) + 1 /\ line[Len(events) + 1] = e
         /\ \A i \in 1 .. Len(events) : line[i] = events[i]
    BY <1>3, <2>10
  <2>12. \A i \in 1 .. Len(line) : i \in 1 .. Len(events) \/ i = Len(events) + 1
    BY <1>3, <2>11
  <2>13. ASSUME NEW i \in 1 .. Len(Line'), Line'[i].type = "model_call_completed"
         PROVE  Line'[i] = e
    BY <1>4, <2>4, <2>10, <2>11, <2>12, <2>13
  <2> QED BY <1>2, <2>9, <2>13 DEF TruthInv
<1>6. CASE ~Assembles
  <2>1. Line' = events
    BY <1>1, <1>3, <1>6 DEF Conclude, Line
  <2> QED BY <1>2, <1>4, <2>1 DEF TruthInv
<1> QED BY <1>5, <1>6

LEMMA MoveTells ==
    ASSUME TruthInv, UNCHANGED <<protocol, vendor, acc, out, events>>,
           \/ Create \/ StreamBreaks \/ Return \/ Reraise \/ Cancel \/ UNCHANGED pc
    PROVE  TruthInv'
<1>1. KindsFit' /\ UsageFits' /\ Begun' = Begun /\ UNCHANGED <<Anthropic, Responses, Chat>>
  BY RestTells
<1>2. Line' = Line
  BY DEF Line
<1>3. pc' \in {"told", "returned"} => pc \in {"told", "returned"}
  BY DEF Create, StreamBreaks, Return, Reraise, Cancel
<1> QED BY <1>1, <1>2, <1>3 DEF TruthInv, Tells

LEMMA FreshTells == Fresh => TruthInv
<1> SUFFICES ASSUME Fresh PROVE TruthInv
  OBVIOUS
<1>1. /\ vendor.blocks = <<>> /\ ~vendor.finished /\ ~vendor.usage
      /\ acc.blocks = <<>> /\ acc.final = <<>> /\ acc.input = FALSE /\ acc.output = FALSE
  BY DEF Fresh, NewVendor, NewAcc
<1>2. DOMAIN <<>> = {} /\ Line = <<>> /\ Len(<<>>) = 0
  BY DEF Fresh, Line
<1>3. KindsFit
  BY <1>1, <1>2 DEF KindsFit
<1>4. UsageFits
  BY <1>1 DEF UsageFits
<1>5. \A i \in 1 .. Len(Line) : FALSE
  BY <1>2
<1> QED BY <1>3, <1>4, <1>5 DEF TruthInv

LEMMA AgainTells == ASSUME AdapterInv, Again PROVE TruthInv'
<1>1. Fresh'
  BY DEF AdapterInv, AdapterTypes, Again, Fresh
<1>2. Fresh' => TruthInv'
  BY FreshTells, PTL
<1> QED BY <1>1, <1>2

\* TruthInv is inductive, given AdapterInv.
THEOREM TruthInvariant == ReplaySpec => []TruthInv
<1>1. ReplayInit => TruthInv
  BY FreshTells DEF ReplayInit, AdapterInit, Fresh
<1>2. ASSUME AdapterInv, AdapterInv', TruthInv, [ReplayNext]_replayingVars PROVE TruthInv'
  <2>1. CASE Record
    <3>1. CASE Create \/ StreamBreaks \/ Return \/ Reraise \/ Cancel
      <4>1. UNCHANGED <<protocol, vendor, acc, out, events>>
        BY <3>1 DEF Create, StreamBreaks, Return, Reraise, Cancel
      <4> QED BY <1>2, <3>1, <4>1, MoveTells
    <3>2. CASE Receive
      BY <1>2, <3>2, ReceiveTells
    <3>3. CASE YieldEvent
      BY <1>2, <3>3, YieldTells
    <3>4. CASE StreamEnds
      BY <1>2, <3>4, EndTells
    <3>5. CASE Conclude
      BY <1>2, <3>5, ConcludeTells
    <3> QED BY <2>1, <3>1, <3>2, <3>3, <3>4, <3>5 DEF Record, Step
  <2>2. CASE NextTurn
    BY <1>2, <2>2, AgainTells DEF NextTurn
  <2>3. CASE UNCHANGED adapterVars
    <3>1. UNCHANGED <<protocol, vendor, acc, out, events>> /\ UNCHANGED pc
      BY <2>3 DEF adapterVars
    <3> QED BY <1>2, <3>1, MoveTells
  <2> QED BY <1>2, <2>1, <2>2, <2>3 DEF ReplayNext, Load, Ask, replayingVars
<1> QED BY <1>1, <1>2, AdapterInvariant, PTL DEF ReplaySpec

-----------------------------------------------------------------------------
(* The texts and the documents of the terminal event *)

Texts == {"text", "tool"}

TypeOf(kind) == IF kind = "text" THEN "text_delta" ELSE "tool_call_args_delta"

ShownIn(line, type) == [j \in DOMAIN line |->
                           IF line[j].type = type THEN <<line[j].part>> ELSE <<>>]

\* What the vendor has sent of a kind.
Streamed(kind) == {p \in Part : /\ p[1] \in 1 .. Current /\ vendor.blocks[p[1]].kind = kind
                                /\ p[2] \in 1 .. vendor.blocks[p[1]].parts}

\* Groups that hold what the vendor has sent of a kind.
Hold(groups, kind) == InTurn(groups) /\ PartsAmong(groups) = Streamed(kind)

\* The accumulator has the parts, a Responses answer once it is whole.
PartsFit ==
    /\ \A k \in DOMAIN acc.blocks \ {0} :
          /\ acc.blocks[k].kind = vendor.blocks[k].kind
          /\ acc.blocks[k].parts = PartsOf(k, vendor.blocks[k].parts)
    /\ Chat => \A k \in 1 .. Current : vendor.blocks[k].kind \in Texts
    /\ Chat => IF Has(0) THEN Hold(<<acc.blocks[0].parts>>, "text") ELSE Streamed("text") = {}
    /\ Responses /\ vendor.finished =>
          \A k \in 1 .. Current : /\ acc.final[k].kind = vendor.blocks[k].kind
                                  /\ acc.final[k].parts = vendor.blocks[k].parts

LineHolds == \A kind \in Texts : Hold(ShownIn(Line, TypeOf(kind)), kind)

MessageHolds(message) ==
    \/ \A kind \in Texts : Hold(Contained(message, kind), kind)
    \/ Responses /\ ~vendor.finished /\ message = <<>>

TextInv ==
    /\ PartsFit
    /\ LineHolds
    /\ \A i \in 1 .. Len(Line) :
          Line[i].type = "model_call_completed" => MessageHolds(Line[i].message)

\* An event of another type adds nothing, one of the type its part.
LEMMA ShownAppended ==
    ASSUME NEW S, NEW line \in Seq(S), NEW e \in S, NEW type,
           NEW more, more = ShownIn(Append(line, e), type), InTurn(ShownIn(line, type)),
           e.type = type => \A p \in PartsAmong(ShownIn(line, type)) : Earlier(p, e.part)
    PROVE  /\ InTurn(more)
           /\ PartsAmong(more) = PartsAmong(ShownIn(line, type))
                                    \cup IF e.type = type THEN {e.part} ELSE {}
<1>0. Len(line) \in Nat
  OBVIOUS
<1>1. PICK n, g : n \in Nat /\ n = Len(line) /\ g = ShownIn(line, type)
  BY <1>0
<1>2. /\ DOMAIN line = 1 .. n /\ DOMAIN Append(line, e) = 1 .. n + 1
      /\ Append(line, e)[n + 1] = e
      /\ \A i \in 1 .. n : Append(line, e)[i] = line[i]
  BY <1>1
<1>3. DOMAIN g = 1 .. n /\ DOMAIN more = 1 .. n + 1
  BY <1>1, <1>2 DEF ShownIn
<1>4. \A i \in 1 .. n : more[i] = g[i]
  BY <1>1, <1>2 DEF ShownIn
<1>5. more[n + 1] = IF e.type = type THEN <<e.part>> ELSE <<>>
  BY <1>1, <1>2 DEF ShownIn
<1>6. 1 .. n + 1 = 1 .. n \cup {n + 1} /\ \A i \in 1 .. n : i < n + 1
  BY <1>1
<1>7. Range(more[n + 1]) = (IF e.type = type THEN {e.part} ELSE {})
  BY <1>5 DEF Range
<1>8. PartsAmong(more) = PartsAmong(g) \cup IF e.type = type THEN {e.part} ELSE {}
  BY <1>3, <1>4, <1>6, <1>7 DEF PartsAmong
<1>9. ASSUME NEW i \in 1 .. n, NEW x \in DOMAIN g[i] PROVE g[i][x] \in PartsAmong(g)
  BY <1>3, <1>9 DEF PartsAmong, Range
<1>10. InTurn(more)
  <2>1. SUFFICES ASSUME NEW i \in DOMAIN more, NEW j \in DOMAIN more,
                        NEW x \in DOMAIN more[i], NEW y \in DOMAIN more[j],
                        i < j \/ (i = j /\ x < y)
                 PROVE  Earlier(more[i][x], more[j][y])
    BY DEF InTurn
  <2>1a. i \in 1 .. n + 1 /\ j \in 1 .. n + 1
    BY <1>3
  <2> USE <2>1a
  <2>2. CASE i \in 1 .. n /\ j \in 1 .. n
    <3>1. more[i] = g[i] /\ more[j] = g[j]
      BY <1>4, <2>2
    <3> QED BY <1>1, <1>3, <2>1, <2>2, <3>1 DEF InTurn
  <2>3. CASE j = n + 1
    <3>1. e.type = type /\ more[j] = <<e.part>> /\ y = 1
      BY <1>5, <2>1, <2>3
    <3>2. CASE i = n + 1
      BY <1>5, <2>1, <2>3, <3>1, <3>2
    <3>3. CASE i \in 1 .. n
      <4>1. more[i][x] = g[i][x] /\ g[i][x] \in PartsAmong(g)
        BY <1>4, <1>9, <3>3
      <4> QED BY <1>1, <3>1, <4>1
    <3> QED BY <1>6, <3>2, <3>3
  <2>4. CASE i = n + 1 /\ j \in 1 .. n
    BY <1>6, <2>1, <2>4
  <2> QED BY <1>6, <2>2, <2>3, <2>4
<1> QED BY <1>1, <1>8, <1>10

\* What a vendor's message does to the parts of its blocks.
LEMMA VendorParts ==
    ASSUME AdapterTypes, Chat => Closed = {}, NEW raw \in Raw, Legal(raw), vendor' = Sent(raw)
    PROVE  /\ \A k \in 1 .. Current :
                 /\ k \in 1 .. Current' /\ vendor'.blocks[k].kind = vendor.blocks[k].kind
                 /\ vendor'.blocks[k].parts = IF raw.type = "delta" /\ k = Current THEN raw.n
                                              ELSE vendor.blocks[k].parts
           /\ raw.type = "open" =>
                 /\ vendor'.blocks[Current + 1].kind = raw.kind
                 /\ vendor'.blocks[Current + 1].parts = raw.n
                 /\ raw.n = 0 \/ (raw.n = 1 /\ Anthropic /\ raw.kind = "reasoning")
           /\ raw.type = "delta" =>
                 /\ raw.kind = vendor.blocks[Current].kind
                 /\ raw.n = vendor.blocks[Current].parts + 1
           /\ Current' = IF raw.type = "open" THEN Current + 1 ELSE Current
<1>1. PICK s, n : s = vendor.blocks /\ n = Len(s)
  OBVIOUS
<1>2. s \in Seq(VendorBlock) /\ n \in Nat /\ Current = n
  BY <1>1 DEF AdapterTypes, Vendors, Current
<1>3. vendor \in Vendors /\ \A k \in 1 .. n : s[k] \in VendorBlock
  BY <1>1, <1>2 DEF AdapterTypes
<1>4. raw.type \in {"start", "open", "delta", "close", "finish", "usage"}
  BY DEF Raw
<1>5. Current' = IF raw.type = "open" THEN n + 1 ELSE n
  BY <1>2, <1>4, VendorMoves
<1>6. CASE raw.type = "open"
  <2>1. PICK b : b = [kind |-> raw.kind, parts |-> raw.n, closed |-> FALSE]
    OBVIOUS
  <2>2. vendor' = [vendor EXCEPT !.blocks = Append(s, b)]
    BY <1>1, <1>6, <2>1 DEF Sent
  <2>3. vendor'.blocks = Append(s, b)
    BY <1>3, <2>2 DEF Vendors
  <2>4. Append(s, b)[n + 1] = b /\ \A k \in 1 .. n : Append(s, b)[k] = s[k]
    BY <1>1, <1>2
  <2>5. b.kind = raw.kind /\ b.parts = raw.n
    BY <2>1
  <2>6. raw.n = 0 \/ (raw.n = 1 /\ Anthropic /\ raw.kind = "reasoning")
    BY <1>6 DEF Legal
  <2> QED BY <1>1, <1>2, <1>5, <1>6, <2>3, <2>4, <2>5, <2>6
<1>7. CASE raw.type \in {"delta", "close"}
  <2>1. n >= 1 /\ Latest = s[n]
    <3>1. Latest.closed => FALSE
      BY <1>7 DEF Legal
    <3>2. n # 0
      BY <1>2, <3>1 DEF Latest, NoBlock
    <3> QED BY <1>1, <1>2, <3>2 DEF Latest
  <2>2. PICK b : b = IF raw.type = "delta" THEN [s[n] EXCEPT !.parts = raw.n]
                     ELSE [s[n] EXCEPT !.closed = TRUE]
    OBVIOUS
  <2>3. s[n] \in VendorBlock
    BY <1>2, <1>3, <2>1
  <2>4. /\ b.kind = s[n].kind
        /\ b.parts = IF raw.type = "delta" THEN raw.n ELSE s[n].parts
    BY <1>7, <2>2, <2>3 DEF VendorBlock
  <2>5. vendor' = [vendor EXCEPT !.blocks = [s EXCEPT ![n] = b]]
    <3>1. CASE raw.type = "delta"
      <4>1. vendor' = [vendor EXCEPT !.blocks[n].parts = raw.n]
        BY <1>2, <3>1 DEF Sent
      <4>2. b = [s[n] EXCEPT !.parts = raw.n]
        BY <2>2, <3>1
      <4> QED BY <1>1, <4>1, <4>2
    <3>2. CASE raw.type = "close"
      <4>1. vendor' = [vendor EXCEPT !.blocks[n].closed = TRUE]
        BY <1>2, <3>2 DEF Sent
      <4>2. b = [s[n] EXCEPT !.closed = TRUE]
        BY <2>2, <3>2
      <4> QED BY <1>1, <4>1, <4>2
    <3> QED BY <1>7, <3>1, <3>2
  <2>6. PICK t : t = [s EXCEPT ![n] = b]
    OBVIOUS
  <2>7. t[n] = b /\ \A k \in 1 .. n : k # n => t[k] = s[k]
    BY <1>1, <1>2, <2>1, <2>6
  <2>8. vendor'.blocks = t
    BY <1>3, <2>5, <2>6 DEF Vendors
  <2>9. raw.type = "delta" => raw.kind = s[n].kind /\ raw.n = s[n].parts + 1
    BY <2>1 DEF Legal
  <2>10. \A k \in 1 .. n : k \in 1 .. n /\ t[k].kind = s[k].kind
                           /\ t[k].parts = IF raw.type = "delta" /\ k = n THEN raw.n ELSE s[k].parts
    BY <2>4, <2>7
  <2> QED BY <1>1, <1>2, <1>5, <1>7, <2>8, <2>9, <2>10
<1>8. CASE raw.type \in {"start", "finish", "usage"}
  <2>1. vendor'.blocks = s
    BY <1>1, <1>3, <1>8 DEF Sent, Vendors
  <2> QED BY <1>1, <1>2, <1>5, <1>8, <2>1
<1> QED BY <1>4, <1>6, <1>7, <1>8

LEMMA SentParts ==
    ASSUME AdapterTypes, NEW k \in 1 .. Current
    PROVE  vendor.blocks[k].parts \in Nat
<1>1. vendor.blocks[k] \in VendorBlock
  BY DEF AdapterTypes, Vendors, Current
<1>2. vendor.blocks[k].parts \in 0 .. Whole
  BY <1>1 DEF VendorBlock
<1> QED BY <1>2, BlocksAssumption

\* What it does to what was sent of a kind: a part comes after all others.
LEMMA StreamedGrows ==
    ASSUME AdapterTypes, Chat => Closed = {}, NEW raw \in Raw, Legal(raw), vendor' = Sent(raw),
           NEW kind \in Texts
    PROVE  /\ Streamed(kind)' = Streamed(kind)
                 \cup IF raw.type = "delta" /\ raw.kind = kind THEN {<<Current, raw.n>>} ELSE {}
           /\ raw.type = "delta" => \A p \in Streamed(kind) : Earlier(p, <<Current, raw.n>>)
<1>1. PICK c : c = Current
  OBVIOUS
<1>2. c \in Nat /\ (raw.type = "delta" => c >= 1)
  BY <1>1, VendorMoves
<1>3. /\ Current' = IF raw.type = "open" THEN c + 1 ELSE c
      /\ \A k \in 1 .. c : /\ k \in 1 .. Current' /\ vendor'.blocks[k].kind = vendor.blocks[k].kind
                           /\ vendor'.blocks[k].parts = IF raw.type = "delta" /\ k = c THEN raw.n
                                                        ELSE vendor.blocks[k].parts
      /\ raw.type = "open" =>
            /\ vendor'.blocks[c + 1].kind = raw.kind /\ vendor'.blocks[c + 1].parts = raw.n
            /\ raw.n = 0 \/ raw.kind = "reasoning"
      /\ raw.type = "delta" =>
            raw.kind = vendor.blocks[c].kind /\ raw.n = vendor.blocks[c].parts + 1
  BY <1>1, VendorParts
<1>4. \A k \in 1 .. c : vendor.blocks[k].parts \in Nat
  BY <1>1, SentParts
<1>5. ASSUME NEW k \in Nat, NEW n \in Nat
      PROVE  /\ <<k, n>> \in Streamed(kind) <=>
                   k \in 1 .. c /\ vendor.blocks[k].kind = kind /\ n \in 1 .. vendor.blocks[k].parts
             /\ <<k, n>> \in Streamed(kind)' <=>
                   k \in 1 .. Current' /\ vendor'.blocks[k].kind = kind
                   /\ n \in 1 .. vendor'.blocks[k].parts
  BY <1>1 DEF Streamed, Part
<1>6. /\ \A p \in Streamed(kind) \cup Streamed(kind)' : \E k \in Nat, n \in Nat : p = <<k, n>>
      /\ raw.n \in Nat
  <2>1. Streamed(kind) \subseteq Part /\ Streamed(kind)' \subseteq Part
    BY DEF Streamed
  <2>2. raw.n \in 0 .. Whole
    BY DEF Raw
  <2>3. raw.n \in Nat
    BY <2>2, BlocksAssumption
  <2> QED BY <2>1, <2>3 DEF Part
<1>7. ASSUME NEW k \in Nat, NEW n \in Nat
      PROVE  <<k, n>> \in Streamed(kind)' <=>
                \/ <<k, n>> \in Streamed(kind)
                \/ raw.type = "delta" /\ raw.kind = kind /\ k = c /\ n = raw.n
  <2>1. CASE raw.type = "open"
    <3>1. CASE k = c + 1
      <4>1. <<k, n>> \notin Streamed(kind)
        <5>1. k \notin 1 .. c
          BY <1>2, <3>1
        <5> QED BY <1>5, <5>1
      <4>2. <<k, n>> \notin Streamed(kind)'
        <5>1. kind # "reasoning"
          BY DEF Texts
        <5> QED BY <1>3, <1>5, <2>1, <3>1, <5>1
      <4> QED BY <2>1, <4>1, <4>2
    <3>2. CASE k # c + 1
      <4>1. k \in 1 .. Current' <=> k \in 1 .. c
        BY <1>2, <1>3, <2>1, <3>2
      <4>2. k \in 1 .. c => /\ vendor'.blocks[k].kind = vendor.blocks[k].kind
                            /\ vendor'.blocks[k].parts = vendor.blocks[k].parts
        BY <1>3, <2>1
      <4> QED BY <1>5, <2>1, <4>1, <4>2
    <3> QED BY <3>1, <3>2
  <2>2. CASE raw.type = "delta"
    <3>1. CASE k \in 1 .. c /\ k # c
      BY <1>3, <1>5, <2>2, <3>1
    <3>2. CASE k = c
      <4>1. /\ k \in 1 .. c <=> c # 0
            /\ c # 0 => vendor.blocks[k].parts \in Nat
        BY <1>2, <1>4, <3>2
      <4>2. /\ Current' = c /\ vendor'.blocks[k].kind = vendor.blocks[k].kind
            /\ vendor'.blocks[k].parts = vendor.blocks[k].parts + 1
            /\ raw.kind = vendor.blocks[k].kind /\ raw.n = vendor.blocks[k].parts + 1
        BY <1>2, <1>3, <2>2, <3>2
      <4> QED BY <1>2, <1>5, <2>2, <3>2, <4>1, <4>2
    <3>3. CASE k \notin 1 .. c
      BY <1>2, <1>3, <1>5, <2>2, <3>3
    <3> QED BY <3>1, <3>2, <3>3
  <2>3. CASE raw.type \notin {"open", "delta"}
    BY <1>3, <1>5, <2>3
  <2> QED BY <2>1, <2>2, <2>3
<1>8. Streamed(kind)' = Streamed(kind)
         \cup IF raw.type = "delta" /\ raw.kind = kind THEN {<<c, raw.n>>} ELSE {}
  <2>1. \A p \in Streamed(kind)' :
           \/ p \in Streamed(kind)
           \/ raw.type = "delta" /\ raw.kind = kind /\ p = <<c, raw.n>>
    <3>1. ASSUME NEW p \in Streamed(kind)'
          PROVE  \/ p \in Streamed(kind)
                 \/ raw.type = "delta" /\ raw.kind = kind /\ p = <<c, raw.n>>
      <4>1. PICK k \in Nat, n \in Nat : p = <<k, n>>
        BY <1>6, <3>1
      <4> QED BY <1>7, <3>1, <4>1
    <3> QED BY <3>1
  <2>2. raw.type = "delta" /\ raw.kind = kind => <<c, raw.n>> \in Streamed(kind)'
    BY <1>2, <1>6, <1>7
  <2>3. Streamed(kind) \subseteq Streamed(kind)'
    BY <1>6, <1>7
  <2> QED BY <2>1, <2>2, <2>3
<1>9. ASSUME raw.type = "delta", NEW p \in Streamed(kind) PROVE Earlier(p, <<c, raw.n>>)
  <2>1. PICK k \in Nat, n \in Nat : p = <<k, n>>
    BY <1>6
  <2>2. k \in 1 .. c /\ n \in 1 .. vendor.blocks[k].parts
    BY <1>5, <2>1
  <2>3. k < c \/ (k = c /\ n < raw.n)
    BY <1>2, <1>3, <1>4, <1>9, <2>2
  <2> QED BY <2>1, <2>3 DEF Earlier
<1> QED BY <1>1, <1>8, <1>9

\* What the consumer will be shown of a vendor's message.
Shows(raw, o) ==
    IF raw.type = "delta" /\ raw.kind \in Texts
    THEN \E d : o = <<d>> /\ d.type = TypeOf(raw.kind) /\ d.part = <<Current, raw.n>>
    ELSE o = <<>> \/ \E d : o = <<d>> /\ d.type \notin {"text_delta", "tool_call_args_delta"}

LEMMA DeltaShows ==
    ASSUME NEW type, NEW id, NEW part
    PROVE  Delta(type, id, part).type = type /\ Delta(type, id, part).part = part
  BY DEF Delta

LEMMA HandleShows ==
    ASSUME AdapterTypes, AccFits, PartsFit, NEW raw \in Raw, Legal(raw), vendor' = Sent(raw)
    PROVE  Shows(raw, Handle(raw).out)
<1>1. /\ Anthropic \/ Responses \/ Chat
      /\ ~(Anthropic /\ Responses) /\ ~(Anthropic /\ Chat) /\ ~(Responses /\ Chat)
  BY OneProtocol DEF AdapterTypes
<1>2. /\ raw.type \in {"start", "open", "delta", "close", "finish", "usage"}
      /\ raw.kind \in Kinds \cup {""}
  BY DEF Raw
<1>3. Chat => Closed = {}
  BY DEF AccFits
<1>4. raw.type = "delta" => /\ raw.kind \in Kinds /\ (raw.kind = "tool" <=> Current \in Begun)
  BY <1>3, VendorMoves
<1>5. PICK d : d = Delta(IF raw.type = "open" THEN "tool_call_started"
                         ELSE IF raw.type = "close" THEN "tool_call_completed"
                         ELSE IF raw.kind = "text" THEN "text_delta"
                         ELSE IF raw.kind = "tool" THEN "tool_call_args_delta"
                         ELSE "reasoning_delta", NoId, <<Current, raw.n>>)
  OBVIOUS
<1>6. CASE Anthropic
  <2>1. Handle(raw) = HandleAnthropic(raw)
    BY <1>1, <1>6 DEF Handle
  <2>2. raw.type # "usage"
    BY <1>1, <1>6 DEF Legal
  <2>3. CASE raw.type = "open"
    <3>1. HandleAnthropic(raw).out = IF raw.kind = "tool"
             THEN <<Delta("tool_call_started", CallId(Current + 1), NoPart)>> ELSE <<>>
      BY <2>3 DEF HandleAnthropic, OnBlockStart
    <3> QED BY <2>1, <2>3, <3>1, DeltaShows DEF Shows
  <2>4. CASE raw.type = "delta"
    <3>1. HandleAnthropic(raw).out =
             CASE raw.kind = "text" -> <<Said("text_delta", Current, raw.n)>>
               [] raw.kind = "tool" ->
                     <<Delta("tool_call_args_delta", acc.blocks[Current].id, <<Current, raw.n>>)>>
               [] raw.kind = "reasoning" ->
                     IF raw.n < Whole THEN <<Said("reasoning_delta", Current, raw.n)>> ELSE <<>>
      BY <2>4 DEF HandleAnthropic, OnBlockDelta
    <3> QED BY <1>4, <2>1, <2>4, <3>1, DeltaShows DEF Shows, Said, Texts, TypeOf, Kinds
  <2>5. CASE raw.type = "close"
    <3>1. HandleAnthropic(raw).out = IF raw.kind = "tool"
             THEN <<Delta("tool_call_completed", acc.blocks[Current].id, NoPart)>> ELSE <<>>
      BY <2>5 DEF HandleAnthropic, OnBlockStop
    <3> QED BY <2>1, <2>5, <3>1, DeltaShows DEF Shows
  <2>6. CASE raw.type \in {"start", "finish"}
    <3>1. HandleAnthropic(raw).out = <<>>
      BY <2>6 DEF HandleAnthropic, Quiet
    <3> QED BY <2>1, <2>6, <3>1 DEF Shows
  <2> QED BY <1>2, <2>2, <2>3, <2>4, <2>5, <2>6
<1>7. CASE Responses
  <2>1. Handle(raw) = HandleResponses(raw)
    BY <1>1, <1>7 DEF Handle
  <2>2. CASE raw.type = "open" /\ raw.kind = "tool"
    <3>1. HandleResponses(raw).out = <<Delta("tool_call_started", CallId(Current + 1), NoPart)>>
      BY <2>2 DEF HandleResponses
    <3> QED BY <2>1, <2>2, <3>1, DeltaShows DEF Shows
  <2>3. CASE raw.type = "delta"
    <3>1. HandleResponses(raw).out =
             CASE raw.kind = "text" -> <<Said("text_delta", Current, raw.n)>>
               [] raw.kind = "reasoning" -> <<Said("reasoning_delta", Current, raw.n)>>
               [] raw.kind = "tool" ->
                     <<Delta("tool_call_args_delta", IdOfItem(Current), <<Current, raw.n>>)>>
      BY <2>3 DEF HandleResponses
    <3> QED BY <1>4, <2>1, <2>3, <3>1, DeltaShows DEF Shows, Said, Texts, TypeOf, Kinds
  <2>4. CASE raw.type = "close" /\ raw.kind = "tool"
    <3>1. HandleResponses(raw).out = <<Delta("tool_call_completed", CallId(Current), NoPart)>>
      BY <2>4 DEF HandleResponses
    <3> QED BY <2>1, <2>4, <3>1, DeltaShows DEF Shows
  <2>5. CASE raw.type \in {"start", "finish", "usage"} \/ (raw.type \in {"open", "close"} /\ raw.kind # "tool")
    <3>1. HandleResponses(raw).out = <<>>
      BY <2>5 DEF HandleResponses, Quiet
    <3> QED BY <2>1, <2>5, <3>1 DEF Shows
  <2> QED BY <1>2, <2>2, <2>3, <2>4, <2>5
<1>8. CASE Chat
  <2>1. Handle(raw) = HandleChat(raw)
    BY <1>1, <1>8 DEF Handle
  <2>2. raw.type # "close" /\ (raw.type \in {"start", "finish", "usage"} => raw.kind = "")
    BY <1>8, <1>1 DEF Legal
  <2>3. CASE raw.type = "open" /\ raw.kind = "tool"
    <3>1. PICK e : e = Delta("tool_call_started", CallId(Current + 1), NoPart)
      OBVIOUS
    <3>2. HandleChat(raw).out = (IF Current + 1 \in acc.started THEN <<>> ELSE <<e>>) \o <<>>
      BY <2>3, <3>1 DEF HandleChat, OnToolCallDelta, NewBlock
    <3>3. HandleChat(raw).out \in {<<>>, <<e>>}
      BY <3>2
    <3>4. e.type = "tool_call_started"
      BY <3>1, DeltaShows
    <3> QED BY <2>1, <2>3, <3>3, <3>4 DEF Shows
  <2>4. CASE raw.type = "delta" /\ raw.kind = "tool"
    <3>1. Current \in Begun /\ acc.started = Begun
      BY <1>4, <1>8, <2>4 DEF AccFits
    <3>2. PICK e, b : /\ b = [acc.blocks[Current] EXCEPT !.parts = Append(@, <<Current, raw.n>>)]
                      /\ e = Delta("tool_call_args_delta", b.id, <<Current, raw.n>>)
      OBVIOUS
    <3>3. HandleChat(raw).out = <<>> \o <<e>>
      BY <2>4, <3>1, <3>2 DEF HandleChat, OnToolCallDelta
    <3>4. HandleChat(raw).out = <<e>>
      BY <3>3
    <3>5. e.type = "tool_call_args_delta" /\ e.part = <<Current, raw.n>>
      BY <3>2, DeltaShows
    <3> QED BY <2>1, <2>4, <3>4, <3>5 DEF Shows, Texts, TypeOf
  <2>5. CASE raw.type = "delta" /\ raw.kind # "tool"
    <3>1. HandleChat(raw).out = <<Said("text_delta", Current, raw.n)>>
      BY <2>5 DEF HandleChat
    <3>2. raw.kind = "text"
      <4>1. PICK c : c = Current
        OBVIOUS
      <4>2. Current \in Nat /\ Current >= 1
        BY <1>3, <2>5, VendorMoves
      <4>3. raw.kind = vendor.blocks[c].kind
        BY <1>3, <2>5, <4>1, VendorParts
      <4>4. c \in 1 .. c
        BY <4>1, <4>2
      <4> QED BY <1>8, <2>5, <4>1, <4>3, <4>4 DEF PartsFit, Texts
    <3> QED BY <2>1, <2>5, <3>1, <3>2, DeltaShows DEF Shows, Said, Texts, TypeOf
  <2>6. CASE raw.type \in {"start", "finish", "usage"} \/ (raw.type = "open" /\ raw.kind # "tool")
    <3>1. HandleChat(raw).out = <<>>
      BY <2>2, <2>6 DEF HandleChat, Quiet
    <3> QED BY <2>1, <2>6, <3>1 DEF Shows
  <2> QED BY <1>2, <2>2, <2>3, <2>4, <2>5, <2>6
<1> QED BY <1>1, <1>6, <1>7, <1>8

LEMMA PartsOfGrows ==
    /\ \A k : PartsOf(k, 0) = <<>> /\ PartsOf(k, 1) = <<<<k, 1>>>>
    /\ \A k, n \in Nat : Append(PartsOf(k, n), <<k, n + 1>>) = PartsOf(k, n + 1)
<1>1. ASSUME NEW k PROVE PartsOf(k, 0) = <<>> /\ PartsOf(k, 1) = <<<<k, 1>>>>
  <2>1. 1 .. 0 = {} /\ 1 .. 1 = {1}
    OBVIOUS
  <2> QED BY <2>1 DEF PartsOf
<1>2. ASSUME NEW k \in Nat, NEW n \in Nat
      PROVE  Append(PartsOf(k, n), <<k, n + 1>>) = PartsOf(k, n + 1)
  <2>1. PICK s, t : s = PartsOf(k, n) /\ t = PartsOf(k, n + 1)
    OBVIOUS
  <2>2. /\ s = [j \in 1 .. n |-> <<k, j>>] /\ t = [j \in 1 .. n + 1 |-> <<k, j>>]
    BY <2>1 DEF PartsOf
  <2>3. s \in Seq(Part) /\ Len(s) = n /\ t \in Seq(Part)
    <3>1. \A j \in 1 .. n + 1 : <<k, j>> \in Part
      BY DEF Part
    <3> QED BY <2>2, <3>1
  <2>4. Append(s, <<k, n + 1>>) = [j \in 1 .. n + 1 |-> IF j <= n THEN s[j] ELSE <<k, n + 1>>]
    BY <2>3
  <2>5. \A j \in 1 .. n + 1 : t[j] = IF j <= n THEN s[j] ELSE <<k, n + 1>>
    BY <2>2
  <2> QED BY <2>1, <2>2, <2>4, <2>5
<1> QED BY <1>1, <1>2

\* One group of parts, and the next part in it.
GroupGrows(s, q) ==
    InTurn(<<Append(s, q)>>) /\ PartsAmong(<<Append(s, q)>>) = PartsAmong(<<s>>) \cup {q}

LEMMA GroupAppended ==
    ASSUME NEW S, NEW s \in Seq(S), NEW q \in S, InTurn(<<s>>), \A p \in Range(s) : Earlier(p, q)
    PROVE  GroupGrows(s, q)
<1>1. PICK n, t : n = Len(s) /\ t = Append(s, q)
  OBVIOUS
<1>2. /\ n \in Nat /\ DOMAIN s = 1 .. n /\ DOMAIN t = 1 .. n + 1 /\ t[n + 1] = q
      /\ \A x \in 1 .. n : t[x] = s[x]
      /\ 1 .. n + 1 = 1 .. n \cup {n + 1}
  BY <1>1
<1>3. PICK g, h : g = <<s>> /\ h = <<t>>
  OBVIOUS
<1>4. DOMAIN g = {1} /\ DOMAIN h = {1} /\ g[1] = s /\ h[1] = t
  BY <1>3
<1>5. PartsAmong(g) = Range(s) /\ PartsAmong(h) = Range(t)
  BY <1>4 DEF PartsAmong
<1>6. Range(t) = Range(s) \cup {q}
  BY <1>2 DEF Range
<1>7. ASSUME NEW x \in 1 .. n + 1, NEW y \in 1 .. n + 1, x < y PROVE Earlier(t[x], t[y])
  <2>1. x \in 1 .. n
    BY <1>2, <1>7
  <2>2. t[x] = s[x] /\ s[x] \in Range(s)
    BY <1>2, <2>1 DEF Range
  <2>3. CASE y \in 1 .. n
    <3>1. t[y] = s[y] /\ Earlier(g[1][x], g[1][y])
      BY <1>2, <1>3, <1>4, <1>7, <2>1, <2>3 DEF InTurn
    <3> QED BY <1>4, <2>2, <3>1
  <2>4. CASE y = n + 1
    BY <1>2, <2>2, <2>4
  <2> QED BY <1>2, <2>3, <2>4
<1>8. InTurn(h)
  <2>1. SUFFICES ASSUME NEW i \in DOMAIN h, NEW j \in DOMAIN h,
                        NEW x \in DOMAIN h[i], NEW y \in DOMAIN h[j],
                        i < j \/ (i = j /\ x < y)
                 PROVE  Earlier(h[i][x], h[j][y])
    BY DEF InTurn
  <2>2. i = 1 /\ j = 1 /\ x < y
    BY <1>4, <2>1
  <2>3. x \in 1 .. n + 1 /\ y \in 1 .. n + 1
    BY <1>2, <1>4, <2>1
  <2> QED BY <1>4, <1>7, <2>2, <2>3
<1> QED BY <1>1, <1>3, <1>5, <1>6, <1>8 DEF GroupGrows

\* A step that leaves the blocks of the accumulator and the parts of the vendor.
LEMMA PartsStay ==
    ASSUME AdapterTypes, AccFits, PartsFit, acc'.blocks = acc.blocks,
           \A k \in 1 .. Current : /\ vendor'.blocks[k].kind = vendor.blocks[k].kind
                                   /\ vendor'.blocks[k].parts = vendor.blocks[k].parts
    PROVE  \A k \in DOMAIN acc'.blocks \ {0} :
              /\ acc'.blocks[k].kind = vendor'.blocks[k].kind
              /\ acc'.blocks[k].parts = PartsOf(k, vendor'.blocks[k].parts)
<1>1. DOMAIN acc.blocks \ {0} \subseteq 1 .. Current
  BY OneProtocol, Numbers DEF AccFits, AdapterTypes
<1> QED BY <1>1 DEF PartsFit

LEMMA AnthropicParts ==
    ASSUME AdapterTypes, AccFits, PartsFit, Anthropic,
           NEW raw \in Raw, Legal(raw), vendor' = Sent(raw), UNCHANGED protocol,
           NEW h, h = HandleAnthropic(raw), acc' = h.acc
    PROVE  PartsFit'
<1>1. /\ ~Responses' /\ ~Chat' /\ ~Chat /\ DOMAIN acc.blocks = 1 .. Current
      /\ acc \in Accumulators
  <2>1. UNCHANGED <<Responses, Chat>>
    BY DEF Responses, Chat
  <2> QED BY <2>1, OneProtocol DEF AdapterTypes, AccFits
<1>2. PICK c : c = Current
  OBVIOUS
<1>3. c \in Nat /\ \A k \in DOMAIN acc.blocks : acc.blocks[k] \in Block
  BY <1>2, Numbers
<1>4. /\ \A k \in 1 .. c : /\ vendor'.blocks[k].kind = vendor.blocks[k].kind
                           /\ vendor'.blocks[k].parts = IF raw.type = "delta" /\ k = c THEN raw.n
                                                        ELSE vendor.blocks[k].parts
      /\ raw.type = "open" =>
            /\ vendor'.blocks[c + 1].kind = raw.kind /\ vendor'.blocks[c + 1].parts = raw.n
            /\ raw.n \in {0, 1}
      /\ raw.type = "delta" => raw.n = vendor.blocks[c].parts + 1
  BY <1>1, <1>2, VendorParts
<1>5. ASSUME \A k \in DOMAIN acc'.blocks \ {0} :
                /\ acc'.blocks[k].kind = vendor'.blocks[k].kind
                /\ acc'.blocks[k].parts = PartsOf(k, vendor'.blocks[k].parts)
      PROVE  PartsFit'
  BY <1>1, <1>5 DEF PartsFit
<1>6. CASE raw.type = "open"
  <2>1. PICK s : s = IF raw.n = 1 THEN <<<<c + 1, 1>>>> ELSE <<>>
    OBVIOUS
  <2>2. PICK b : b = [NewBlock(raw.kind) EXCEPT
                        !.id = IF raw.kind = "tool" THEN CallId(c + 1) ELSE NoId, !.parts = s]
    OBVIOUS
  <2>3. b.kind = raw.kind /\ b.parts = s
    BY <2>2 DEF NewBlock
  <2>4. acc' = Put(c + 1, b)
    BY <1>2, <1>6, <2>1, <2>2 DEF HandleAnthropic, OnBlockStart
  <2>5. /\ DOMAIN acc'.blocks = DOMAIN acc.blocks \cup {c + 1} /\ acc'.blocks[c + 1] = b
        /\ \A j \in DOMAIN acc.blocks : j # c + 1 => acc'.blocks[j] = acc.blocks[j]
    BY <1>1, <2>4, PutBlocks
  <2>6. s = PartsOf(c + 1, raw.n)
    BY <1>4, <1>6, <2>1, PartsOfGrows
  <2>7. ASSUME NEW k \in DOMAIN acc'.blocks \ {0}
        PROVE  /\ acc'.blocks[k].kind = vendor'.blocks[k].kind
               /\ acc'.blocks[k].parts = PartsOf(k, vendor'.blocks[k].parts)
    <3>1. CASE k = c + 1
      BY <1>4, <1>6, <2>3, <2>5, <2>6, <3>1
    <3>2. CASE k # c + 1
      <4>1. k \in 1 .. c /\ k \in DOMAIN acc.blocks \ {0}
        BY <1>1, <1>2, <2>5, <2>7, <3>2
      <4> QED BY <1>4, <1>6, <2>5, <3>2, <4>1 DEF PartsFit
    <3> QED BY <3>1, <3>2
  <2> QED BY <1>5, <2>7
<1>7. CASE raw.type = "delta"
  <2>1. c >= 1
    BY <1>1, <1>2, <1>7, VendorMoves
  <2>2. PICK b, s : s = acc.blocks[c].parts /\ b = [acc.blocks[c] EXCEPT !.parts = Append(s, <<c, raw.n>>)]
    OBVIOUS
  <2>3. c \in DOMAIN acc.blocks \ {0} /\ acc.blocks[c] \in Block
    BY <1>1, <1>2, <1>3, <2>1
  <2>4. b.kind = acc.blocks[c].kind /\ b.parts = Append(s, <<c, raw.n>>)
    BY <2>2, <2>3 DEF Block
  <2>5. acc' = Put(c, b)
    BY <1>2, <1>7, <2>2 DEF HandleAnthropic, OnBlockDelta, Grown
  <2>6. /\ DOMAIN acc'.blocks = DOMAIN acc.blocks \cup {c} /\ acc'.blocks[c] = b
        /\ \A j \in DOMAIN acc.blocks : j # c => acc'.blocks[j] = acc.blocks[j]
    BY <1>1, <2>5, PutBlocks
  <2>7. vendor.blocks[c].parts \in Nat
    BY <1>2, <2>3, <1>1, SentParts
  <2>8. b.parts = PartsOf(c, raw.n)
    <3>1. s = PartsOf(c, vendor.blocks[c].parts)
      BY <2>2, <2>3 DEF PartsFit
    <3>2. raw.n = vendor.blocks[c].parts + 1
      BY <1>4, <1>7
    <3> QED BY <1>3, <2>4, <2>7, <3>1, <3>2, PartsOfGrows
  <2>9. ASSUME NEW k \in DOMAIN acc'.blocks \ {0}
        PROVE  /\ acc'.blocks[k].kind = vendor'.blocks[k].kind
               /\ acc'.blocks[k].parts = PartsOf(k, vendor'.blocks[k].parts)
    <3>1. k \in 1 .. c /\ k \in DOMAIN acc.blocks \ {0}
      BY <1>1, <1>2, <2>3, <2>6, <2>9
    <3>2. CASE k = c
      BY <1>4, <1>7, <2>3, <2>4, <2>6, <2>8, <3>1, <3>2 DEF PartsFit
    <3>3. CASE k # c
      BY <1>4, <2>6, <3>1, <3>3 DEF PartsFit
    <3> QED BY <3>2, <3>3
  <2> QED BY <1>5, <2>9
<1>8. CASE raw.type \in {"close", "start", "finish"}
  <2>1. acc'.blocks = acc.blocks
    <3>1. CASE raw.type = "close"
      BY <1>1, <3>1 DEF HandleAnthropic, OnBlockStop, Accumulators
    <3>2. CASE raw.type = "start"
      BY <1>1, <3>2 DEF HandleAnthropic, Quiet, Accumulators
    <3>3. CASE raw.type = "finish"
      BY <1>1, <3>3 DEF HandleAnthropic, Quiet, Accumulators
    <3> QED BY <1>8, <3>1, <3>2, <3>3
  <2> QED BY <1>2, <1>4, <1>5, <1>8, <2>1, PartsStay
<1>9. raw.type \in {"start", "open", "delta", "close", "finish"}
  <2>1. raw.type # "usage"
    BY <1>1 DEF Legal
  <2> QED BY <2>1 DEF Raw
<1> QED BY <1>6, <1>7, <1>8, <1>9

LEMMA ResponsesParts ==
    ASSUME AdapterTypes, AccFits, AccFits', PartsFit, Responses,
           NEW raw \in Raw, Legal(raw), vendor' = Sent(raw), UNCHANGED protocol,
           NEW h, h = HandleResponses(raw), acc' = h.acc
    PROVE  PartsFit'
<1>1. /\ ~Chat' /\ ~Chat /\ Responses' /\ DOMAIN acc'.blocks = {} /\ acc \in Accumulators
  <2>1. UNCHANGED <<Responses, Chat>>
    BY DEF Responses, Chat
  <2> QED BY <2>1, OneProtocol DEF AdapterTypes, AccFits
<1>2. PICK c : c = Current
  OBVIOUS
<1>3. /\ \A k \in 1 .. c : /\ vendor'.blocks[k].kind = vendor.blocks[k].kind
                           /\ raw.type # "delta" =>
                                 vendor'.blocks[k].parts = vendor.blocks[k].parts
      /\ raw.type # "open" => Current' = c
  BY <1>1, <1>2, VendorParts
<1>4. /\ vendor'.finished = (vendor.finished \/ raw.type = "finish")
      /\ vendor.finished => raw.type \notin {"open", "finish", "delta"}
  <2>1. raw.type = "delta" => ~vendor.finished
    BY DEF Legal
  <2> QED BY <2>1, VendorTells DEF AdapterTypes
<1>5. CASE raw.type = "finish"
  <2>1. acc'.final = vendor.blocks
    BY <1>1, <1>5 DEF HandleResponses, Quiet, Accumulators
  <2> QED BY <1>1, <1>2, <1>3, <1>5, <2>1 DEF PartsFit
<1>6. CASE raw.type # "finish" /\ vendor.finished
  <2>1. acc'.final = acc.final
    <3>1. raw.type # "open" /\ raw.type # "delta"
      BY <1>4, <1>6
    <3>2. acc' = acc
      BY <1>6, <3>1 DEF HandleResponses, Quiet
    <3> QED BY <3>2
  <2> QED BY <1>1, <1>2, <1>3, <1>4, <1>6, <2>1 DEF PartsFit
<1>7. CASE raw.type # "finish" /\ ~vendor.finished
  <2>1. ~vendor'.finished
    BY <1>4, <1>7
  <2> QED BY <1>1, <2>1 DEF PartsFit
<1> QED BY <1>5, <1>6, <1>7

LEMMA ChatParts ==
    ASSUME AdapterTypes, AccFits, PartsFit, Chat,
           NEW raw \in Raw, Legal(raw), vendor' = Sent(raw), UNCHANGED protocol,
           NEW h, h = HandleChat(raw), acc' = h.acc
    PROVE  PartsFit'
<1>1. /\ ~Responses' /\ Chat' /\ DOMAIN acc.blocks \ {0} = Begun /\ acc \in Accumulators
      /\ Chat => Closed = {}
  <2>1. UNCHANGED <<Responses, Chat>>
    BY DEF Responses, Chat
  <2> QED BY <2>1, OneProtocol DEF AdapterTypes, AccFits
<1>2. PICK c : c = Current
  OBVIOUS
<1>3. /\ c \in Nat /\ \A k \in DOMAIN acc.blocks : acc.blocks[k] \in Block
      /\ Begun \subseteq 1 .. c /\ c + 1 # 0 /\ 0 \notin 1 .. c
  BY <1>2, Numbers
<1>4. /\ \A k \in 1 .. c : /\ vendor'.blocks[k].kind = vendor.blocks[k].kind
                           /\ vendor'.blocks[k].parts = IF raw.type = "delta" /\ k = c THEN raw.n
                                                        ELSE vendor.blocks[k].parts
      /\ raw.type = "open" =>
            /\ vendor'.blocks[c + 1].kind = raw.kind /\ vendor'.blocks[c + 1].parts = raw.n
            /\ raw.n = 0
      /\ raw.type = "delta" => raw.kind = vendor.blocks[c].kind /\ raw.n = vendor.blocks[c].parts + 1
      /\ Current' = IF raw.type = "open" THEN c + 1 ELSE c
  <2>1. ~Anthropic
    BY OneProtocol DEF AdapterTypes
  <2> QED BY <1>1, <1>2, <2>1, VendorParts
<1>5. raw.type = "delta" => c >= 1 /\ (raw.kind = "tool" <=> c \in Begun)
  BY <1>1, <1>2, VendorMoves
<1>6. \A k \in 1 .. Current' : vendor'.blocks[k].kind \in Texts
  <2>1. raw.type = "open" => raw.kind \in Texts
    BY DEF Legal, Texts, Raw, Kinds
  <2>2. ASSUME NEW k \in 1 .. Current' PROVE k \in 1 .. c \/ (raw.type = "open" /\ k = c + 1)
    BY <1>3, <1>4
  <2> QED BY <1>2, <1>4, <2>1, <2>2 DEF PartsFit
<1>7. /\ Streamed("text")' = Streamed("text")
            \cup IF raw.type = "delta" /\ raw.kind = "text" THEN {<<c, raw.n>>} ELSE {}
      /\ raw.type = "delta" => \A p \in Streamed("text") : Earlier(p, <<c, raw.n>>)
  BY <1>1, <1>2, StreamedGrows DEF Texts
<1>8. ASSUME \A k \in DOMAIN acc'.blocks \ {0} :
                /\ acc'.blocks[k].kind = vendor'.blocks[k].kind
                /\ acc'.blocks[k].parts = PartsOf(k, vendor'.blocks[k].parts),
             \/ 0 \in DOMAIN acc'.blocks /\ Hold(<<acc.blocks[0].parts>>, "text")'
             \/ 0 \notin DOMAIN acc'.blocks /\ Streamed("text")' = {}
      PROVE  PartsFit'
  BY <1>1, <1>6, <1>8 DEF PartsFit, Has
<1>9. ASSUME Streamed("text")' = Streamed("text"), 0 \in DOMAIN acc'.blocks <=> 0 \in DOMAIN acc.blocks,
             0 \in DOMAIN acc.blocks => acc'.blocks[0] = acc.blocks[0]
      PROVE  \/ 0 \in DOMAIN acc'.blocks /\ Hold(<<acc.blocks[0].parts>>, "text")'
             \/ 0 \notin DOMAIN acc'.blocks /\ Streamed("text")' = {}
  BY <1>9 DEF PartsFit, Has, Hold
<1>10. CASE raw.type = "open" /\ raw.kind = "tool"
  <2>1. PICK b, p : b = [NewBlock("tool") EXCEPT !.id = CallId(c + 1)] /\ p = Put(c + 1, b)
    OBVIOUS
  <2>2. b.kind = "tool" /\ b.parts = <<>>
    BY <2>1 DEF NewBlock
  <2>3. acc' = [p EXCEPT !.started = @ \cup {c + 1}]
    <3>1. h = OnToolCallDelta(raw)
      BY <1>10 DEF HandleChat
    <3> QED BY <1>2, <1>10, <2>1, <3>1 DEF OnToolCallDelta
  <2>4. /\ DOMAIN p.blocks = DOMAIN acc.blocks \cup {c + 1} /\ p.blocks[c + 1] = b
        /\ \A j \in DOMAIN acc.blocks : j # c + 1 => p.blocks[j] = acc.blocks[j]
        /\ DOMAIN p = DOMAIN acc
    BY <1>1, <2>1, PutBlocks
  <2>5. acc'.blocks = p.blocks
    <3>1. DOMAIN acc = {"input", "output", "stop", "blocks", "started", "items", "final"}
      BY <1>1 DEF Accumulators
    <3> QED BY <2>3, <2>4, <3>1
  <2>6. ASSUME NEW k \in DOMAIN acc'.blocks \ {0}
        PROVE  /\ acc'.blocks[k].kind = vendor'.blocks[k].kind
               /\ acc'.blocks[k].parts = PartsOf(k, vendor'.blocks[k].parts)
    <3>1. CASE k = c + 1
      BY <1>4, <1>10, <2>2, <2>4, <2>5, <3>1, PartsOfGrows
    <3>2. CASE k # c + 1
      <4>1. k \in 1 .. c /\ k \in DOMAIN acc.blocks \ {0}
        BY <1>1, <1>3, <2>4, <2>5, <2>6, <3>2
      <4> QED BY <1>4, <1>10, <2>4, <2>5, <3>2, <4>1 DEF PartsFit
    <3> QED BY <3>1, <3>2
  <2> QED BY <1>3, <1>7, <1>8, <1>9, <1>10, <2>4, <2>5, <2>6
<1>11. CASE raw.type = "delta" /\ raw.kind = "tool"
  <2>1. c \in Begun /\ c \in 1 .. c
    BY <1>3, <1>5, <1>11
  <2>2. PICK b, p, s : /\ s = acc.blocks[c].parts
                       /\ b = [acc.blocks[c] EXCEPT !.parts = Append(s, <<c, raw.n>>)]
                       /\ p = Put(c, b)
    OBVIOUS
  <2>3. c \in DOMAIN acc.blocks \ {0} /\ acc.blocks[c] \in Block
    BY <1>1, <1>3, <2>1
  <2>4. b.kind = acc.blocks[c].kind /\ b.parts = Append(s, <<c, raw.n>>)
    BY <2>2, <2>3 DEF Block
  <2>5. acc' = [p EXCEPT !.started = @ \cup {c}]
    <3>1. h = OnToolCallDelta(raw)
      BY <1>11 DEF HandleChat
    <3>2. b = [acc.blocks[c] EXCEPT !.parts = Append(@, <<c, raw.n>>)]
      BY <2>2, <2>3 DEF Block
    <3>3. OnToolCallDelta(raw).acc = [p EXCEPT !.started = @ \cup {c}]
      <4>1. AddsPart(raw, MorePart(raw))
        BY <1>11, ToolDeltaIs
      <4>2. MorePart(raw) = b
        BY <1>2, <3>2 DEF MorePart
      <4> QED BY <1>2, <2>2, <4>1, <4>2 DEF AddsPart
    <3> QED BY <1>2, <3>1, <3>3
  <2>6. /\ DOMAIN p.blocks = DOMAIN acc.blocks \cup {c} /\ p.blocks[c] = b
        /\ \A j \in DOMAIN acc.blocks : j # c => p.blocks[j] = acc.blocks[j]
        /\ DOMAIN p = DOMAIN acc
    BY <1>1, <2>2, PutBlocks
  <2>7. acc'.blocks = p.blocks
    <3>1. DOMAIN acc = {"input", "output", "stop", "blocks", "started", "items", "final"}
      BY <1>1 DEF Accumulators
    <3> QED BY <2>5, <2>6, <3>1
  <2>8. b.parts = PartsOf(c, raw.n)
    <3>1. s = PartsOf(c, vendor.blocks[c].parts)
      BY <2>2, <2>3 DEF PartsFit
    <3>2. raw.n = vendor.blocks[c].parts + 1 /\ vendor.blocks[c].parts \in Nat
      BY <1>2, <1>4, <1>11, <2>1, SentParts
    <3> QED BY <1>3, <2>4, <3>1, <3>2, PartsOfGrows
  <2>9. ASSUME NEW k \in DOMAIN acc'.blocks \ {0}
        PROVE  /\ acc'.blocks[k].kind = vendor'.blocks[k].kind
               /\ acc'.blocks[k].parts = PartsOf(k, vendor'.blocks[k].parts)
    <3>1. k \in 1 .. c /\ k \in DOMAIN acc.blocks \ {0}
      BY <1>1, <1>3, <2>3, <2>6, <2>7, <2>9
    <3>2. CASE k = c
      BY <1>4, <1>11, <2>3, <2>4, <2>6, <2>7, <2>8, <3>1, <3>2 DEF PartsFit
    <3>3. CASE k # c
      BY <1>4, <2>6, <2>7, <3>1, <3>3 DEF PartsFit
    <3> QED BY <3>2, <3>3
  <2>10. Streamed("text")' = Streamed("text")
    BY <1>7, <1>11
  <2>11. \/ 0 \in DOMAIN acc'.blocks /\ Hold(<<acc.blocks[0].parts>>, "text")'
         \/ 0 \notin DOMAIN acc'.blocks /\ Streamed("text")' = {}
    <3>1. c # 0
      BY <1>3, <2>1
    <3> QED BY <1>9, <2>3, <2>6, <2>7, <2>10, <3>1
  <2> QED BY <1>8, <2>9, <2>11
<1>12. CASE raw.type = "delta" /\ raw.kind # "tool"
  <2>1. raw.kind = "text" /\ c \in 1 .. c
    <3>1. c \in 1 .. c
      BY <1>3, <1>5, <1>12
    <3> QED BY <1>2, <1>4, <1>12, <3>1 DEF PartsFit, Texts
  <2>2. PICK q, s, b : /\ q = <<c, raw.n>> /\ s = IF Has(0) THEN acc.blocks[0].parts ELSE <<>>
                       /\ b = IF Has(0) THEN [acc.blocks[0] EXCEPT !.parts = Append(s, q)]
                              ELSE [NewBlock("text") EXCEPT !.parts = <<q>>]
    OBVIOUS
  <2>3. b.parts = Append(s, q)
    <3>1. CASE Has(0)
      <4>1. acc.blocks[0] \in Block
        BY <1>3, <3>1 DEF Has
      <4> QED BY <2>2, <3>1, <4>1 DEF Block
    <3>2. CASE ~Has(0)
      <4>1. Append(<<>>, q) = <<q>>
        OBVIOUS
      <4> QED BY <2>2, <3>2, <4>1 DEF NewBlock
    <3> QED BY <3>1, <3>2
  <2>4. acc' = Put(0, b)
    <3>1. acc' = IF Has(0) THEN Grown(0, raw.n)
                 ELSE Put(0, [NewBlock("text") EXCEPT !.parts = <<<<Current, raw.n>>>>])
      BY <1>12 DEF HandleChat
    <3> QED BY <1>2, <2>2, <3>1 DEF Grown
  <2>5. /\ DOMAIN acc'.blocks = DOMAIN acc.blocks \cup {0} /\ acc'.blocks[0] = b
        /\ \A j \in DOMAIN acc.blocks : j # 0 => acc'.blocks[j] = acc.blocks[j]
    BY <1>1, <2>4, PutBlocks
  <2>6. ASSUME NEW k \in DOMAIN acc'.blocks \ {0}
        PROVE  /\ acc'.blocks[k].kind = vendor'.blocks[k].kind
               /\ acc'.blocks[k].parts = PartsOf(k, vendor'.blocks[k].parts)
    <3>1. k \in 1 .. c /\ k \in DOMAIN acc.blocks \ {0} /\ k # c
      BY <1>1, <1>3, <1>5, <1>12, <2>5, <2>6
    <3> QED BY <1>4, <2>5, <3>1 DEF PartsFit
  <2>7. InTurn(<<s>>) /\ PartsAmong(<<s>>) = Streamed("text") /\ s \in Seq(Part)
    <3>1. CASE Has(0)
      <4>1. acc.blocks[0] \in Block
        BY <1>3, <3>1 DEF Has
      <4> QED BY <2>2, <3>1, <4>1 DEF PartsFit, Hold, Block
    <3>2. CASE ~Has(0)
      <4>1. s = <<>> /\ Streamed("text") = {}
        BY <2>2, <3>2 DEF PartsFit
      <4>2. PICK g : g = <<s>>
        OBVIOUS
      <4>3. DOMAIN g = {1} /\ g[1] = <<>> /\ DOMAIN g[1] = {} /\ \A j \in DOMAIN g : DOMAIN g[j] = {}
        BY <4>1, <4>2
      <4>4. InTurn(g)
        BY <4>3 DEF InTurn
      <4>5. PartsAmong(g) = {}
        BY <4>3 DEF PartsAmong, Range
      <4> QED BY <4>1, <4>2, <4>4, <4>5
    <3> QED BY <3>1, <3>2
  <2>8. q \in Part /\ \A p \in Range(s) : Earlier(p, q)
    <3>1. raw.n \in Nat
      <4>1. raw.n \in 0 .. Whole
        BY DEF Raw
      <4> QED BY <4>1, BlocksAssumption
    <3>2. PartsAmong(<<s>>) = Range(s)
      <4>1. PICK g : g = <<s>>
        OBVIOUS
      <4>2. DOMAIN g = {1} /\ g[1] = s
        BY <4>1
      <4>3. PartsAmong(g) = Range(s)
        BY <4>2 DEF PartsAmong
      <4> QED BY <4>1, <4>3
    <3>3. Range(s) = Streamed("text")
      BY <2>7, <3>2
    <3>4. q \in Part
      BY <1>3, <2>2, <3>1 DEF Part
    <3> QED BY <1>7, <1>12, <2>2, <3>3, <3>4
  <2>9. InTurn(<<b.parts>>) /\ PartsAmong(<<b.parts>>) = Streamed("text")'
    <3>1. Streamed("text")' = Streamed("text") \cup {q}
      BY <1>7, <1>12, <2>1, <2>2
    <3>2. InTurn(<<Append(s, q)>>) /\ PartsAmong(<<Append(s, q)>>) = PartsAmong(<<s>>) \cup {q}
      <4>1. s \in Seq(Part) /\ q \in Part
        BY <2>7, <2>8
      <4>2. InTurn(<<s>>) /\ \A p \in Range(s) : Earlier(p, q)
        BY <2>7, <2>8
      <4>3. GroupGrows(s, q)
        BY <4>1, <4>2, GroupAppended
      <4> QED BY <4>3 DEF GroupGrows
    <3> QED BY <2>3, <2>7, <3>1, <3>2
  <2>10. Hold(<<acc.blocks[0].parts>>, "text")'
    BY <2>5, <2>9 DEF Hold
  <2> QED BY <1>8, <2>5, <2>6, <2>10
<1>13. CASE raw.type \in {"start", "finish", "usage"} \/ (raw.type = "open" /\ raw.kind # "tool")
  <2>1. acc'.blocks = acc.blocks
    <3>1. raw.kind # "tool"
      BY <1>1, <1>13, VendorMoves
    <3>2. CASE raw.type \in {"usage", "finish"}
      BY <1>1, <3>1, <3>2 DEF HandleChat, Quiet, Accumulators
    <3>3. CASE raw.type \in {"start", "open"}
      BY <1>13, <3>1, <3>3 DEF HandleChat, Quiet
    <3> QED BY <1>13, <3>2, <3>3
  <2>2. \A k \in 1 .. c : /\ vendor'.blocks[k].kind = vendor.blocks[k].kind
                          /\ vendor'.blocks[k].parts = vendor.blocks[k].parts
    BY <1>4, <1>13
  <2>3. Streamed("text")' = Streamed("text")
    BY <1>7, <1>13
  <2> QED BY <1>2, <1>8, <1>9, <2>1, <2>2, <2>3, PartsStay
<1>14. raw.type \in {"start", "open", "delta", "finish", "usage"}
  <2>1. raw.type # "close"
    BY DEF Legal
  <2> QED BY <2>1 DEF Raw
<1> QED BY <1>10, <1>11, <1>12, <1>13, <1>14

\* A message whose blocks of a kind are the vendor's, in the vendor's order.
Matches(message, n, order, kind) ==
    /\ DOMAIN message = 1 .. n
    /\ \A j \in 1 .. n : message[j].kind = kind =>
          /\ order[j] \in 1 .. Current /\ vendor.blocks[order[j]].kind = kind
          /\ message[j].parts = PartsOf(order[j], vendor.blocks[order[j]].parts)
    /\ \A i, j \in 1 .. n : i < j /\ message[i].kind = kind /\ message[j].kind = kind =>
          order[i] < order[j]
    /\ \A k \in 1 .. Current : vendor.blocks[k].kind = kind =>
          \E j \in 1 .. n : message[j].kind = kind /\ order[j] = k

LEMMA BlocksHold ==
    ASSUME AdapterTypes, NEW message, NEW n \in Nat, NEW order, NEW kind,
           Matches(message, n, order, kind)
    PROVE  Hold(Contained(message, kind), kind)
<1>1. PICK g, c : g = Contained(message, kind) /\ c = Current
  OBVIOUS
<1>2. /\ DOMAIN message = 1 .. n
      /\ \A j \in 1 .. n : message[j].kind = kind =>
            /\ order[j] \in 1 .. c /\ vendor.blocks[order[j]].kind = kind
            /\ message[j].parts = PartsOf(order[j], vendor.blocks[order[j]].parts)
      /\ \A i, j \in 1 .. n : i < j /\ message[i].kind = kind /\ message[j].kind = kind =>
            order[i] < order[j]
      /\ \A k \in 1 .. c : vendor.blocks[k].kind = kind =>
            \E j \in 1 .. n : message[j].kind = kind /\ order[j] = k
  BY <1>1 DEF Matches
<1>3. /\ DOMAIN g = 1 .. n
      /\ \A j \in 1 .. n : g[j] = IF message[j].kind = kind THEN message[j].parts ELSE <<>>
  BY <1>1, <1>2 DEF Contained
<1>4. c \in Nat /\ DOMAIN <<>> = {}
  BY <1>1, Numbers
<1>5. ASSUME NEW j \in 1 .. n, NEW x \in DOMAIN g[j]
      PROVE  /\ message[j].kind = kind /\ order[j] \in 1 .. c /\ g[j][x] = <<order[j], x>>
             /\ vendor.blocks[order[j]].kind = kind
             /\ x \in 1 .. vendor.blocks[order[j]].parts /\ vendor.blocks[order[j]].parts \in Nat
  <2>1. message[j].kind = kind
    BY <1>3, <1>4, <1>5
  <2>2. /\ order[j] \in 1 .. c /\ vendor.blocks[order[j]].kind = kind
        /\ g[j] = PartsOf(order[j], vendor.blocks[order[j]].parts)
    BY <1>2, <1>3, <2>1
  <2>3. vendor.blocks[order[j]].parts \in Nat
    BY <1>1, <2>2, SentParts
  <2> QED BY <1>5, <2>1, <2>2, <2>3 DEF PartsOf
<1>6. InTurn(g)
  <2>1. SUFFICES ASSUME NEW i \in 1 .. n, NEW j \in 1 .. n, NEW x \in DOMAIN g[i], NEW y \in DOMAIN g[j],
                        i < j \/ (i = j /\ x < y)
                 PROVE  Earlier(g[i][x], g[j][y])
    BY <1>3, Zenon DEF InTurn
  <2>2. /\ message[i].kind = kind /\ message[j].kind = kind
        /\ g[i][x] = <<order[i], x>> /\ g[j][y] = <<order[j], y>>
    BY <1>5, <2>1
  <2>3. CASE i < j
    <3>1. order[i] < order[j]
      BY <1>2, <2>2, <2>3
    <3> QED BY <2>2, <3>1 DEF Earlier
  <2>4. CASE i = j /\ x < y
    BY <2>2, <2>4 DEF Earlier
  <2> QED BY <2>1, <2>3, <2>4
<1>7. PartsAmong(g) = Streamed(kind)
  <2>1. ASSUME NEW p \in PartsAmong(g) PROVE p \in Streamed(kind)
    <3>1. PICK j \in 1 .. n : p \in Range(g[j])
      BY <1>3, <2>1 DEF PartsAmong
    <3>2. PICK x \in DOMAIN g[j] : p = g[j][x]
      BY <3>1 DEF Range
    <3>3. PICK k, m : k = order[j] /\ m = vendor.blocks[order[j]].parts
      OBVIOUS
    <3>4. /\ k \in 1 .. c /\ p = <<k, x>> /\ vendor.blocks[k].kind = kind /\ m \in Nat /\ x \in 1 .. m
      BY <1>5, <3>2, <3>3
    <3>5. k \in Nat /\ x \in Nat
      BY <1>4, <3>4
    <3> QED BY <1>1, <3>3, <3>4, <3>5 DEF Streamed, Part
  <2>2. ASSUME NEW p \in Streamed(kind) PROVE p \in PartsAmong(g)
    <3>1. PICK k \in Nat, x \in Nat : p = <<k, x>>
      BY <2>2 DEF Streamed, Part
    <3>2. k \in 1 .. c /\ vendor.blocks[k].kind = kind /\ x \in 1 .. vendor.blocks[k].parts
      BY <1>1, <2>2, <3>1 DEF Streamed
    <3>3. PICK j \in 1 .. n : message[j].kind = kind /\ order[j] = k
      BY <1>2, <3>2
    <3>4. g[j] = PartsOf(k, vendor.blocks[k].parts)
      BY <1>2, <1>3, <3>3
    <3>5. x \in DOMAIN g[j] /\ g[j][x] = p
      BY <3>1, <3>2, <3>4 DEF PartsOf
    <3> QED BY <1>3, <3>3, <3>5 DEF PartsAmong, Range
  <2> QED BY <2>1, <2>2
<1> QED BY <1>1, <1>6, <1>7 DEF Hold

\* The blocks of the accumulator in order, and their numbers.
Numbered(S, order, n) ==
    /\ DOMAIN InOrder(S) = 1 .. n
    /\ \A j \in 1 .. n :
          /\ order[j] \in S /\ order[j] \in 1 .. Current
          /\ InOrder(S)[j].kind = vendor.blocks[order[j]].kind
          /\ InOrder(S)[j].parts = PartsOf(order[j], vendor.blocks[order[j]].parts)
    /\ \A i, j \in 1 .. n : i < j => order[i] < order[j]
    /\ \A k \in S : \E j \in 1 .. n : order[j] = k

LEMMA InOrderParts ==
    ASSUME AdapterTypes, AccFits, PartsFit, NEW S \in SUBSET (DOMAIN acc.blocks \ {0})
    PROVE  \E order \in Seq(Nat), n \in Nat : Numbered(S, order, n)
<1>1. S \in SUBSET (0 .. MaxBlocks) /\ MaxBlocks \in Nat /\ S \subseteq 1 .. Current
  <2>1. DOMAIN acc.blocks \ {0} \subseteq 1 .. Current
    BY OneProtocol, Numbers DEF AccFits, AdapterTypes
  <2> QED BY <2>1, Numbers
<1>2. PICK order, n : order = Ascending(S) /\ n = Len(order)
  OBVIOUS
<1>3. /\ n \in Nat /\ DOMAIN order = 1 .. n /\ \A j \in 1 .. n : order[j] \in S
      /\ \A i, j \in 1 .. n : i < j => order[i] < order[j]
      /\ \A k \in S : \E j \in 1 .. n : order[j] = k
  BY <1>1, <1>2, AscendingIs, AscendingOnto
<1>4. PICK message : message = InOrder(S)
  OBVIOUS
<1>5. /\ DOMAIN message = 1 .. n
      /\ \A j \in 1 .. n : /\ message[j].kind = acc.blocks[order[j]].kind
                           /\ message[j].parts = acc.blocks[order[j]].parts
  BY <1>2, <1>3, <1>4 DEF InOrder, MessageBlock
<1>6. ASSUME NEW j \in 1 .. n
      PROVE  /\ order[j] \in S /\ order[j] \in 1 .. Current
             /\ message[j].kind = vendor.blocks[order[j]].kind
             /\ message[j].parts = PartsOf(order[j], vendor.blocks[order[j]].parts)
  <2>1. PICK k : k = order[j]
    OBVIOUS
  <2>2. k \in S /\ k \in 1 .. Current
    BY <1>1, <1>3, <2>1
  <2>3. k \in DOMAIN acc.blocks \ {0}
    BY <2>2
  <2>4. /\ acc.blocks[k].kind = vendor.blocks[k].kind
        /\ acc.blocks[k].parts = PartsOf(k, vendor.blocks[k].parts)
    BY <2>3 DEF PartsFit
  <2>5. message[j].kind = acc.blocks[k].kind /\ message[j].parts = acc.blocks[k].parts
    BY <1>5, <2>1
  <2> QED BY <2>1, <2>2, <2>4, <2>5
<1>7. order \in Seq(Nat)
  <2>1. S \subseteq Nat /\ order = [j \in 1 .. n |-> order[j]]
    BY <1>1, <1>2, <1>3, AscendingIs
  <2>2. \A j \in 1 .. n : order[j] \in Nat
    BY <1>3, <2>1
  <2>3. [j \in 1 .. n |-> order[j]] \in Seq(Nat)
    BY <1>3, <2>2
  <2> QED BY <2>1, <2>3
<1> QED BY <1>3, <1>4, <1>5, <1>6, <1>7 DEF Numbered

\* The message of the terminal event has the texts and the documents of the vendor, or
\* is the empty one of a Responses answer that is not whole.
LEMMA MessageIsWhole ==
    ASSUME AdapterTypes, AccFits, KindsFit, PartsFit
    PROVE  MessageHolds(FinalMessage)
<1>1. /\ Anthropic \/ Responses \/ Chat
      /\ ~(Anthropic /\ Responses) /\ ~(Anthropic /\ Chat) /\ ~(Responses /\ Chat)
  BY OneProtocol DEF AdapterTypes
<1>2. PICK c : c = Current
  OBVIOUS
<1>3. c \in Nat /\ 0 \notin 1 .. c
  BY <1>2, Numbers
<1>4. CASE Anthropic
  <2>1. DOMAIN acc.blocks \ {0} = 1 .. c /\ DOMAIN acc.blocks = 1 .. c
    BY <1>2, <1>3, <1>4 DEF AccFits
  <2>2. PICK message : message = FinalMessage
    OBVIOUS
  <2>3. PICK S : S = 1 .. c
    OBVIOUS
  <2>4. message = InOrder(S) /\ S \in SUBSET (DOMAIN acc.blocks \ {0})
    BY <1>1, <1>4, <2>1, <2>2, <2>3 DEF FinalMessage, AnthropicMessage
  <2>5. PICK order \in Seq(Nat), n \in Nat : Numbered(S, order, n)
    BY <2>4, InOrderParts
  <2>6. ASSUME NEW kind \in Texts PROVE Hold(Contained(message, kind), kind)
    <3>1. Matches(message, n, order, kind)
      BY <1>2, <2>3, <2>4, <2>5 DEF Numbered, Matches
    <3> QED BY <3>1, BlocksHold
  <2> QED BY <2>2, <2>6 DEF MessageHolds
<1>5. CASE Responses
  <2>1. FinalMessage = ResponsesMessage
    BY <1>1, <1>5 DEF FinalMessage
  <2>2. CASE ~vendor.finished
    <3>1. acc.final = <<>>
      BY <1>5, <2>2 DEF KindsFit
    <3>2. ResponsesMessage = <<>>
      BY <3>1 DEF ResponsesMessage
    <3> QED BY <1>5, <2>1, <2>2, <3>2 DEF MessageHolds
  <2>3. CASE vendor.finished
    <3>1. PICK final : final = acc.final
      OBVIOUS
    <3>2. /\ final \in Seq(VendorBlock) /\ Len(final) = c
          /\ \A k \in 1 .. c : /\ final[k].kind = vendor.blocks[k].kind
                                /\ final[k].parts = vendor.blocks[k].parts
      BY <1>2, <1>5, <2>3, <3>1 DEF KindsFit, PartsFit, AdapterTypes, Accumulators
    <3>3. PICK message : message = ResponsesMessage
      OBVIOUS
    <3>4. /\ DOMAIN message = 1 .. c
          /\ \A k \in 1 .. c : /\ message[k].kind = vendor.blocks[k].kind
                                /\ message[k].parts = PartsOf(k, vendor.blocks[k].parts)
      BY <3>1, <3>2, <3>3 DEF ResponsesMessage, MessageBlock
    <3>5. PICK order : order = [k \in 1 .. c |-> k]
      OBVIOUS
    <3>6. \A k \in 1 .. c : order[k] = k
      BY <3>5
    <3>7. ASSUME NEW kind \in Texts PROVE Hold(Contained(message, kind), kind)
      <4>1. Matches(message, c, order, kind)
        BY <1>2, <3>4, <3>6 DEF Matches
      <4> QED BY <1>3, <4>1, BlocksHold
    <3> QED BY <2>1, <3>3, <3>7 DEF MessageHolds
  <2> QED BY <2>2, <2>3
<1>6. CASE Chat
  <2>1. PICK S : S = DOMAIN acc.blocks \ {0}
    OBVIOUS
  <2>2. S = Begun /\ S \subseteq 1 .. c
    BY <1>2, <1>6, <2>1, Numbers DEF AccFits
  <2>3. PICK calls : calls = InOrder(S)
    OBVIOUS
  <2>4. PICK order \in Seq(Nat), n \in Nat : Numbered(S, order, n)
    BY <2>1, InOrderParts
  <2>15. /\ DOMAIN calls = 1 .. n
         /\ \A j \in 1 .. n :
               /\ order[j] \in S /\ order[j] \in 1 .. c
               /\ calls[j].kind = vendor.blocks[order[j]].kind
               /\ calls[j].parts = PartsOf(order[j], vendor.blocks[order[j]].parts)
         /\ \A i, j \in 1 .. n : i < j => order[i] < order[j]
         /\ \A k \in S : \E j \in 1 .. n : order[j] = k
    BY <1>2, <2>3, <2>4 DEF Numbered
  <2>5. \A j \in 1 .. n : calls[j].kind = "tool"
    BY <2>2, <2>15 DEF Begun
  <2>6. calls \in Seq(Block) /\ Len(calls) = n
    BY <2>1, <2>3, <2>15, InOrderIs
  <2>7. PICK text : text = MessageBlock("text", NoId, acc.blocks[0].parts)
    OBVIOUS
  <2>8. PICK message : message = FinalMessage
    OBVIOUS
  <2>9. PICK h \in {0, 1} : h = IF Has(0) THEN 1 ELSE 0
    OBVIOUS
  <2>10. /\ DOMAIN message = 1 .. h + n
         /\ h = 1 => message[1].kind = "text" /\ message[1].parts = acc.blocks[0].parts
         /\ \A j \in h + 1 .. h + n : message[j] = calls[j - h]
    <3>1. message = (IF Has(0) THEN <<text>> ELSE <<>>) \o calls
      BY <1>1, <1>6, <2>1, <2>3, <2>7, <2>8 DEF FinalMessage, ChatMessage
    <3>2. CASE Has(0)
      <4>1. message = <<text>> \o calls /\ h = 1
        BY <2>9, <3>1, <3>2
      <4>2. text \in Block
        <5>1. acc.blocks[0] \in Block
          BY <3>2, Numbers DEF Has
        <5> QED BY <2>7, <5>1 DEF MessageBlock, Block, Kinds, BlockIds
      <4>3. /\ DOMAIN message = 1 .. 1 + n /\ message[1] = text
            /\ \A j \in 2 .. 1 + n : message[j] = calls[j - 1]
        BY <2>6, <4>1, <4>2
      <4> QED BY <2>7, <4>1, <4>3 DEF MessageBlock
    <3>3. CASE ~Has(0)
      <4>1. message = calls /\ h = 0
        BY <2>6, <2>9, <3>1, <3>3
      <4> QED BY <2>15, <4>1
    <3> QED BY <3>2, <3>3
  <2>11. /\ \A j \in h + 1 .. h + n : j - h \in 1 .. n
         /\ \A j \in 1 .. n : j + h \in h + 1 .. h + n /\ j + h - h = j
         /\ \A j \in 1 .. h + n : j \in h + 1 .. h + n \/ (j = 1 /\ h = 1)
         /\ h + n \in Nat
    BY <2>9
  <2>12. \A j \in 1 .. h + n : message[j].kind = "tool" => j \in h + 1 .. h + n
    BY <2>10, <2>11
  <2>13. Hold(Contained(message, "tool"), "tool")
    <3>1. PICK shifted : shifted = [j \in 1 .. h + n |-> IF j > h THEN order[j - h] ELSE 0]
      OBVIOUS
    <3>2. \A j \in h + 1 .. h + n : shifted[j] = order[j - h]
      BY <2>9, <3>1
    <3>3. \A j \in 1 .. h + n : message[j].kind = "tool" =>
             /\ shifted[j] \in 1 .. Current /\ vendor.blocks[shifted[j]].kind = "tool"
             /\ message[j].parts = PartsOf(shifted[j], vendor.blocks[shifted[j]].parts)
      <4>1. ASSUME NEW j \in 1 .. h + n, message[j].kind = "tool"
            PROVE  /\ shifted[j] \in 1 .. Current /\ vendor.blocks[shifted[j]].kind = "tool"
                   /\ message[j].parts = PartsOf(shifted[j], vendor.blocks[shifted[j]].parts)
        <5>1. j \in h + 1 .. h + n /\ j - h \in 1 .. n
          BY <2>11, <2>12, <4>1
        <5>2. message[j] = calls[j - h] /\ shifted[j] = order[j - h]
          BY <2>10, <3>2, <5>1
        <5>3. PICK i \in 1 .. n : i = j - h
          BY <5>1
        <5> QED BY <1>2, <2>15, <2>5, <5>2, <5>3
      <4> QED BY <4>1
    <3>4. ASSUME NEW i \in 1 .. h + n, NEW j \in 1 .. h + n, i < j, message[i].kind = "tool",
                 message[j].kind = "tool"
          PROVE  shifted[i] < shifted[j]
      <4>1. /\ i \in h + 1 .. h + n /\ j \in h + 1 .. h + n
            /\ i - h \in 1 .. n /\ j - h \in 1 .. n /\ i - h < j - h
        BY <2>9, <2>11, <2>12, <3>4
      <4> QED BY <2>15, <3>2, <4>1
    <3>5. ASSUME NEW k \in 1 .. Current, vendor.blocks[k].kind = "tool"
          PROVE  \E j \in 1 .. h + n : message[j].kind = "tool" /\ shifted[j] = k
      <4>1. k \in S
        BY <2>2, <3>5 DEF Begun
      <4>2. PICK j \in 1 .. n : order[j] = k
        BY <2>15, <4>1
      <4>3. j + h \in h + 1 .. h + n /\ j + h - h = j /\ j + h \in 1 .. h + n
        BY <2>9, <2>11
      <4>4. message[j + h] = calls[j] /\ shifted[j + h] = k
        BY <2>10, <3>2, <4>2, <4>3
      <4> QED BY <2>5, <4>3, <4>4
    <3>6. Matches(message, h + n, shifted, "tool")
      BY <2>10, <3>3, <3>4, <3>5, Zenon DEF Matches
    <3> QED BY <2>11, <3>6, BlocksHold
  <2>14. Hold(Contained(message, "text"), "text")
    <3>1. PICK g : g = Contained(message, "text")
      OBVIOUS
    <3>2. /\ DOMAIN g = 1 .. h + n
          /\ h = 1 => g[1] = acc.blocks[0].parts
          /\ \A j \in h + 1 .. h + n : g[j] = <<>>
      <4>1. DOMAIN g = 1 .. h + n /\ \A j \in 1 .. h + n :
               g[j] = IF message[j].kind = "text" THEN message[j].parts ELSE <<>>
        BY <2>10, <3>1 DEF Contained
      <4>2. h = 1 => g[1] = acc.blocks[0].parts
        BY <2>10, <2>11, <4>1
      <4>3. ASSUME NEW j \in h + 1 .. h + n PROVE j \in 1 .. h + n /\ message[j].kind = "tool"
        <5>1. j \in 1 .. h + n
          BY <2>9
        <5>2. message[j] = calls[j - h] /\ j - h \in 1 .. n
          BY <2>10, <2>11
        <5> QED BY <2>5, <5>1, <5>2
      <4> QED BY <4>1, <4>2, <4>3
    <3>3. DOMAIN <<>> = {}
      OBVIOUS
    <3>4. CASE Has(0)
      <4>1. h = 1
        BY <2>9, <3>4
      <4>2. PICK s : s = acc.blocks[0].parts
        OBVIOUS
      <4>3. Hold(<<s>>, "text")
        BY <1>6, <3>4, <4>2 DEF PartsFit
      <4>4. PICK t : t = <<s>>
        OBVIOUS
      <4>5. DOMAIN t = {1} /\ t[1] = s
        BY <4>4
      <4>6. /\ 1 \in DOMAIN g /\ g[1] = s
            /\ \A j \in DOMAIN g : j # 1 => g[j] = <<>>
        BY <2>11, <3>2, <4>1, <4>2
      <4>7. PartsAmong(g) = PartsAmong(t)
        BY <3>3, <4>5, <4>6 DEF PartsAmong, Range
      <4>8. InTurn(g)
        <5>1. SUFFICES ASSUME NEW i \in DOMAIN g, NEW j \in DOMAIN g,
                              NEW x \in DOMAIN g[i], NEW y \in DOMAIN g[j],
                              i < j \/ (i = j /\ x < y)
                       PROVE  Earlier(g[i][x], g[j][y])
          BY Zenon DEF InTurn
        <5>2. i = 1 /\ j = 1
          BY <3>3, <4>6, <5>1
        <5>3. x \in DOMAIN t[1] /\ y \in DOMAIN t[1] /\ x < y
          BY <4>5, <4>6, <5>1, <5>2
        <5>4. InTurn(t)
          BY <4>3, <4>4 DEF Hold
        <5>5. Earlier(t[1][x], t[1][y])
          BY <4>5, <5>3, <5>4 DEF InTurn
        <5> QED BY <4>5, <4>6, <5>2, <5>5
      <4> QED BY <3>1, <4>3, <4>4, <4>7, <4>8 DEF Hold
    <3>5. CASE ~Has(0)
      <4>1. h = 0
        BY <2>9, <3>5
      <4>2. \A j \in DOMAIN g : g[j] = <<>>
        BY <3>2, <4>1
      <4>3. PartsAmong(g) = {} /\ InTurn(g)
        BY <3>3, <4>2 DEF PartsAmong, InTurn, Range
      <4>4. Streamed("text") = {}
        BY <1>6, <3>5 DEF PartsFit
      <4> QED BY <3>1, <4>3, <4>4 DEF Hold
    <3> QED BY <3>4, <3>5
  <2> QED BY <2>8, <2>13, <2>14 DEF MessageHolds, Texts
<1> QED BY <1>1, <1>4, <1>5, <1>6

\* Events of other types add nothing.
LEMMA OthersAppended ==
    ASSUME NEW S, NEW line \in Seq(S), NEW more \in Seq(S), NEW type,
           \A i \in 1 .. Len(more) : more[i].type # type, InTurn(ShownIn(line, type))
    PROVE  /\ InTurn(ShownIn(line \o more, type))
           /\ PartsAmong(ShownIn(line \o more, type)) = PartsAmong(ShownIn(line, type))
<1>0. Len(line) \in Nat /\ Len(more) \in Nat
  OBVIOUS
<1>1. PICK n, m, g, h :
         /\ n \in Nat /\ m \in Nat /\ n = Len(line) /\ m = Len(more)
         /\ g = ShownIn(line, type) /\ h = ShownIn(line \o more, type)
  BY <1>0
<1>2. /\ DOMAIN line = 1 .. n /\ DOMAIN (line \o more) = 1 .. n + m
      /\ \A i \in 1 .. n : (line \o more)[i] = line[i]
      /\ \A i \in n + 1 .. n + m : (line \o more)[i] = more[i - n]
  BY <1>1
<1>3. /\ \A i \in 1 .. n + m : i \in 1 .. n \/ i \in n + 1 .. n + m
      /\ \A i \in n + 1 .. n + m : i - n \in 1 .. m
      /\ 1 .. n \subseteq 1 .. n + m
  BY <1>1
<1>4. /\ DOMAIN g = 1 .. n /\ DOMAIN h = 1 .. n + m
      /\ \A i \in 1 .. n : h[i] = g[i]
      /\ \A i \in n + 1 .. n + m : h[i] = <<>>
  <2>1. PICK all : all = line \o more
    OBVIOUS
  <2>2. /\ DOMAIN g = 1 .. n /\ DOMAIN h = 1 .. n + m
        /\ \A i \in 1 .. n : g[i] = IF line[i].type = type THEN <<line[i].part>> ELSE <<>>
        /\ \A i \in 1 .. n + m : h[i] = IF all[i].type = type THEN <<all[i].part>> ELSE <<>>
    BY <1>1, <1>2, <2>1 DEF ShownIn
  <2>3. \A i \in n + 1 .. n + m : i \in 1 .. n + m /\ all[i].type # type
    BY <1>1, <1>2, <1>3, <2>1
  <2>4. \A i \in 1 .. n : i \in 1 .. n + m /\ all[i] = line[i]
    BY <1>2, <1>3, <2>1
  <2> QED BY <2>2, <2>3, <2>4, Zenon
<1>5. DOMAIN <<>> = {}
  OBVIOUS
<1>6. PartsAmong(h) = PartsAmong(g)
  BY <1>3, <1>4, <1>5 DEF PartsAmong, Range
<1>7. InTurn(h)
  <2>1. SUFFICES ASSUME NEW i \in 1 .. n + m, NEW j \in 1 .. n + m,
                        NEW x \in DOMAIN h[i], NEW y \in DOMAIN h[j], i < j \/ (i = j /\ x < y)
                 PROVE  Earlier(h[i][x], h[j][y])
    BY <1>4, Zenon DEF InTurn
  <2>2. i \in 1 .. n /\ j \in 1 .. n
    BY <1>3, <1>4, <1>5, <2>1
  <2>3. h[i] = g[i] /\ h[j] = g[j]
    BY <1>4, <2>2
  <2> QED BY <1>1, <1>4, <2>1, <2>2, <2>3 DEF InTurn
<1> QED BY <1>1, <1>6, <1>7

\* A step of the generator that shows nothing of a text or a document.
LEMMA SilentHolds ==
    ASSUME LineHolds, events \in Seq(Events), out = <<>>, out' \in Seq(Events),
           UNCHANGED events, \A kind \in Texts : Streamed(kind)' = Streamed(kind),
           \A i \in 1 .. Len(out') : out'[i].type \notin {"text_delta", "tool_call_args_delta"}
    PROVE  LineHolds'
<1>1. PICK line, more : line = events /\ more = out'
  OBVIOUS
<1>2. /\ line \in Seq(Events) /\ more \in Seq(Events) /\ Line = line /\ Line' = line \o more
  BY <1>1 DEF Line
<1>3. ASSUME NEW kind \in Texts
      PROVE  Hold(ShownIn(Line, TypeOf(kind)), kind)'
  <2>1. PICK type : type = TypeOf(kind)
    OBVIOUS
  <2>2. \A i \in 1 .. Len(more) : more[i].type # type
    BY <1>1, <2>1 DEF TypeOf
  <2>3. InTurn(ShownIn(line, type)) /\ PartsAmong(ShownIn(line, type)) = Streamed(kind)
    BY <1>2, <2>1 DEF LineHolds, Hold
  <2>4. /\ InTurn(ShownIn(line \o more, type))
        /\ PartsAmong(ShownIn(line \o more, type)) = PartsAmong(ShownIn(line, type))
    BY <1>2, <2>2, <2>3, OthersAppended
  <2> QED BY <1>2, <2>1, <2>3, <2>4 DEF Hold
<1> QED BY <1>3 DEF LineHolds

LEMMA ReceiveHolds == ASSUME AdapterInv, AdapterInv', TextInv, Receive PROVE TextInv'
<1>1. /\ AdapterTypes /\ AccFits /\ AccFits' /\ PartsFit /\ LineHolds
      /\ pc = "reading" /\ out = <<>> /\ UNCHANGED <<protocol, events, pc>>
      /\ events \in Seq(Events) /\ out' \in Seq(Events)
  BY DEF AdapterInv, AdapterTypes, TextInv, Receive
<1>2. PICK raw \in {r \in Raw : Legal(r)} :
         /\ vendor' = Sent(raw)
         /\ acc' = Handle(raw).acc
         /\ out' = Handle(raw).out
  BY DEF Receive
<1>3. raw \in Raw /\ Legal(raw)
  BY <1>2
<1>4. /\ Anthropic \/ Responses \/ Chat
      /\ ~(Anthropic /\ Responses) /\ ~(Anthropic /\ Chat) /\ ~(Responses /\ Chat)
  BY <1>1, OneProtocol DEF AdapterTypes
<1>5. PartsFit'
  <2>1. CASE Anthropic
    <3>1. Handle(raw) = HandleAnthropic(raw)
      BY <1>4, <2>1 DEF Handle
    <3> QED BY <1>1, <1>2, <1>3, <2>1, <3>1, AnthropicParts
  <2>2. CASE Responses
    <3>1. Handle(raw) = HandleResponses(raw)
      BY <1>4, <2>2 DEF Handle
    <3> QED BY <1>1, <1>2, <1>3, <2>2, <3>1, ResponsesParts
  <2>3. CASE Chat
    <3>1. Handle(raw) = HandleChat(raw)
      BY <1>4, <2>3 DEF Handle
    <3> QED BY <1>1, <1>2, <1>3, <2>3, <3>1, ChatParts
  <2> QED BY <1>4, <2>1, <2>2, <2>3
<1>6. Shows(raw, out')
  BY <1>1, <1>2, <1>3, HandleShows
<1>7. \A kind \in Texts :
         /\ Streamed(kind)' = Streamed(kind)
               \cup IF raw.type = "delta" /\ raw.kind = kind THEN {<<Current, raw.n>>} ELSE {}
         /\ raw.type = "delta" => \A p \in Streamed(kind) : Earlier(p, <<Current, raw.n>>)
  <2>1. Chat => Closed = {}
    BY <1>1 DEF AccFits
  <2> QED BY <1>1, <1>2, <1>3, <2>1, StreamedGrows
<1>8. LineHolds'
  <2>1. CASE raw.type = "delta" /\ raw.kind \in Texts
    <3>1. PICK d : out' = <<d>> /\ d.type = TypeOf(raw.kind) /\ d.part = <<Current, raw.n>>
      BY <1>6, <2>1 DEF Shows
    <3>2. PICK line, part : line = events /\ part = <<Current, raw.n>>
      OBVIOUS
    <3>3. d \in Events /\ line \in Seq(Events) /\ Line = line /\ Line' = Append(line, d)
      <4>1. out' \in Seq(Events) /\ Len(out') = 1 /\ out'[1] = d
        BY <1>1, <3>1
      <4>2. d \in Events
        BY <4>1
      <4> QED BY <1>1, <3>1, <3>2, <4>2 DEF Line
    <3>4. ASSUME NEW kind \in Texts
          PROVE  Hold(ShownIn(Line, TypeOf(kind)), kind)'
      <4>1. PICK type, more : type = TypeOf(kind) /\ more = ShownIn(Append(line, d), type)
        OBVIOUS
      <4>2. InTurn(ShownIn(line, type)) /\ PartsAmong(ShownIn(line, type)) = Streamed(kind)
        BY <1>1, <3>3, <4>1 DEF LineHolds, Hold
      <4>3. d.type = type <=> raw.kind = kind
        BY <2>1, <3>1, <4>1 DEF TypeOf, Texts
      <4>4. \A p \in PartsAmong(ShownIn(line, type)) : Earlier(p, d.part)
        BY <1>7, <2>1, <3>1, <4>2
      <4>5. /\ InTurn(more)
            /\ PartsAmong(more) = PartsAmong(ShownIn(line, type))
                                     \cup IF d.type = type THEN {d.part} ELSE {}
        BY <3>3, <4>1, <4>2, <4>4, ShownAppended
      <4>6. PartsAmong(more) = Streamed(kind)'
        BY <1>7, <2>1, <3>1, <4>2, <4>3, <4>5
      <4> QED BY <3>3, <4>1, <4>5, <4>6 DEF Hold
    <3> QED BY <3>4 DEF LineHolds
  <2>2. CASE ~(raw.type = "delta" /\ raw.kind \in Texts)
    <3>1. \A kind \in Texts : Streamed(kind)' = Streamed(kind)
      BY <1>7, <2>2
    <3>2. \A i \in 1 .. Len(out') : out'[i].type \notin {"text_delta", "tool_call_args_delta"}
      <4>1. CASE out' = <<>>
        BY <4>1
      <4>2. ASSUME NEW d, out' = <<d>>, d.type \notin {"text_delta", "tool_call_args_delta"}
            PROVE  \A i \in 1 .. Len(out') : out'[i].type \notin {"text_delta", "tool_call_args_delta"}
        BY <4>2
      <4> QED BY <1>6, <2>2, <4>1, <4>2 DEF Shows
    <3> QED BY <1>1, <3>1, <3>2, SilentHolds
  <2> QED BY <2>1, <2>2
<1>9. NamedIn(Line', "model_call_completed") = {} /\ Line' \in Seq(Events)
  <2>1. NamedIn(Line', "model_call_completed") = {}
    BY <1>1 DEF AdapterInv, LineFits
  <2> QED BY <1>1, <2>1 DEF Line
<1>10. \A i \in 1 .. Len(Line') : Line'[i].type # "model_call_completed"
  BY <1>9, NamedAre
<1> QED BY <1>5, <1>8, <1>10 DEF TextInv

\* A step that leaves the vendor and the accumulator alone.
LEMMA RestHolds ==
    ASSUME TextInv, UNCHANGED <<protocol, vendor, acc>>
    PROVE  /\ PartsFit' /\ \A kind \in Texts : Streamed(kind)' = Streamed(kind)
           /\ \A message : MessageHolds(message) => MessageHolds(message)'
           /\ Line' = Line => TextInv'
<1>1. /\ UNCHANGED <<Anthropic, Responses, Chat, Current>>
      /\ \A k : Has(k)' = Has(k)
  BY DEF Anthropic, Responses, Chat, Current, Has
<1>2. \A kind : Streamed(kind)' = Streamed(kind)
  BY <1>1 DEF Streamed
<1>3. \A groups, kind : Hold(groups, kind) <=> Hold(groups, kind)'
  BY <1>2 DEF Hold
<1>4. PartsFit'
  BY <1>1, <1>2, <1>3 DEF TextInv, PartsFit
<1>5. \A message : MessageHolds(message) => MessageHolds(message)'
  BY <1>1, <1>3 DEF MessageHolds
<1>6. ASSUME Line' = Line PROVE TextInv'
  <2>1. LineHolds'
    BY <1>3, <1>6 DEF TextInv, LineHolds
  <2> QED BY <1>4, <1>5, <1>6, <2>1 DEF TextInv
<1> QED BY <1>2, <1>4, <1>5, <1>6

LEMMA YieldHolds == ASSUME AdapterInv, TextInv, YieldEvent PROVE TextInv'
<1>1. UNCHANGED <<protocol, vendor, acc>>
  BY DEF YieldEvent
<1>2. Line' = Line
  <2>1. events \in Seq(Events) /\ out \in Seq(Events) /\ out # <<>>
    BY DEF AdapterInv, AdapterTypes, YieldEvent
  <2>2. events' = Append(events, Head(out)) /\ out' = Tail(out)
    BY DEF YieldEvent
  <2>3. Append(events, Head(out)) \o Tail(out) = events \o out
    BY <2>1
  <2> QED BY <2>2, <2>3 DEF Line
<1> QED BY <1>1, <1>2, RestHolds

LEMMA EndHolds == ASSUME AdapterInv, AdapterInv', TextInv, StreamEnds PROVE TextInv'
<1>1. /\ UNCHANGED <<protocol, vendor, acc, events>> /\ pc' = "returning" /\ out = <<>>
      /\ out' = CompletedAtEnd /\ events \in Seq(Events) /\ out' \in Seq(Events)
  BY DEF AdapterInv, AdapterTypes, StreamEnds
<1>2. PartsFit' /\ \A kind \in Texts : Streamed(kind)' = Streamed(kind)
  BY <1>1, RestHolds
<1>3. \A i \in DOMAIN CompletedAtEnd : CompletedAtEnd[i].type = "tool_call_completed"
  <2>1. CASE Chat
    <3>1. PICK order : order = Ascending({k \in DOMAIN acc.blocks : acc.blocks[k].id # NoId})
      OBVIOUS
    <3>2. CompletedAtEnd = [j \in DOMAIN order |->
                Delta("tool_call_completed", acc.blocks[order[j]].id, NoPart)]
      BY <2>1, <3>1 DEF CompletedAtEnd
    <3> QED BY <3>2 DEF Delta
  <2>2. CASE ~Chat
    BY <2>2 DEF CompletedAtEnd
  <2> QED BY <2>1, <2>2
<1>4. DOMAIN out' = 1 .. Len(out')
  BY <1>1
<1>5. \A i \in 1 .. Len(out') : out'[i].type \notin {"text_delta", "tool_call_args_delta"}
  <2>1. PICK c : c = CompletedAtEnd
    OBVIOUS
  <2>2. \A i \in DOMAIN c : c[i].type = "tool_call_completed"
    BY <1>3, <2>1
  <2> QED BY <1>1, <1>4, <2>1, <2>2
<1>6. LineHolds'
  BY <1>1, <1>2, <1>5, SilentHolds DEF TextInv
<1>7. NamedIn(Line', "model_call_completed") = {} /\ Line' \in Seq(Events)
  <2>1. NamedIn(Line', "model_call_completed") = {}
    BY <1>1 DEF AdapterInv, LineFits
  <2> QED BY <1>1, <2>1 DEF Line
<1>8. \A i \in 1 .. Len(Line') : Line'[i].type # "model_call_completed"
  BY <1>7, NamedAre
<1> QED BY <1>2, <1>6, <1>8 DEF TextInv

LEMMA ConcludeHolds ==
    ASSUME AdapterInv, AdapterInv', TruthInv, TextInv, Conclude
    PROVE  TextInv'
<1>1. /\ AdapterTypes /\ AccFits /\ LineFits /\ KindsFit /\ PartsFit /\ LineHolds
      /\ pc \in {"returning", "broken"} /\ out = <<>> /\ UNCHANGED <<protocol, vendor, acc, events>>
      /\ events \in Seq(Events) /\ out' \in Seq(Events)
  BY DEF AdapterInv, AdapterTypes, TruthInv, TextInv, Conclude
<1>2. /\ PartsFit' /\ \A kind \in Texts : Streamed(kind)' = Streamed(kind)
      /\ \A message : MessageHolds(message) => MessageHolds(message)'
      /\ Line' = Line => TextInv'
  BY <1>1, RestHolds
<1>3. CASE Assembles
  <2>1. PICK e : e = Terminal(pc = "broken")
    OBVIOUS
  <2>2. out' = <<e>> /\ e.type = "model_call_completed" /\ e.message = FinalMessage
    BY <1>3, <2>1 DEF Conclude, Terminal
  <2>3. \A i \in 1 .. Len(out') : out'[i].type \notin {"text_delta", "tool_call_args_delta"}
    BY <2>2
  <2>4. LineHolds'
    BY <1>1, <1>2, <2>3, SilentHolds
  <2>5. MessageHolds(e.message)'
    <3>1. MessageHolds(FinalMessage)
      BY <1>1, MessageIsWhole
    <3>2. PICK message : message = FinalMessage
      OBVIOUS
    <3>3. MessageHolds(message)' /\ message = e.message
      BY <1>2, <2>2, <3>1, <3>2
    <3> QED BY <3>3
  <2>6. \A i \in 1 .. Len(events) : events[i].type # "model_call_completed"
    <3>1. NamedIn(Line, "model_call_completed") = {} /\ Line = events
      BY <1>1 DEF LineFits, Line
    <3> QED BY <1>1, <3>1, NamedAre
  <2>7. PICK line, n : line = Append(events, e) /\ n = Len(events)
    OBVIOUS
  <2>8. e \in Events /\ Line' = line
    <3>1. Len(out') = 1 /\ out'[1] = e
      BY <2>2
    <3>2. e \in Events
      BY <1>1, <3>1
    <3> QED BY <1>1, <2>2, <2>7, <3>2 DEF Line
  <2>9. /\ n \in Nat /\ Len(line) = n + 1 /\ line[n + 1] = e
        /\ \A i \in 1 .. n : line[i] = events[i]
        /\ \A i \in 1 .. n + 1 : i \in 1 .. n \/ i = n + 1
    BY <1>1, <2>7, <2>8
  <2>10. \A i \in 1 .. Len(Line') : Line'[i].type = "model_call_completed" => Line'[i] = e
    BY <2>6, <2>7, <2>8, <2>9
  <2>11. ASSUME NEW i \in 1 .. Len(Line'), Line'[i].type = "model_call_completed"
         PROVE  MessageHolds(Line[i].message)'
    <3>1. Line'[i] = e
      BY <2>10, <2>11
    <3> QED BY <2>5, <3>1 DEF MessageHolds
  <2> QED BY <1>2, <2>4, <2>11 DEF TextInv
<1>4. CASE ~Assembles
  <2>1. Line' = Line
    BY <1>1, <1>4 DEF Conclude, Line
  <2> QED BY <1>2, <2>1
<1> QED BY <1>3, <1>4

LEMMA MoveHolds ==
    ASSUME TextInv, UNCHANGED <<protocol, vendor, acc, out, events>>
    PROVE  TextInv'
<1>1. Line' = Line
  BY DEF Line
<1> QED BY <1>1, RestHolds

LEMMA FreshHolds == Fresh => TextInv
<1> SUFFICES ASSUME Fresh PROVE TextInv
  OBVIOUS
<1>1. vendor.blocks = <<>> /\ ~vendor.finished /\ acc.blocks = <<>>
  BY DEF Fresh, NewVendor, NewAcc
<1>2. DOMAIN <<>> = {} /\ Line = <<>> /\ Len(<<>>) = 0 /\ Current = 0 /\ 1 .. 0 = {}
  BY <1>1 DEF Fresh, Line, Current
<1>3. \A kind : Streamed(kind) = {}
  BY <1>2 DEF Streamed
<1>4. PartsFit
  BY <1>1, <1>2, <1>3 DEF PartsFit, Has
<1>5. LineHolds
  <2>1. \A type : DOMAIN ShownIn(<<>>, type) = {}
    BY <1>2 DEF ShownIn
  <2> QED BY <1>2, <1>3, <2>1 DEF LineHolds, Hold, InTurn, PartsAmong
<1>6. \A i \in 1 .. Len(Line) : FALSE
  BY <1>2
<1> QED BY <1>4, <1>5, <1>6 DEF TextInv

LEMMA AgainHolds == ASSUME AdapterInv, Again PROVE TextInv'
<1>1. Fresh'
  BY DEF AdapterInv, AdapterTypes, Again, Fresh
<1>2. Fresh' => TextInv'
  BY FreshHolds, PTL
<1> QED BY <1>1, <1>2

\* TextInv is inductive, given AdapterInv and TruthInv.
THEOREM TextInvariant == ReplaySpec => []TextInv
<1>1. ReplayInit => TextInv
  BY FreshHolds DEF ReplayInit, AdapterInit, Fresh
<1>2. ASSUME AdapterInv, AdapterInv', TruthInv, TextInv, [ReplayNext]_replayingVars PROVE TextInv'
  <2>1. CASE Record
    <3>1. CASE Create \/ StreamBreaks \/ Return \/ Reraise \/ Cancel
      <4>1. UNCHANGED <<protocol, vendor, acc, out, events>>
        BY <3>1 DEF Create, StreamBreaks, Return, Reraise, Cancel
      <4> QED BY <1>2, <4>1, MoveHolds
    <3>2. CASE Receive
      BY <1>2, <3>2, ReceiveHolds
    <3>3. CASE YieldEvent
      BY <1>2, <3>3, YieldHolds
    <3>4. CASE StreamEnds
      BY <1>2, <3>4, EndHolds
    <3>5. CASE Conclude
      BY <1>2, <3>5, ConcludeHolds
    <3> QED BY <2>1, <3>1, <3>2, <3>3, <3>4, <3>5 DEF Record, Step
  <2>2. CASE NextTurn
    BY <1>2, <2>2, AgainHolds DEF NextTurn
  <2>3. CASE UNCHANGED adapterVars
    <3>1. UNCHANGED <<protocol, vendor, acc, out, events>>
      BY <2>3 DEF adapterVars
    <3> QED BY <1>2, <3>1, MoveHolds
  <2> QED BY <1>2, <2>1, <2>2, <2>3 DEF ReplayNext, Load, Ask, replayingVars
<1> QED BY <1>1, <1>2, AdapterInvariant, TruthInvariant, PTL DEF ReplaySpec

\* The terminal event holds the local truth, for every answer: the texts and the
\* arguments of its message are those the consumer has heard, part for part and in
\* order, each call under the id it was announced with (or nothing at all, if a
\* Responses answer was cut off); it counts tokens only when the vendor has told them,
\* calls the count complete exactly if both are there, and says interrupted only
\* before an error.
THEOREM TerminalsTellTheTruth == ReplaySpec => []LocalTruth
<1>1. AdapterInv /\ TruthInv /\ TextInv => LocalTruth
  <2> SUFFICES ASSUME AdapterInv, TruthInv, TextInv,
                      NEW e \in Range(events), e.type = "model_call_completed"
               PROVE  /\ \/ /\ OneText(Contained(e.message, "text"), Shown("text_delta"))
                            /\ OneText(Contained(e.message, "tool"),
                                       Shown("tool_call_args_delta"))
                            /\ {b.id : b \in {x \in Range(e.message) : x.kind = "tool"}}
                                   = Named("tool_call_started")
                         \/ Responses /\ ~vendor.finished /\ e.message = <<>>
                      /\ e.usage.input => vendor.started \/ vendor.usage
                      /\ e.usage.output => vendor.usage
                      /\ e.usage.state = "complete" <=> e.usage.input /\ e.usage.output
                      /\ e.stop = "interrupted" => pc \notin {"told", "returned"}
    BY DEF LocalTruth
  <2>1. events \in Seq(Events) /\ out \in Seq(Events) /\ Line \in Seq(Events)
        /\ Ordered(Line) /\ NamedIn(Line, "tool_call_started") = Ids(Begun)
    BY DEF AdapterInv, AdapterTypes, LineFits, Line
  <2>2. PICK m \in Nat, n \in Nat : m = Len(events) /\ n = Len(out)
    BY <2>1
  <2>3. PICK line : line = Line
    OBVIOUS
  <2>4. /\ line \in Seq(Events) /\ Len(line) = m + n
        /\ \A i \in 1 .. m : line[i] = events[i]
    BY <2>1, <2>2, <2>3 DEF Line
  <2>5. PICK i \in 1 .. m : e = events[i]
    BY <2>1, <2>2 DEF Range
  <2>6. n = 0
    <3>1. SUFFICES ASSUME n > 0 PROVE FALSE
      BY <2>2
    <3>2. m + 1 \in 1 .. m + n /\ m + 1 \in 1 .. Len(line)
      BY <2>4, <3>1
    <3>3. PICK before : before = SubSeq(line, 1, m)
      OBVIOUS
    <3>4. NamedIn(before, "model_call_completed") = {}
      <4>1. Follows(SubSeq(line, 1, (m + 1) - 1), line[m + 1])
        BY <2>1, <2>3, <3>2 DEF Ordered
      <4>2. (m + 1) - 1 = m
        OBVIOUS
      <4> QED BY <3>3, <4>1, <4>2 DEF Follows
    <3>5. before \in Seq(Events) /\ Len(before) = m /\ before[i] = line[i]
      BY <2>4, <3>3
    <3>6. before[i].type = "model_call_completed"
      BY <2>4, <2>5, <3>5
    <3>7. \A j \in 1 .. Len(before) : before[j].type = "model_call_completed" =>
             before[j].id \in NamedIn(before, "model_call_completed")
      BY <3>5, NamedAre
    <3> QED BY <3>4, <3>5, <3>6, <3>7
  <2>7. Line = events
    <3>1. out = <<>>
      BY <2>1, <2>2, <2>6, EmptySeq
    <3> QED BY <2>1, <3>1 DEF Line
  <2>8. Named("tool_call_started") = Ids(Begun)
    BY <2>1, <2>7, NamedIs
  <2>9. Tells(e)
    BY <2>2, <2>5, <2>7 DEF TruthInv
  <2>10. MessageHolds(e.message)
    BY <2>2, <2>5, <2>7 DEF TextInv
  <2>11. /\ Hold(Shown("text_delta"), "text")
         /\ Hold(Shown("tool_call_args_delta"), "tool")
    <3>1. /\ Shown("text_delta") = ShownIn(Line, TypeOf("text"))
          /\ Shown("tool_call_args_delta") = ShownIn(Line, TypeOf("tool"))
      BY <2>7 DEF Shown, ShownIn, TypeOf
    <3> QED BY <3>1 DEF TextInv, LineHolds, Texts
  <2>12. CASE Responses /\ ~vendor.finished /\ e.message = <<>>
    BY <2>9, <2>12 DEF Tells
  <2>13. CASE ~(Responses /\ ~vendor.finished /\ e.message = <<>>)
    <3>1. CallsOf(e.message) = Named("tool_call_started")
      BY <2>8, <2>9, <2>13 DEF Tells
    <3>2. \A kind \in Texts : Hold(Contained(e.message, kind), kind)
      BY <2>10, <2>13 DEF MessageHolds
    <3>3. /\ OneText(Contained(e.message, "text"), Shown("text_delta"))
          /\ OneText(Contained(e.message, "tool"), Shown("tool_call_args_delta"))
      BY <2>11, <3>2 DEF Hold, OneText, Texts
    <3> QED BY <2>9, <3>1, <3>3 DEF Tells, CallsOf
  <2> QED BY <2>12, <2>13
<1> QED BY <1>1, AdapterInvariant, TruthInvariant, TextInvariant, PTL

=============================================================================
