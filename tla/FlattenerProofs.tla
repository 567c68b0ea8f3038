--------------------------- MODULE FlattenerProofs ---------------------------
(***************************************************************************)
(* Theorems of Flattener, for any Events and any segments trees.           *)
(***************************************************************************)
EXTENDS FlattenerLeaves, TLAPS, FiniteSetTheorems, SequenceTheorems

-----------------------------------------------------------------------------
(* What becomes of the stack.                                              *)
LEMMA ProceedSeq ==
  ASSUME NEW S, NEW s \in Seq(S), s # <<>>, NEW f \in S, NEW t, t = <<f>> \o Tail(s)
  PROVE  /\ t \in Seq(S) /\ t # <<>> /\ Len(t) = Len(s) /\ Len(s) \in Nat \ {0}
         /\ t[1] = f /\ \A n \in 2..Len(s) : t[n] = s[n]
<1>1. /\ Tail(s) \in Seq(S) /\ Len(Tail(s)) = Len(s) - 1
      /\ \A i \in 1..Len(Tail(s)) : Tail(s)[i] = s[i + 1]
  BY HeadTailProperties
<1>2. <<f>> \in Seq(S) /\ Len(<<f>>) = 1 /\ <<f>>[1] = f
  OBVIOUS
<1>3. Len(s) \in Nat \ {0}
  BY EmptySeq
<1>4. /\ t \in Seq(S) /\ Len(t) = 1 + Len(Tail(s))
      /\ \A i \in 1..1 + Len(Tail(s)) : t[i] = IF i <= 1 THEN <<f>>[i] ELSE Tail(s)[i - 1]
  BY <1>1, <1>2, ConcatProperties
<1>5. Len(t) = Len(s) /\ t[1] = f
  BY <1>1, <1>2, <1>3, <1>4
<1>6. ASSUME NEW n \in 2..Len(s) PROVE t[n] = s[n]
  <2>1. n \in 1..1 + Len(Tail(s)) /\ ~ (n <= 1) /\ n - 1 \in 1..Len(Tail(s)) /\ (n - 1) + 1 = n
    BY <1>1, <1>3
  <2>2. t[n] = Tail(s)[n - 1]
    BY <1>4, <2>1
  <2> QED BY <1>1, <2>1, <2>2
<1>7. t # <<>>
  BY <1>3, <1>4, <1>5, EmptySeq
<1> QED BY <1>3, <1>4, <1>5, <1>6, <1>7

LEMMA EncloseSeq ==
  ASSUME NEW S, NEW s \in Seq(S), s # <<>>, NEW f \in S, NEW g \in S,
         NEW t, t = <<g, f>> \o Tail(s)
  PROVE  /\ t \in Seq(S) /\ t # <<>> /\ Len(t) = Len(s) + 1 /\ Len(s) \in Nat \ {0}
         /\ t[1] = g /\ t[2] = f /\ \A n \in 3..Len(t) : t[n] = s[n - 1]
<1>1. /\ Tail(s) \in Seq(S) /\ Len(Tail(s)) = Len(s) - 1
      /\ \A i \in 1..Len(Tail(s)) : Tail(s)[i] = s[i + 1]
  BY HeadTailProperties
<1>2. <<g, f>> \in Seq(S) /\ Len(<<g, f>>) = 2 /\ <<g, f>>[1] = g /\ <<g, f>>[2] = f
  OBVIOUS
<1>3. Len(s) \in Nat \ {0}
  BY EmptySeq
<1>4. /\ t \in Seq(S) /\ Len(t) = 2 + Len(Tail(s))
      /\ \A i \in 1..2 + Len(Tail(s)) : t[i] = IF i <= 2 THEN <<g, f>>[i] ELSE Tail(s)[i - 2]
  BY <1>1, <1>2, ConcatProperties
<1>5. Len(t) = Len(s) + 1 /\ t[1] = g /\ t[2] = f
  BY <1>1, <1>2, <1>3, <1>4
<1>6. ASSUME NEW n \in 3..Len(t) PROVE t[n] = s[n - 1]
  <2>1. n \in 1..2 + Len(Tail(s)) /\ ~ (n <= 2) /\ n - 2 \in 1..Len(Tail(s)) /\ (n - 2) + 1 = n - 1
    BY <1>1, <1>3, <1>4
  <2>2. t[n] = Tail(s)[n - 2]
    BY <1>4, <2>1
  <2> QED BY <1>1, <2>1, <2>2
<1>7. t # <<>>
  BY <1>3, <1>4, <1>5, EmptySeq
<1> QED BY <1>3, <1>4, <1>5, <1>6, <1>7

(* A sequence with one more element.                                       *)
LEMMA AppendSeq ==
  ASSUME NEW S, NEW s \in Seq(S), NEW x \in S, NEW t, t = Append(s, x)
  PROVE  /\ t \in Seq(S) /\ Len(s) \in Nat /\ Len(t) = Len(s) + 1 /\ t # <<>>
         /\ t[Len(t)] = x /\ \A n \in 1..Len(s) : t[n] = s[n]
         /\ DOMAIN s = 1..Len(s) /\ DOMAIN t = 1..Len(t)
<1>1. /\ t \in Seq(S) /\ Len(t) = Len(s) + 1
      /\ \A n \in 1..Len(s) : t[n] = s[n]
      /\ t[Len(s) + 1] = x
  BY AppendProperties
<1>2. Len(s) \in Nat /\ DOMAIN s = 1..Len(s) /\ DOMAIN t = 1..Len(t)
  BY <1>1, LenProperties
<1>3. t # <<>>
  BY <1>1, <1>2, EmptySeq
<1> QED BY <1>1, <1>2, <1>3

-----------------------------------------------------------------------------
(* Values and steps.                                                       *)
LEMMA ValueShape ==
  ASSUME NEW v \in Json
  PROVE  /\ v.kind \in {"leaf", "array", "object"}
         /\ v.kind # "leaf" => /\ v.values \in Seq(Json) /\ Len(v.values) \in Nat
                               /\ DOMAIN v.values = 1..Len(v.values)
         /\ v.kind = "object" =>
              /\ v.names \in Seq(Names) /\ DOMAIN v.names = 1..Len(v.values)
              /\ \A i, j \in 1..Len(v.values) : v.names[i] = v.names[j] => i = j
<1>1. \/ v.kind = "leaf"
      \/ v.kind = "array" /\ v.values \in Seq(Json)
      \/ /\ v.kind = "object" /\ v.values \in Seq(Json) /\ v.names \in Seq(Names)
         /\ Len(v.names) = Len(v.values)
         /\ \A i, j \in DOMAIN v.names : v.names[i] = v.names[j] => i = j
  BY JsonAssumption
<1>2. v.kind # "leaf" => /\ v.values \in Seq(Json) /\ Len(v.values) \in Nat
                         /\ DOMAIN v.values = 1..Len(v.values)
  BY <1>1, LenProperties
<1>3. v.kind = "object" => v.names \in Seq(Names) /\ DOMAIN v.names = 1..Len(v.values)
  BY <1>1, LenProperties
<1> QED BY <1>1, <1>2, <1>3

LEMMA NamesToType ==
  ASSUME NEW p \in Places
  PROVE  /\ NamesTo(p) \in Seq(Names)
         /\ p = <<>> => NamesTo(p) = <<>>
         /\ p # <<>> => NamesTo(p) = p[Len(p)].names
<1>1. p \in Seq(Steps)
  BY DEF Places
<1>2. p # <<>> => Len(p) \in 1..Len(p)
  BY <1>1, EmptySeq
<1>3. p # <<>> => p[Len(p)] \in Steps
  BY <1>1, <1>2, ElementOfSeq
<1> QED BY <1>3, EmptySeq DEF NamesTo, Steps

Follows(st, p) ==
    st.names = IF st.in = "object" THEN Append(NamesTo(p), st.key) ELSE NamesTo(p)

Extends(h, p, st) ==
    /\ h \in Places /\ Len(p) \in Nat /\ Len(h) = Len(p) + 1
    /\ DOMAIN h = 1..Len(h) /\ DOMAIN p = 1..Len(p)
    /\ h[Len(p) + 1] = st /\ \A k \in 1..Len(p) : h[k] = p[k]

LEMMA BeginsTransitive ==
  ASSUME NEW p, NEW q, NEW r, Len(p) \in Nat, Len(q) \in Nat, Len(r) \in Nat,
         Begins(p, q), Begins(q, r)
  PROVE  Begins(p, r)
BY DEF Begins

LEMMA BeginsReflexive ==
  ASSUME NEW p, Len(p) \in Nat
  PROVE  Begins(p, p)
BY DEF Begins

(* The step to member or element n.                                        *)
LEMMA StepToShape ==
  ASSUME NEW v \in Json, v.kind # "leaf", NEW at \in Places, NEW n \in 1..Len(v.values)
  PROVE  /\ StepTo(v, at, n) \in Steps /\ StepTo(v, at, n).in = v.kind
         /\ Follows(StepTo(v, at, n), at)
         /\ v.kind = "array" => StepTo(v, at, n).key = n
         /\ v.kind = "object" => StepTo(v, at, n).key = v.names[n]
         /\ \A i \in 1..Len(v.values) : StepTo(v, at, i) = StepTo(v, at, n) => i = n
<1>1. NamesTo(at) \in Seq(Names)
  BY NamesToType
<1>2. /\ v.kind \in {"array", "object"}
      /\ v.kind = "object" => /\ v.names \in Seq(Names) /\ DOMAIN v.names = 1..Len(v.values)
                              /\ \A i, j \in 1..Len(v.values) : v.names[i] = v.names[j] => i = j
      /\ Len(v.values) \in Nat
  BY ValueShape
<1>3. v.kind = "object" => v.names[n] \in Names /\ v.names[n] \in Int
  BY <1>2, LenProperties, ElementOfSeq, JsonAssumption
<1>4. v.kind = "object" => Append(NamesTo(at), v.names[n]) \in Seq(Names)
  BY <1>1, <1>3, AppendProperties
<1>5. \A i : StepTo(v, at, i).key = Key(v, i)
  BY DEF StepTo
<1>6. PICK names : names = IF v.kind = "object" THEN Append(NamesTo(at), v.names[n]) ELSE NamesTo(at)
  OBVIOUS
<1>7. Key(v, n) \in Int
  <2>1. CASE v.kind = "object"
    <3>1. Key(v, n) = v.names[n]
      BY <2>1 DEF Key
    <3> QED BY <1>3, <2>1, <3>1
  <2>2. CASE v.kind # "object"
    <3>1. Key(v, n) = n
      BY <2>2 DEF Key
    <3> QED BY <1>2, <3>1
  <2> QED BY <2>1, <2>2
<1>8. names \in Seq(Names)
  BY <1>1, <1>4, <1>6
<1>9. PICK key : key = Key(v, n)
  OBVIOUS
<1>10. StepTo(v, at, n) = [in |-> v.kind, key |-> key, names |-> names]
  BY <1>6, <1>9 DEF StepTo
<1>11. key \in Int
  BY <1>7, <1>9
<1>12. StepTo(v, at, n) \in Steps /\ StepTo(v, at, n).in = v.kind /\ StepTo(v, at, n).names = names
  BY <1>2, <1>8, <1>10, <1>11 DEF Steps
<1>13. \A i \in 1..Len(v.values) : StepTo(v, at, i) = StepTo(v, at, n) => i = n
  BY <1>2, <1>5 DEF Key
<1>14. /\ v.kind = "object" => StepTo(v, at, n).key = v.names[n]
       /\ v.kind # "object" => StepTo(v, at, n).key = n
  BY <1>5 DEF Key
<1>15. Follows(StepTo(v, at, n), at)
  BY <1>6, <1>12, <1>14 DEF Follows
<1> QED BY <1>2, <1>12, <1>13, <1>14, <1>15

LEMMA StepShape ==
  ASSUME NEW f \in Frames, IsCall(f), NEW n \in 1..Len(f.value.values)
  PROVE  /\ Step(f, n) \in Steps /\ Step(f, n).in = f.kind
         /\ Follows(Step(f, n), f.at)
         /\ f.kind = "array" => Step(f, n).key = n
         /\ f.kind = "object" => Step(f, n).key = f.value.names[n]
         /\ \A i \in 1..Len(f.value.values) : Step(f, i) = Step(f, n) => i = n
<1>1. PICK v, at : v = f.value /\ at = f.at
  OBVIOUS
<1>2. v \in Json /\ at \in Places /\ v.kind # "leaf" /\ f.kind = v.kind /\ n \in 1..Len(v.values)
  BY <1>1 DEF Frames, IsCall
<1>3. \A i : Step(f, i) = StepTo(v, at, i)
  BY <1>1 DEF Step
<1> QED BY <1>1, <1>2, <1>3, StepToShape

(* A name more.                                                            *)
LEMMA AppendName ==
  ASSUME NEW s \in Seq(Names), NEW key \in Int, NEW t, t = Append(s, key)
  PROVE  /\ Len(s) \in Nat /\ Len(t) = Len(s) + 1
         /\ t[Len(s) + 1] = key /\ \A n \in 1..Len(s) : t[n] = s[n]
<1>1. s \in Seq(Int)
  BY SeqMonotonic, JsonAssumption
<1> QED BY <1>1, AppendSeq

(* The place one step further.                                             *)
LEMMA OneStep ==
  ASSUME NEW p \in Places, Named(p), NEW st \in Steps, Follows(st, p),
         NEW h, h = Append(p, st)
  PROVE  Extends(h, p, st) /\ Named(h)
<1> st.names = IF st.in = "object" THEN Append(NamesTo(p), st.key) ELSE NamesTo(p)
  BY DEF Follows
<1>1. /\ h \in Places /\ Len(p) \in Nat /\ Len(h) = Len(p) + 1
      /\ DOMAIN h = 1..Len(h) /\ DOMAIN p = 1..Len(p)
      /\ h[Len(p) + 1] = st /\ \A k \in 1..Len(p) : h[k] = p[k]
  BY AppendSeq DEF Places
<1>2. PICK last : last = Len(p) + 1
  OBVIOUS
<1>3. NamesBefore(h, last) = NamesTo(p)
  <2>1. CASE p = <<>>
    <3>1. Len(p) = 0
      BY <2>1, EmptySeq
    <3> QED BY <1>2, <2>1, <3>1 DEF NamesBefore, NamesTo
  <2>2. CASE p # <<>>
    <3>1. Len(p) \in 1..Len(p) /\ last # 1 /\ last - 1 = Len(p)
      BY <1>1, <1>2, <2>2, EmptySeq DEF Places
    <3>2. h[last - 1] = p[Len(p)]
      BY <1>1, <3>1
    <3> QED BY <2>2, <3>1, <3>2 DEF NamesBefore, NamesTo
  <2> QED BY <2>1, <2>2
<1>4. st.in \in {"array", "object"} /\ st.key \in Int /\ st.names \in Seq(Names) /\ NamesTo(p) \in Seq(Names)
  BY NamesToType DEF Steps
<1>5. Begins(st.names, NamesTo(p))
  <2>1. CASE st.in = "object"
    <3>1. st.names = Append(NamesTo(p), st.key)
      BY <2>1
    <3>2. /\ Len(NamesTo(p)) \in Nat /\ Len(st.names) = Len(NamesTo(p)) + 1
          /\ \A n \in 1..Len(NamesTo(p)) : st.names[n] = NamesTo(p)[n]
      BY <1>4, <3>1, AppendName
    <3> QED BY <3>2 DEF Begins
  <2>2. CASE st.in # "object"
    <3>1. st.names = NamesTo(p) /\ Len(NamesTo(p)) \in Nat
      BY <1>4, <2>2, LenProperties
    <3> QED BY <3>1 DEF Begins
  <2> QED BY <2>1, <2>2
<1>6. ASSUME NEW k \in DOMAIN h
      PROVE  /\ h[k].names = IF h[k].in = "object" THEN Append(NamesBefore(h, k), h[k].key)
                             ELSE NamesBefore(h, k)
             /\ \A j \in 1..k : Begins(h[k].names, h[j].names)
  <2>1. CASE k <= Len(p)
    <3>1. k \in 1..Len(p) /\ k \in DOMAIN p /\ h[k] = p[k] /\ \A j \in 1..k : h[j] = p[j]
      BY <1>1, <2>1
    <3>2. k # 1 => k - 1 \in 1..k
      BY <3>1
    <3>3. NamesBefore(h, k) = NamesBefore(p, k)
      BY <3>1, <3>2 DEF NamesBefore
    <3>4. p[k].names = IF p[k].in = "object" THEN Append(NamesBefore(p, k), p[k].key)
                       ELSE NamesBefore(p, k)
      BY <3>1 DEF Named
    <3>5. \A j \in 1..k : Begins(p[k].names, p[j].names)
      BY <3>1 DEF Named
    <3>6. \A j \in 1..k : Begins(h[k].names, h[j].names)
      BY <3>1, <3>5
    <3> QED BY <3>1, <3>3, <3>4, <3>6
  <2>2. CASE k > Len(p)
    <3>1. k = last /\ h[k] = st
      BY <1>1, <1>2, <2>2
    <3>2. h[k].names = IF h[k].in = "object" THEN Append(NamesBefore(h, k), h[k].key)
                       ELSE NamesBefore(h, k)
      BY <1>3, <3>1
    <3>3. ASSUME NEW j \in 1..k PROVE Begins(st.names, h[j].names)
      <4>1. CASE j = k
        <5>1. Len(st.names) \in Nat
          BY <1>4, LenProperties
        <5>2. h[j] = st
          BY <3>1, <4>1
        <5>3. Begins(st.names, st.names)
          BY <5>1 DEF Begins
        <5> QED BY <5>2, <5>3
      <4>2. CASE j < k
        <5>1. /\ j \in 1..Len(p) /\ h[j] = p[j] /\ Len(p) \in DOMAIN p /\ j \in 1..Len(p)
              /\ Len(p) \in 1..Len(p) /\ Len(p) # 0
          BY <1>1, <1>2, <3>1, <4>2
        <5>2. NamesTo(p) = p[Len(p)].names
          BY <5>1, NamesToType, EmptySeq
        <5>3. Begins(NamesTo(p), p[j].names)
          BY <5>1, <5>2 DEF Named
        <5>4. p[j] \in Steps
          BY <5>1, ElementOfSeq DEF Places
        <5>5. p[j].names \in Seq(Names)
          BY <5>4 DEF Steps
        <5>6. Len(p[j].names) \in Nat /\ Len(NamesTo(p)) \in Nat
          BY <1>4, <5>5, LenProperties
        <5>7. Begins(st.names, p[j].names)
          BY <1>5, <5>3, <5>6 DEF Begins
        <5> QED BY <5>1, <5>7
      <4> QED BY <1>1, <1>2, <3>1, <4>1, <4>2
    <3> QED BY <3>1, <3>2, <3>3
  <2> QED BY <1>1, <2>1, <2>2
<1>7. Named(h)
  BY <1>6 DEF Named
<1> QED BY <1>1, <1>7 DEF Extends

-----------------------------------------------------------------------------
(* The place of the member or element that the innermost call is at lies   *)
(* inside all the calls, at the part of its value that each has got to.    *)
Calls(s) == s \in Seq(Frames) /\ \A n \in 1..Len(s) : IsCall(s[n])

Part(s, n) == IF n = 1 THEN s[1].next ELSE s[n].next - 1

IsHere(h, s) ==
    /\ s # <<>> /\ s[1].next <= Len(s[1].value.values)
    /\ h = Append(s[1].at, Step(s[1], s[1].next))

LEMMA FrameShape ==
  ASSUME NEW f \in Frames, IsCall(f)
  PROVE  /\ f.kind \in {"array", "object"} /\ f.value \in Json /\ f.value.kind = f.kind
         /\ f.at \in Places /\ Len(f.at) \in Nat /\ f.trail \in Trails /\ f.node \in Seq(Names)
         /\ f.nodesCount \in Int /\ f.fieldsCount \in Int
         /\ Len(f.value.values) \in Nat
         /\ f.next \in Nat /\ f.next >= 1 /\ f.next <= Len(f.value.values) + 1
<1>1. /\ f.kind \in {"array", "object"} /\ f.value \in Json /\ f.value.kind = f.kind
      /\ f.at \in Places /\ f.trail \in Trails /\ f.node \in Seq(Names)
      /\ f.nodesCount \in Int /\ f.fieldsCount \in Int /\ f.next \in Nat
  BY DEF Frames, IsCall
<1>2. Len(f.value.values) \in Nat
  BY <1>1, ValueShape
<1>3. Len(f.at) \in Nat
  BY <1>1, LenProperties DEF Places
<1>4. f.next \in 1..Len(f.value.values) + 1
  BY DEF IsCall
<1> QED BY <1>1, <1>2, <1>3, <1>4

LEMMA CallsShape ==
  ASSUME NEW s, Calls(s), CallsNested(s)
  PROVE  /\ Len(s) \in Nat /\ DOMAIN s = 1..Len(s)
         /\ s # <<>> => Len(s) \in Nat \ {0} /\ 1 \in 1..Len(s)
         /\ \A n \in 1..Len(s) :
              /\ s[n] \in Frames /\ IsCall(s[n])
              /\ Len(s[n].at) = Len(s) - n /\ Named(s[n].at)
              /\ \A m \in 1..n - 1 : Inside(s[m], s[n])
<1>1. /\ Len(s) \in Nat /\ DOMAIN s = 1..Len(s)
      /\ s # <<>> => Len(s) \in Nat \ {0} /\ 1 \in 1..Len(s)
  BY EmptySeq, LenProperties DEF Calls
<1>2. \A n \in 1..Len(s) : s[n] \in Frames
  BY ElementOfSeq DEF Calls
<1>3. \A n \in 1..Len(s) : IsCall(s[n])
  BY DEF Calls
<1>4. \A n \in 1..Len(s) :
        /\ Len(s[n].at) = Len(s) - n
        /\ Named(s[n].at)
        /\ \A m \in 1..n - 1 : Inside(s[m], s[n])
  BY <1>1 DEF CallsNested
<1> QED BY <1>1, <1>2, <1>3, <1>4

LEMMA HereShape ==
  ASSUME NEW s, Calls(s), CallsNested(s), NEW h, IsHere(h, s)
  PROVE  /\ h \in Places /\ Len(h) = Len(s) /\ DOMAIN h = 1..Len(h)
         /\ Named(h)
         /\ \A n \in 1..Len(s) :
              /\ Part(s, n) \in 1..Len(s[n].value.values)
              /\ Begins(h, s[n].at)
              /\ h[Len(s[n].at) + 1] = Step(s[n], Part(s, n))
              /\ h[Len(s[n].at) + 1].in = s[n].kind
<1>1. Len(s) \in Nat \ {0} /\ 1 \in 1..Len(s)
  BY CallsShape DEF IsHere
<1>2. s[1] \in Frames /\ IsCall(s[1]) /\ Len(s[1].at) = Len(s) - 1 /\ Named(s[1].at)
  BY <1>1, CallsShape
<1>3. PICK f : f = s[1]
  OBVIOUS
<1>4. f \in Frames /\ IsCall(f) /\ f.next <= Len(f.value.values)
  BY <1>2, <1>3 DEF IsHere
<1>5. f.next \in 1..Len(f.value.values) /\ f.at \in Places /\ Named(f.at) /\ Len(f.at) = Len(s) - 1
  BY <1>2, <1>3, <1>4, FrameShape
<1>6. PICK st, at : st = Step(f, f.next) /\ at = f.at
  OBVIOUS
<1>7. st \in Steps /\ st.in = f.kind /\ Follows(st, at)
  BY <1>4, <1>5, <1>6, StepShape
<1>8. h = Append(at, st) /\ at \in Places /\ Named(at)
  BY <1>3, <1>5, <1>6 DEF IsHere
<1>9. Extends(h, at, st) /\ Named(h)
  BY <1>7, <1>8, OneStep
<1>10. Begins(h, at)
  BY <1>9 DEF Begins, Extends
<1>11. Len(h) = Len(s)
  BY <1>1, <1>5, <1>6, <1>9 DEF Extends
<1>12. ASSUME NEW n \in 1..Len(s)
       PROVE  /\ Part(s, n) \in 1..Len(s[n].value.values)
              /\ Begins(h, s[n].at)
              /\ h[Len(s[n].at) + 1] = Step(s[n], Part(s, n))
  <2>1. CASE n = 1
    <3>1. Part(s, n) = f.next /\ s[n] = f
      BY <1>3, <2>1 DEF Part
    <3> QED BY <1>5, <1>6, <1>9, <1>10, <3>1 DEF Extends
  <2>2. CASE n # 1
    <3>1. 1 \in 1..n - 1
      BY <1>1, <2>2
    <3>2. s[n] \in Frames /\ IsCall(s[n]) /\ Inside(s[1], s[n]) /\ Len(s[n].at) = Len(s) - n
      BY <3>1, CallsShape
    <3>3. PICK g : g = s[n]
      OBVIOUS
    <3>4. g \in Frames /\ IsCall(g) /\ Inside(f, g) /\ Len(g.at) = Len(s) - n
      BY <1>3, <3>2, <3>3
    <3>5. Part(s, n) = g.next - 1
      BY <2>2, <3>3 DEF Part
    <3>6. g.next - 1 \in 1..Len(g.value.values)
      BY <3>4, FrameShape DEF Inside
    <3>7. Begins(f.at, g.at) /\ f.at[Len(g.at) + 1] = Step(g, g.next - 1)
      BY <3>4 DEF Inside
    <3>8. Len(g.at) + 1 \in 1..Len(at) /\ Len(g.at) \in Nat /\ Len(h) \in Nat
      BY <1>1, <1>5, <1>6, <1>11, <2>2, <3>4
    <3>9. Begins(h, g.at)
      BY <1>6, <1>9, <1>10, <3>7, <3>8, BeginsTransitive DEF Extends
    <3>10. h[Len(g.at) + 1] = Step(g, g.next - 1)
      BY <1>6, <1>9, <3>7, <3>8 DEF Extends
    <3> QED BY <3>3, <3>5, <3>6, <3>9, <3>10
  <2> QED BY <2>1, <2>2
<1>13. ASSUME NEW n \in 1..Len(s) PROVE h[Len(s[n].at) + 1].in = s[n].kind
  <2>1. s[n] \in Frames /\ IsCall(s[n])
    BY CallsShape
  <2>2. PICK i : i = Part(s, n)
    OBVIOUS
  <2>3. i \in 1..Len(s[n].value.values) /\ h[Len(s[n].at) + 1] = Step(s[n], i)
    BY <1>12, <2>2
  <2> QED BY <2>1, <2>3, StepShape
<1> QED BY <1>9, <1>11, <1>12, <1>13 DEF Extends

(* It is ahead of them.                                                    *)
LEMMA HereAhead ==
  ASSUME NEW s, Calls(s), CallsNested(s), NEW h, IsHere(h, s),
         NEW p, Begins(p, h), Len(p) \in Nat
  PROVE  Ahead(s, p)
<1>1. Len(s) \in Nat \ {0} /\ 1 \in 1..Len(s) /\ DOMAIN s = 1..Len(s)
  BY CallsShape DEF IsHere
<1>2. s[1] \in Frames /\ IsCall(s[1]) /\ Len(s[1].at) = Len(s) - 1
  BY <1>1, CallsShape
<1>3. PICK f : f = s[1]
  OBVIOUS
<1>4. f \in Frames /\ IsCall(f) /\ Len(f.at) = Len(s) - 1 /\ f.next <= Len(f.value.values)
  BY <1>2, <1>3 DEF IsHere
<1>5. Part(s, 1) = f.next
  BY <1>3 DEF Part
<1>6. Len(h) = Len(s) /\ Begins(h, f.at) /\ h[Len(f.at) + 1] = Step(f, f.next)
  BY <1>1, <1>3, <1>5, HereShape
<1>7. Len(f.at) + 1 \in 1..Len(h) /\ Len(f.at) \in Nat /\ Len(h) \in Nat /\ Len(h) > Len(f.at)
  <2>1. PICK a, b : a = Len(f.at) /\ b = Len(h)
    OBVIOUS
  <2>2. a \in Nat /\ b = a + 1
    <3>1. b = Len(s) /\ a = Len(s) - 1
      BY <1>4, <1>6, <2>1
    <3> QED BY <1>1, <3>1
  <2> QED BY <2>1, <2>2
<1>8. /\ p[Len(f.at) + 1] = Step(f, f.next)
      /\ Begins(p, f.at) /\ Len(p) > Len(f.at)
  <2>1. p[Len(f.at) + 1] = h[Len(f.at) + 1] /\ Len(p) >= Len(h)
    BY <1>7 DEF Begins
  <2> QED BY <1>6, <1>7, <2>1, BeginsTransitive
<1>9. f.next \in f.next..Len(f.value.values)
  BY <1>4, FrameShape
<1>10. AheadOf(f, p)
  BY <1>8, <1>9 DEF AheadOf
<1> QED BY <1>1, <1>3, <1>10 DEF Ahead

(* The innermost call goes on to the next member or element.               *)
Advances(g, f) ==
    g \in Frames /\ g.kind = f.kind /\ g.value = f.value /\ g.at = f.at /\ g.next = f.next + 1

GoneOn(s, h, f, t) ==
    /\ Calls(t) /\ CallsNested(t) /\ t # <<>> /\ Len(t) = Len(s)
    /\ t[1] = f /\ \A n \in 2..Len(s) : t[n] = s[n]
    /\ \A p : Ahead(t, p) => Ahead(s, p)
    /\ ~Ahead(t, h)
    /\ \A g : g.at = h => \A n \in 1..Len(t) : Inside(g, t[n])

LEMMA AdvanceCalls ==
  ASSUME NEW s, Calls(s), CallsNested(s), NEW h, IsHere(h, s),
         NEW f, Advances(f, s[1]), NEW t, t = <<f>> \o Tail(s)
  PROVE  GoneOn(s, h, f, t)
<1>1. s \in Seq(Frames) /\ s # <<>> /\ f \in Frames
  BY DEF Calls, IsHere, Advances
<1>2. /\ t \in Seq(Frames) /\ t # <<>> /\ Len(t) = Len(s) /\ Len(s) \in Nat \ {0}
      /\ t[1] = f /\ \A n \in 2..Len(s) : t[n] = s[n]
  BY <1>1, ProceedSeq
<1>3. 1 \in 1..Len(s) /\ DOMAIN s = 1..Len(s) /\ DOMAIN t = 1..Len(s)
  BY <1>1, <1>2, LenProperties
<1>4. ASSUME NEW n \in 1..Len(s)
      PROVE  /\ t[n].kind = s[n].kind /\ t[n].value = s[n].value /\ t[n].at = s[n].at
             /\ t[n].next = Part(s, n) + 1 /\ t[n].next >= s[n].next /\ s[n].next \in Nat
             /\ t[n].next \in Nat /\ Len(s[n].value.values) \in Nat /\ IsCall(s[n])
  <2>1. s[n] \in Frames /\ IsCall(s[n])
    BY CallsShape
  <2>2. s[n].next \in Nat /\ s[n].next >= 1 /\ Len(s[n].value.values) \in Nat
    BY <2>1, FrameShape
  <2>3. CASE n = 1
    <3>1. t[n] = f /\ s[n] = s[1] /\ Part(s, n) = s[1].next
      BY <1>2, <2>3 DEF Part
    <3>2. f.next = s[1].next + 1 /\ f.kind = s[1].kind /\ f.value = s[1].value /\ f.at = s[1].at
      BY DEF Advances
    <3>3. s[1].next \in Nat
      BY <2>2, <3>1
    <3> QED BY <2>1, <2>2, <3>1, <3>2, <3>3
  <2>4. CASE n # 1
    <3>1. t[n] = s[n] /\ Part(s, n) = s[n].next - 1
      BY <1>2, <2>4 DEF Part
    <3> QED BY <2>1, <2>2, <3>1
  <2> QED BY <2>3, <2>4
<1>5. \A n \in 1..Len(s) : \A i : Step(t[n], i) = Step(s[n], i)
  BY <1>4 DEF Step
<1>6. Calls(t)
  <2>1. ASSUME NEW n \in 1..Len(t) PROVE IsCall(t[n])
    <3>1. n \in 1..Len(s)
      BY <1>2
    <3>2. Part(s, n) \in 1..Len(s[n].value.values)
      BY <3>1, HereShape
    <3>3. t[n].next \in 1..Len(t[n].value.values) + 1
      <4>1. PICK a, b, c : a = Part(s, n) /\ b = t[n].next /\ c = Len(s[n].value.values)
        OBVIOUS
      <4>2. b = a + 1 /\ c \in Nat /\ t[n].value = s[n].value
        BY <1>4, <3>1, <4>1
      <4>3. a \in 1..c
        BY <3>2, <4>1
      <4>4. b \in 1..c + 1
        BY <4>2, <4>3
      <4> QED BY <4>1, <4>2, <4>4
    <3>4. t[n].kind = t[n].value.kind
      BY <1>4, <3>1 DEF IsCall
    <3> QED BY <3>3, <3>4 DEF IsCall
  <2> QED BY <1>2, <2>1 DEF Calls
<1>7. CallsNested(t)
  <2>1. ASSUME NEW n \in DOMAIN t
        PROVE  /\ Len(t[n].at) = Len(t) - n /\ Named(t[n].at)
               /\ \A m \in 1..n - 1 : Inside(t[m], t[n])
    <3>1. n \in 1..Len(s)
      BY <1>3
    <3>2. Len(t[n].at) = Len(t) - n /\ Named(t[n].at)
      BY <1>2, <1>4, <3>1, CallsShape
    <3>3. ASSUME NEW m \in 1..n - 1 PROVE Inside(t[m], t[n])
      <4>1. m \in 1..Len(s) /\ n \in 2..Len(s)
        BY <1>2, <3>1, <3>3
      <4>2. t[m].at = s[m].at /\ t[n] = s[n]
        BY <1>2, <1>4, <4>1
      <4>3. Inside(s[m], s[n])
        BY <3>1, CallsShape
      <4> QED BY <4>2, <4>3 DEF Inside
    <3> QED BY <3>2, <3>3
  <2> QED BY <2>1 DEF CallsNested
<1>8. ASSUME NEW p, Ahead(t, p) PROVE Ahead(s, p)
  <2>1. PICK n \in 1..Len(s) : AheadOf(t[n], p)
    BY <1>3, <1>8 DEF Ahead
  <2>2. PICK i \in t[n].next..Len(t[n].value.values) :
           Begins(p, t[n].at) /\ Len(p) > Len(t[n].at) /\ p[Len(t[n].at) + 1] = Step(t[n], i)
    BY <2>1 DEF AheadOf
  <2>3. i \in s[n].next..Len(s[n].value.values)
    <3>1. PICK a, b, c : a = s[n].next /\ b = t[n].next /\ c = Len(s[n].value.values)
      OBVIOUS
    <3>2. a \in Nat /\ b \in Nat /\ c \in Nat /\ b >= a /\ t[n].value = s[n].value
      BY <1>4, <3>1
    <3>3. i \in b..c
      BY <2>2, <3>1, <3>2
    <3>4. i \in a..c
      BY <3>2, <3>3
    <3> QED BY <3>1, <3>4
  <2>4. Begins(p, s[n].at) /\ Len(p) > Len(s[n].at) /\ p[Len(s[n].at) + 1] = Step(s[n], i)
    BY <1>4, <1>5, <2>2
  <2>5. AheadOf(s[n], p)
    BY <2>3, <2>4 DEF AheadOf
  <2> QED BY <1>3, <2>5 DEF Ahead
<1>9. ASSUME Ahead(t, h) PROVE FALSE
  <2>1. PICK n \in 1..Len(s) : AheadOf(t[n], h)
    BY <1>3, <1>9 DEF Ahead
  <2>2. PICK i \in t[n].next..Len(t[n].value.values) : h[Len(t[n].at) + 1] = Step(t[n], i)
    BY <2>1 DEF AheadOf
  <2>3. PICK k : k = Part(s, n)
    OBVIOUS
  <2>4. k \in 1..Len(s[n].value.values) /\ h[Len(s[n].at) + 1] = Step(s[n], k)
    BY <2>3, HereShape
  <2>5. Step(s[n], i) = Step(s[n], k)
    BY <1>4, <1>5, <2>2, <2>4
  <2>6. i > k /\ i \in 1..Len(s[n].value.values)
    <3>1. PICK b, c : b = t[n].next /\ c = Len(s[n].value.values)
      OBVIOUS
    <3>2. b = k + 1 /\ c \in Nat /\ t[n].value = s[n].value
      BY <1>4, <2>3, <3>1
    <3>3. k \in 1..c /\ i \in b..c
      BY <2>2, <2>4, <3>1, <3>2
    <3>4. i > k /\ i \in 1..c
      BY <3>2, <3>3
    <3> QED BY <3>1, <3>4
  <2>7. s[n] \in Frames /\ IsCall(s[n])
    BY CallsShape
  <2>8. i = k
    BY <2>4, <2>5, <2>6, <2>7, StepShape
  <2> QED BY <2>4, <2>6, <2>8
<1>10. ASSUME NEW g, g.at = h, NEW n \in 1..Len(t) PROVE Inside(g, t[n])
  <2>1. n \in 1..Len(s)
    BY <1>2
  <2>2. PICK k : k = Part(s, n)
    OBVIOUS
  <2>3. /\ k \in 1..Len(s[n].value.values) /\ Begins(h, s[n].at)
        /\ h[Len(s[n].at) + 1] = Step(s[n], k) /\ Len(h) = Len(s)
    BY <2>1, <2>2, HereShape
  <2>4. t[n].next = k + 1 /\ t[n].next > 1 /\ t[n].next - 1 = k
    <3>1. Len(s[n].value.values) \in Nat /\ t[n].next = k + 1
      BY <1>4, <2>1, <2>2
    <3>2. k \in Int /\ k >= 1
      BY <2>3, <3>1
    <3> QED BY <3>1, <3>2
  <2>5. Len(s[n].at) = Len(s) - n
    BY <2>1, CallsShape
  <2>6. Len(h) > Len(s[n].at)
    <3>1. PICK a, b : a = Len(s[n].at) /\ b = Len(h)
      OBVIOUS
    <3>2. b = Len(s) /\ a = Len(s) - n
      BY <2>3, <2>5, <3>1
    <3>3. b > a
      BY <1>2, <3>2
    <3> QED BY <3>1, <3>3
  <2>7. t[n].at = s[n].at /\ Step(t[n], k) = Step(s[n], k)
    BY <1>4, <1>5, <2>1
  <2> QED BY <1>10, <2>3, <2>4, <2>6, <2>7 DEF Inside
<1> QED BY <1>2, <1>6, <1>7, <1>8, <1>9, <1>10 DEF GoneOn

(* It reads the member or element.                                         *)
GoneInto(s, h, f, g, u) ==
    /\ Calls(u) /\ CallsNested(u) /\ u # <<>> /\ Len(u) = Len(s) + 1
    /\ u[1] = g /\ u[2] = f /\ \A n \in 3..Len(u) : u[n] = s[n - 1]
    /\ \A p : Len(p) \in Nat /\ Ahead(u, p) => Ahead(s, p)
    /\ ~Ahead(u, h)

LEMMA EncloseCalls ==
  ASSUME NEW s, Calls(s), CallsNested(s), NEW h, IsHere(h, s),
         NEW f, Advances(f, s[1]), NEW g \in Frames, IsCall(g), g.at = h,
         NEW u, u = <<g, f>> \o Tail(s)
  PROVE  GoneInto(s, h, f, g, u)
<1>1. s \in Seq(Frames) /\ s # <<>> /\ f \in Frames
  BY DEF Calls, IsHere, Advances
<1>2. /\ u \in Seq(Frames) /\ u # <<>> /\ Len(u) = Len(s) + 1 /\ Len(s) \in Nat \ {0}
      /\ u[1] = g /\ u[2] = f /\ \A n \in 3..Len(u) : u[n] = s[n - 1]
  BY <1>1, EncloseSeq
<1>3. PICK t : t = <<f>> \o Tail(s)
  OBVIOUS
<1>4. /\ Calls(t) /\ CallsNested(t) /\ t # <<>> /\ Len(t) = Len(s)
      /\ t[1] = f /\ \A n \in 2..Len(s) : t[n] = s[n]
      /\ \A p : Ahead(t, p) => Ahead(s, p)
      /\ ~Ahead(t, h)
      /\ \A n \in 1..Len(t) : Inside(g, t[n])
  <2>1. GoneOn(s, h, f, t)
    BY <1>3, AdvanceCalls
  <2> QED BY <2>1 DEF GoneOn
<1>5. DOMAIN u = 1..Len(s) + 1 /\ DOMAIN t = 1..Len(s)
  BY <1>2, <1>4, LenProperties DEF Calls
<1>6. ASSUME NEW n \in 2..Len(s) + 1 PROVE u[n] = t[n - 1] /\ n - 1 \in 1..Len(s)
  <2>1. CASE n = 2
    BY <1>2, <1>4, <2>1
  <2>2. CASE n # 2
    <3>1. n \in 3..Len(u) /\ n - 1 \in 2..Len(s)
      BY <1>2, <1>6, <2>2
    <3> QED BY <1>2, <1>4, <3>1
  <2> QED BY <2>1, <2>2
<1>7. \A n \in 1..Len(s) : t[n] \in Frames /\ IsCall(t[n]) /\ Len(t[n].at) = Len(s) - n /\ Named(t[n].at)
                           /\ \A m \in 1..n - 1 : Inside(t[m], t[n])
  BY <1>4, CallsShape
<1>8. Calls(u)
  <2>1. ASSUME NEW n \in 1..Len(u) PROVE IsCall(u[n])
    <3>1. CASE n = 1
      BY <1>2, <3>1
    <3>2. CASE n # 1
      <4>1. n \in 2..Len(s) + 1
        BY <1>2, <3>2
      <4> QED BY <1>6, <1>7, <4>1
    <3> QED BY <3>1, <3>2
  <2> QED BY <1>2, <2>1 DEF Calls
<1>9. Named(h) /\ Len(h) = Len(s) /\ Len(h) \in Nat /\ h \in Places
  BY <1>2, HereShape
<1>10. CallsNested(u)
  <2>1. ASSUME NEW n \in DOMAIN u
        PROVE  /\ Len(u[n].at) = Len(u) - n /\ Named(u[n].at)
               /\ \A m \in 1..n - 1 : Inside(u[m], u[n])
    <3>1. CASE n = 1
      <4>1. u[n] = g /\ Len(h) = Len(u) - n
        BY <1>2, <1>9, <3>1
      <4>2. 1..n - 1 = {}
        BY <3>1
      <4> QED BY <1>9, <4>1, <4>2
    <3>2. CASE n # 1
      <4>1. n \in 2..Len(s) + 1
        BY <1>2, <1>5, <3>2
      <4>2. PICK k : k = n - 1
        OBVIOUS
      <4>3. u[n] = t[k] /\ k \in 1..Len(s) /\ n = k + 1
        BY <1>6, <4>1, <4>2
      <4>4. Len(t[k].at) = Len(s) - k /\ Named(t[k].at) /\ \A m \in 1..k - 1 : Inside(t[m], t[k])
        BY <1>7, <4>3
      <4>5. Len(u) - n = Len(s) - k
        BY <1>2, <4>3
      <4>6. ASSUME NEW m \in 1..n - 1 PROVE Inside(u[m], u[n])
        <5>1. CASE m = 1
          BY <1>2, <1>4, <4>3, <5>1
        <5>2. CASE m # 1
          <6>1. m \in 2..Len(s) + 1 /\ m - 1 \in 1..k - 1
            BY <1>2, <4>1, <4>3, <4>6, <5>2
          <6> QED BY <1>6, <4>3, <4>4, <6>1
        <5> QED BY <5>1, <5>2
      <4> QED BY <4>3, <4>4, <4>5, <4>6
    <3> QED BY <3>1, <3>2
  <2> QED BY <2>1 DEF CallsNested
<1>11. ASSUME NEW p, AheadOf(g, p), Len(p) \in Nat PROVE Ahead(s, p) /\ Len(p) > Len(h)
  <2>1. Begins(p, h) /\ Len(p) > Len(h)
    BY <1>11 DEF AheadOf
  <2> QED BY <1>11, <2>1, HereAhead
<1>12. ASSUME NEW p, Ahead(u, p) PROVE AheadOf(g, p) \/ Ahead(t, p)
  <2>1. PICK n \in 1..Len(s) + 1 : AheadOf(u[n], p)
    BY <1>5, <1>12 DEF Ahead
  <2>2. CASE n = 1
    BY <1>2, <2>1, <2>2
  <2>3. CASE n # 1
    <3>1. n \in 2..Len(s) + 1
      BY <1>2, <2>3
    <3>2. n - 1 \in DOMAIN t /\ AheadOf(t[n - 1], p)
      BY <1>5, <1>6, <2>1, <3>1
    <3> QED BY <3>2 DEF Ahead
  <2> QED BY <2>2, <2>3
<1>13. \A p : Len(p) \in Nat /\ Ahead(u, p) => Ahead(s, p)
  BY <1>4, <1>11, <1>12
<1>14. ~Ahead(u, h)
  <2>1. ~AheadOf(g, h)
    BY <1>9, <1>11
  <2> QED BY <1>4, <1>12, <2>1
<1> QED BY <1>2, <1>8, <1>10, <1>13, <1>14 DEF GoneInto

(* It returns.                                                             *)
GoneBack(s, t) ==
    /\ Calls(t) /\ CallsNested(t) /\ Len(t) = Len(s) - 1
    /\ \A n \in 1..Len(t) : t[n] = s[n + 1] /\ n + 1 \in 1..Len(s)
    /\ \A p : Ahead(t, p) => Ahead(s, p)

LEMMA LeaveCalls ==
  ASSUME NEW s, Calls(s), CallsNested(s), s # <<>>, NEW t, t = Tail(s)
  PROVE  GoneBack(s, t)
<1>1. /\ Len(s) \in Nat \ {0} /\ DOMAIN s = 1..Len(s)
      /\ \A n \in 1..Len(s) : /\ s[n] \in Frames /\ IsCall(s[n])
                             /\ Len(s[n].at) = Len(s) - n /\ Named(s[n].at)
                             /\ \A m \in 1..n - 1 : Inside(s[m], s[n])
  BY CallsShape
<1>2. /\ t \in Seq(Frames) /\ Len(t) = Len(s) - 1
      /\ \A n \in 1..Len(t) : t[n] = s[n + 1]
  BY HeadTailProperties DEF Calls
<1>3. /\ DOMAIN t = 1..Len(t) /\ Len(s) \in Nat \ {0} /\ Len(t) = Len(s) - 1
      /\ \A n \in 1..Len(t) : n + 1 \in 1..Len(s)
  <2>1. Len(s) \in Nat \ {0} /\ Len(t) = Len(s) - 1
    BY <1>1, <1>2
  <2>2. \A n \in 1..Len(t) : n + 1 \in 1..Len(s)
    BY <2>1
  <2> QED BY <1>2, <2>1, <2>2, LenProperties
<1>4. Calls(t)
  BY <1>1, <1>2, <1>3 DEF Calls
<1>5. CallsNested(t)
  <2>1. ASSUME NEW n \in DOMAIN t
        PROVE  /\ Len(t[n].at) = Len(t) - n /\ Named(t[n].at)
               /\ \A m \in 1..n - 1 : Inside(t[m], t[n])
    <3>1. PICK k : k = n + 1
      OBVIOUS
    <3>2. k \in 1..Len(s) /\ t[n] = s[k] /\ n = k - 1
      BY <1>2, <1>3, <3>1
    <3>3. /\ Len(s[k].at) = Len(s) - k /\ Named(s[k].at)
          /\ \A m \in 1..k - 1 : Inside(s[m], s[k])
      BY <1>1, <3>2
    <3>4. Len(s) - k = Len(t) - n
      BY <1>3, <3>2
    <3>5. ASSUME NEW m \in 1..n - 1 PROVE Inside(t[m], t[n])
      <4>1. m \in 1..Len(t) /\ m + 1 \in 1..k - 1
        BY <1>3, <3>2, <3>5
      <4> QED BY <1>2, <3>2, <3>3, <4>1
    <3> QED BY <3>2, <3>3, <3>4, <3>5
  <2> QED BY <2>1 DEF CallsNested
<1>6. ASSUME NEW p, Ahead(t, p) PROVE Ahead(s, p)
  <2>1. PICK n \in 1..Len(t) : AheadOf(t[n], p)
    BY <1>3, <1>6 DEF Ahead
  <2>2. n + 1 \in DOMAIN s /\ AheadOf(s[n + 1], p)
    BY <1>1, <1>2, <1>3, <2>1
  <2> QED BY <2>2 DEF Ahead
<1> QED BY <1>2, <1>3, <1>4, <1>5, <1>6 DEF GoneBack

-----------------------------------------------------------------------------
(* What a trail fits, it fits with more arrays numbered,                   *)
Grows(os, more) == DOMAIN os \subseteq DOMAIN more /\ \A a \in DOMAIN os : more[a] = os[a]

LEMMA FitsGrows ==
  ASSUME NEW os, NEW more, Grows(os, more), NEW trl, NEW p, Fits(os, trl, p)
  PROVE  Fits(more, trl, p)
<1>1. ASSUME NEW i \in DOMAIN trl
      PROVE  /\ trl[i][1] \in DOMAIN os
             /\ \A k : Through(more, trl[i], p, k) <=> Through(os, trl[i], p, k)
  <2>1. trl[i][1] \in DOMAIN os
    BY DEF Fits
  <2>2. more[trl[i][1]] = os[trl[i][1]]
    BY <2>1 DEF Grows
  <2> QED BY <2>1, <2>2 DEF Through
<1> QED BY <1>1 DEF Fits, Grows

LEMMA SeenGrows ==
  ASSUME NEW os, NEW more, Grows(os, more), NEW f, NEW trl, Seen(os, f, trl)
  PROVE  Seen(more, f, trl)
BY DEF Grows, Seen

(* fits a member of the object at p,                                       *)
LEMMA ThroughStep ==
  ASSUME NEW p, NEW st, NEW q, Extends(q, p, st), NEW os, NEW t, NEW k \in DOMAIN p
  PROVE  k \in DOMAIN q /\ (Through(os, t, q, k) <=> Through(os, t, p, k))
<1>1. /\ k \in 1..Len(p) /\ Len(p) \in Nat /\ q[k] = p[k]
      /\ k \in DOMAIN q /\ \A j \in 1..k - 1 : q[j] = p[j]
  BY DEF Extends
<1>2. \A o : Encloses(o, q, k) <=> Encloses(o, p, k)
  BY <1>1 DEF Encloses
<1> QED BY <1>1, <1>2 DEF Through

LEMMA FitsMember ==
  ASSUME NEW p, NEW st, NEW q, Extends(q, p, st), st.in = "object",
         NEW os, NEW trl, Fits(os, trl, p)
  PROVE  Fits(os, trl, q)
<1>1. \A t : \A k \in DOMAIN p :
        k \in DOMAIN q /\ (Through(os, t, q, k) <=> Through(os, t, p, k))
  BY ThroughStep
<1>2. ASSUME NEW k \in DOMAIN q, q[k].in = "array" PROVE k \in DOMAIN p /\ p[k].in = "array"
  <2>1. k # Len(p) + 1
    BY <1>2 DEF Extends
  <2> QED BY <1>2, <2>1 DEF Extends
<1>3. \A i \in DOMAIN trl : /\ trl[i][1] \in DOMAIN os
                            /\ \E k \in DOMAIN q : Through(os, trl[i], q, k)
  BY <1>1 DEF Fits
<1>4. ASSUME NEW k \in DOMAIN q, q[k].in = "array"
      PROVE  \E i \in DOMAIN trl : Through(os, trl[i], q, k)
  <2>1. k \in DOMAIN p /\ p[k].in = "array"
    BY <1>2, <1>4
  <2>2. PICK i \in DOMAIN trl : Through(os, trl[i], p, k)
    BY <2>1 DEF Fits
  <2> QED BY <1>1, <2>1, <2>2
<1> QED BY <1>3, <1>4 DEF Fits

(* and with the element of the array at p one step further.                *)
LEMMA FitsElement ==
  ASSUME NEW p, NEW st, NEW q, Extends(q, p, st), st.in = "array",
         NEW os, NEW trl \in Trails, Fits(os, trl, p),
         NEW a \in DOMAIN os, os[a] = p, a \in Nat, st.key \in Nat,
         NEW more, more = Append(trl, <<a, st.key>>)
  PROVE  Fits(os, more, q)
<1>1. \A t : \A k \in DOMAIN p :
        k \in DOMAIN q /\ (Through(os, t, q, k) <=> Through(os, t, p, k))
  BY ThroughStep
<1>2. <<a, st.key>> \in Nat \X Nat
  OBVIOUS
<1>3. PICK pair : pair = <<a, st.key>>
  OBVIOUS
<1>4. pair \in Nat \X Nat /\ pair[1] = a /\ pair[2] = st.key /\ more = Append(trl, pair)
  BY <1>2, <1>3
<1>5. /\ Len(trl) \in Nat /\ Len(more) = Len(trl) + 1
      /\ more[Len(more)] = pair /\ \A n \in 1..Len(trl) : more[n] = trl[n]
      /\ DOMAIN trl = 1..Len(trl) /\ DOMAIN more = 1..Len(more)
  BY <1>4, AppendSeq DEF Trails
<1>6. PICK last : last = Len(p) + 1
  OBVIOUS
<1>7. last \in DOMAIN q /\ q[last] = st /\ Len(p) = last - 1 /\ \A j \in 1..last - 1 : q[j] = p[j]
  BY <1>6 DEF Extends
<1>8. Through(os, pair, q, last)
  <2>1. Encloses(p, q, last)
    BY <1>7 DEF Encloses
  <2> QED BY <1>4, <1>7, <2>1 DEF Through
<1>9. ASSUME NEW i \in DOMAIN more
      PROVE  more[i][1] \in DOMAIN os /\ \E k \in DOMAIN q : Through(os, more[i], q, k)
  <2>1. CASE i = Len(more)
    BY <1>4, <1>5, <1>7, <1>8, <2>1
  <2>2. CASE i # Len(more)
    <3>1. i \in DOMAIN trl /\ more[i] = trl[i]
      BY <1>5, <2>2
    <3>2. trl[i][1] \in DOMAIN os /\ \E k \in DOMAIN p : Through(os, trl[i], p, k)
      BY <3>1 DEF Fits
    <3> QED BY <1>1, <3>1, <3>2
  <2> QED BY <2>1, <2>2
<1>10. ASSUME NEW k \in DOMAIN q, q[k].in = "array"
       PROVE  \E i \in DOMAIN more : Through(os, more[i], q, k)
  <2>1. CASE k = last
    <3>1. Len(more) \in DOMAIN more
      BY <1>5
    <3> QED BY <1>5, <1>8, <2>1, <3>1
  <2>2. CASE k # last
    <3>1. k \in DOMAIN p /\ p[k].in = "array"
      BY <1>6, <1>10, <2>2 DEF Extends
    <3>2. PICK i \in DOMAIN trl : Through(os, trl[i], p, k)
      BY <3>1 DEF Fits
    <3>3. i \in DOMAIN more /\ more[i] = trl[i]
      BY <1>5
    <3> QED BY <1>1, <3>1, <3>2, <3>3
  <2> QED BY <2>1, <2>2
<1> QED BY <1>9, <1>10 DEF Fits

-----------------------------------------------------------------------------
(* The trails of the calls.                                                *)
CallFits(os, calls, n) ==
    /\ Fits(os, calls[n].trail, calls[n].at)
    /\ Len(calls[n].trail) <= Len(calls) - n
    /\ n > 1 => Seen(os, calls[n], calls[n - 1].trail)

LEMMA FitGoneOn ==
  ASSUME NEW s, Calls(s), CallsNested(s), NEW h, IsHere(h, s),
         NEW os, CallsFit(os, s),
         NEW f, Advances(f, s[1]), f.trail = s[1].trail, NEW t, GoneOn(s, h, f, t)
  PROVE  CallsFit(os, t)
<1>1. Len(s) \in Nat \ {0} /\ DOMAIN s = 1..Len(s) /\ 1 \in 1..Len(s) /\ DOMAIN t = 1..Len(s)
  <2>1. DOMAIN t = 1..Len(t)
    BY LenProperties DEF GoneOn, Calls
  <2> QED BY <2>1, CallsShape DEF IsHere, GoneOn
<1>2. \A n \in 1..Len(s) : CallFits(os, s, n)
  BY <1>1 DEF CallsFit, CallFits
<1>3. Len(t) = Len(s) /\ t[1] = f /\ \A n \in 2..Len(s) : t[n] = s[n]
  BY DEF GoneOn
<1>4. \A n \in 1..Len(s) : t[n].trail = s[n].trail /\ t[n].at = s[n].at
  BY <1>3 DEF Advances
<1>5. ASSUME NEW n \in 1..Len(s) PROVE CallFits(os, t, n)
  <2>1. CASE n = 1
    <3>1. Fits(os, s[1].trail, s[1].at) /\ Len(s[1].trail) <= Len(s) - 1
      BY <1>1, <1>2 DEF CallFits
    <3> QED BY <1>3, <1>4, <2>1, <3>1 DEF CallFits
  <2>2. CASE n # 1
    <3>1. n - 1 \in 1..Len(s) /\ n > 1 /\ n \in 2..Len(s)
      BY <1>1, <2>2
    <3>2. CallFits(os, s, n) /\ t[n] = s[n] /\ t[n - 1].trail = s[n - 1].trail
      BY <1>2, <1>3, <1>4, <3>1
    <3> QED BY <1>3, <3>1, <3>2 DEF CallFits
  <2> QED BY <2>1, <2>2
<1> QED BY <1>1, <1>5 DEF CallsFit, CallFits

LEMMA FitGoneInto ==
  ASSUME NEW s, Calls(s), CallsNested(s), NEW h, IsHere(h, s),
         NEW os, NEW more, Grows(os, more), CallsFit(os, s),
         NEW f, Advances(f, s[1]), f.trail = s[1].trail,
         NEW g, Fits(more, g.trail, g.at), Len(g.trail) <= Len(s), Seen(more, f, g.trail),
         NEW u, GoneInto(s, h, f, g, u)
  PROVE  CallsFit(more, u)
<1>1. /\ Len(s) \in Nat \ {0} /\ DOMAIN s = 1..Len(s) /\ 1 \in 1..Len(s)
      /\ DOMAIN u = 1..Len(s) + 1 /\ Len(u) = Len(s) + 1
  <2>1. DOMAIN u = 1..Len(u)
    BY LenProperties DEF GoneInto, Calls
  <2> QED BY <2>1, CallsShape DEF IsHere, GoneInto
<1>2. \A n \in 1..Len(s) : CallFits(os, s, n)
  BY <1>1 DEF CallsFit, CallFits
<1>3. u[1] = g /\ u[2] = f /\ \A n \in 3..Len(s) + 1 : u[n] = s[n - 1]
  BY <1>1 DEF GoneInto
<1>4. \A n \in 2..Len(s) + 1 : u[n].trail = s[n - 1].trail /\ u[n].at = s[n - 1].at
  BY <1>3 DEF Advances
<1>5. ASSUME NEW n \in 1..Len(s) + 1 PROVE CallFits(more, u, n)
  <2>1. CASE n = 1
    <3>1. Len(g.trail) <= Len(u) - 1
      BY <1>1
    <3> QED BY <1>3, <2>1, <3>1 DEF CallFits
  <2>2. CASE n # 1
    <3>1. PICK k : k = n - 1
      OBVIOUS
    <3>2. k \in 1..Len(s) /\ n \in 2..Len(s) + 1 /\ n > 1 /\ n = k + 1 /\ n - 1 = k
      BY <1>1, <2>2, <3>1
    <3>3. CallFits(os, s, k) /\ u[n].trail = s[k].trail /\ u[n].at = s[k].at
      BY <1>2, <1>4, <3>2
    <3>4. Fits(more, u[n].trail, u[n].at)
      BY <3>3, FitsGrows DEF CallFits
    <3>5. Len(u[n].trail) <= Len(u) - n
      <4>1. Len(s) - k = Len(u) - n
        BY <1>1, <3>2
      <4> QED BY <3>3, <4>1 DEF CallFits
    <3>6. Seen(more, u[n], u[k].trail)
      <4>1. CASE n = 2
        BY <1>3, <3>2, <4>1
      <4>2. CASE n # 2
        <5>1. n \in 3..Len(s) + 1 /\ k > 1 /\ k \in 2..Len(s) + 1
          BY <1>1, <3>2, <4>2
        <5>2. u[n] = s[k] /\ u[k].trail = s[k - 1].trail
          BY <1>3, <1>4, <3>2, <5>1
        <5>3. Seen(os, s[k], s[k - 1].trail)
          BY <3>3, <5>1 DEF CallFits
        <5> QED BY <5>2, <5>3, SeenGrows
      <4> QED BY <4>1, <4>2
    <3> QED BY <3>2, <3>4, <3>5, <3>6 DEF CallFits
  <2> QED BY <2>1, <2>2
<1> QED BY <1>1, <1>5 DEF CallsFit, CallFits

LEMMA FitGoneBack ==
  ASSUME NEW s, Calls(s), CallsNested(s), s # <<>>,
         NEW os, CallsFit(os, s), NEW t, GoneBack(s, t)
  PROVE  /\ CallsFit(os, t)
         /\ t # <<>> => Seen(os, t[1], s[1].trail)
         /\ t = <<>> => Len(s[1].trail) <= 0
<1>1. /\ Len(s) \in Nat \ {0} /\ DOMAIN s = 1..Len(s) /\ 1 \in 1..Len(s)
      /\ DOMAIN t = 1..Len(t) /\ Len(t) = Len(s) - 1
  <2>1. DOMAIN t = 1..Len(t)
    BY LenProperties DEF GoneBack, Calls
  <2> QED BY <2>1, CallsShape DEF GoneBack
<1>2. \A n \in 1..Len(s) : CallFits(os, s, n)
  BY <1>1 DEF CallsFit, CallFits
<1>3. \A n \in 1..Len(t) : t[n] = s[n + 1]
  BY DEF GoneBack
<1>4. ASSUME NEW n \in 1..Len(t) PROVE CallFits(os, t, n)
  <2>1. n + 1 \in 1..Len(s) /\ Len(s) - (n + 1) = Len(t) - n /\ n + 1 > 1 /\ n \in Nat /\ (n + 1) - 1 = n
    BY <1>1
  <2>2. /\ Fits(os, s[n + 1].trail, s[n + 1].at)
        /\ Len(s[n + 1].trail) <= Len(t) - n
        /\ Seen(os, s[n + 1], s[n].trail)
    BY <1>2, <2>1 DEF CallFits
  <2>3. n > 1 => Seen(os, t[n], t[n - 1].trail)
    <3> HAVE n > 1
    <3>1. n - 1 \in 1..Len(t) /\ (n - 1) + 1 = n
      BY <1>1, <2>1
    <3>2. t[n - 1] = s[n]
      BY <1>3, <3>1
    <3> QED BY <1>3, <2>2, <3>2
  <2> QED BY <1>3, <2>2, <2>3 DEF CallFits
<1>5. CallsFit(os, t)
  BY <1>1, <1>4 DEF CallsFit, CallFits
<1>6. ASSUME t # <<>> PROVE Seen(os, t[1], s[1].trail)
  <2>1. Len(t) >= 1
    BY <1>1, <1>6, EmptySeq DEF GoneBack, Calls
  <2>2. 2 \in 1..Len(s) /\ t[1] = s[2]
    BY <1>1, <1>3, <2>1
  <2> QED BY <1>2, <2>2 DEF CallFits
<1>7. ASSUME t = <<>> PROVE Len(s[1].trail) <= 0
  <2>1. Len(t) = 0
    BY <1>7, EmptySeq
  <2>2. Len(s) - 1 = 0
    BY <1>1, <2>1
  <2> QED BY <1>1, <1>2, <2>2 DEF CallFits
<1> QED BY <1>5, <1>6, <1>7

-----------------------------------------------------------------------------
(* A field that goes on from the values being read agrees with the place   *)
(* reading has got to.                                                     *)
LEMMA SameWay ==
  ASSUME NEW s, Calls(s), CallsNested(s), NEW h, IsHere(h, s),
         NEW p \in Places, \A n \in 1..Len(s) : GoesOn(p, s[n]),
         NEW k \in 1..Len(s), Len(p) >= k - 1, \A j \in 1..k - 1 : p[j] = h[j]
  PROVE  Len(p) >= k /\ p[k].in = h[k].in
<1>1. Len(s) \in Nat \ {0} /\ Len(p) \in Nat
  BY CallsShape, LenProperties DEF IsHere, Places
<1>2. PICK n : n = Len(s) - (k - 1)
  OBVIOUS
<1>3. n \in 1..Len(s) /\ Len(s) - n = k - 1
  BY <1>1, <1>2
<1>4. Len(s[n].at) = k - 1
  BY <1>3, CallsShape
<1>5. Begins(h, s[n].at) /\ h[Len(s[n].at) + 1].in = s[n].kind
  BY <1>3, HereShape
<1>6. Begins(p, s[n].at)
  BY <1>1, <1>4, <1>5 DEF Begins
<1>7. Len(p) > k - 1 /\ p[(k - 1) + 1].in = s[n].kind /\ h[(k - 1) + 1].in = s[n].kind
  BY <1>3, <1>4, <1>5, <1>6 DEF GoesOn
<1>8. (k - 1) + 1 = k
  OBVIOUS
<1> QED BY <1>1, <1>7, <1>8

LEMMA HereAgrees ==
  ASSUME NEW s, Calls(s), CallsNested(s), NEW h, IsHere(h, s),
         NEW p \in Places, \A n \in 1..Len(s) : GoesOn(p, s[n]), ~Ahead(s, p)
  PROVE  Agree(h, p) /\ Agree(p, h) /\ Agree(h, h)
<1>1. /\ Len(s) \in Nat \ {0} /\ Len(p) \in Nat /\ Len(h) = Len(s)
  BY CallsShape, HereShape, LenProperties DEF IsHere, Places
<1>2. Agree(p, h)
  <2>1. ASSUME NEW k \in 1..Len(h), Len(p) >= k - 1, \A j \in 1..k - 1 : p[j] = h[j]
        PROVE  Len(p) >= k /\ p[k].in = h[k].in
    BY <1>1, <2>1, SameWay
  <2> QED BY <2>1 DEF Agree
<1>3. Agree(h, p)
  <2>1. ASSUME NEW k \in 1..Len(p), Len(h) >= k - 1, \A j \in 1..k - 1 : h[j] = p[j]
        PROVE  Len(h) >= k /\ h[k].in = p[k].in
    <3>1. Len(p) >= k - 1 /\ \A j \in 1..k - 1 : p[j] = h[j]
      BY <1>1, <2>1
    <3>2. CASE k <= Len(h)
      <4>1. k \in 1..Len(s)
        BY <1>1, <3>2
      <4> QED BY <3>1, <3>2, <4>1, SameWay
    <3>3. CASE k > Len(h)
      <4>1. k - 1 = Len(h)
        BY <1>1, <2>1, <3>3
      <4>2. Begins(p, h)
        BY <3>1, <4>1 DEF Begins
      <4> QED BY <1>1, <4>2, HereAhead
    <3> QED BY <1>1, <3>2, <3>3
  <2> QED BY <2>1 DEF Agree
<1>4. Agree(h, h)
  BY <1>1 DEF Agree
<1> QED BY <1>2, <1>3, <1>4

(* And so it goes on.                                                      *)
LEMMA GoesOnSame ==
  ASSUME NEW p, NEW f, NEW g, g.at = f.at, g.kind = f.kind, GoesOn(p, f)
  PROVE  GoesOn(p, g)
BY DEF GoesOn

LEMMA GoOnGoneOn ==
  ASSUME NEW s, Calls(s), CallsNested(s), NEW h, IsHere(h, s),
         NEW f, Advances(f, s[1]), NEW t, GoneOn(s, h, f, t)
  PROVE  /\ \A n \in 1..Len(t) : GoesOn(h, t[n])
         /\ \A p : (\A n \in 1..Len(s) : GoesOn(p, s[n])) => \A n \in 1..Len(t) : GoesOn(p, t[n])
<1>1. Len(t) = Len(s) /\ Len(s) \in Nat \ {0}
  BY CallsShape DEF GoneOn, IsHere
<1>2. ASSUME NEW n \in 1..Len(s) PROVE t[n].at = s[n].at /\ t[n].kind = s[n].kind
  <2>1. CASE n = 1
    BY <2>1 DEF GoneOn, Advances
  <2>2. CASE n # 1
    BY <1>1, <2>2 DEF GoneOn
  <2> QED BY <2>1, <2>2
<1>3. ASSUME NEW n \in 1..Len(s) PROVE GoesOn(h, t[n])
  <2>1. Len(s[n].at) = Len(s) - n /\ Len(h) = Len(s) /\ h[Len(s[n].at) + 1].in = s[n].kind
    BY CallsShape, HereShape
  <2>2. Len(s) > Len(s) - n
    BY <1>1
  <2>3. GoesOn(h, s[n])
    BY <2>1, <2>2 DEF GoesOn
  <2> QED BY <1>2, <2>3, GoesOnSame
<1> QED BY <1>1, <1>2, <1>3, GoesOnSame

LEMMA GoOnGoneInto ==
  ASSUME NEW s, Calls(s), CallsNested(s), NEW h, IsHere(h, s),
         NEW f, Advances(f, s[1]), NEW g, g.at = h, NEW u, GoneInto(s, h, f, g, u),
         NEW p, Len(p) \in Nat, ~Ahead(s, p), \A n \in 1..Len(s) : GoesOn(p, s[n])
  PROVE  \A n \in 1..Len(u) : GoesOn(p, u[n])
<1>1. Len(u) = Len(s) + 1 /\ Len(s) \in Nat \ {0} /\ 1 \in 1..Len(s)
  BY CallsShape DEF GoneInto, IsHere
<1>2. ASSUME NEW n \in 1..Len(u) PROVE GoesOn(p, u[n])
  <2>1. CASE n = 1
    <3>1. u[n].at = h
      BY <2>1 DEF GoneInto
    <3>2. ~Begins(p, h)
      BY HereAhead
    <3> QED BY <3>1, <3>2 DEF GoesOn
  <2>2. CASE n = 2
    <3>1. u[n].at = s[1].at /\ u[n].kind = s[1].kind
      BY <2>2 DEF GoneInto, Advances
    <3> QED BY <1>1, <3>1, GoesOnSame
  <2>3. CASE n # 1 /\ n # 2
    <3>1. n \in 3..Len(u) /\ n - 1 \in 1..Len(s)
      BY <1>1, <2>3
    <3> QED BY <3>1 DEF GoneInto
  <2> QED BY <2>1, <2>2, <2>3
<1> QED BY <1>2

-----------------------------------------------------------------------------
(* The counts.                                                             *)
LEMMA TreeFinite ==
  ASSUME NEW tr \in Trees, NEW node
  PROVE  /\ IsFiniteSet(FieldsOf(tr, node)) /\ IsFiniteSet(NodesOf(tr, node))
         /\ IsFiniteSet(UsedIn(tr, node))
<1>1. IsFiniteSet(tr)
  BY TreesAssumption
<1>2. IsFiniteSet(FieldsOf(tr, node))
  <2> DEFINE ends == {p \in tr : Len(p) = Len(node) + 1 /\ IsPrefixOf(node, p)}
  <2> DEFINE last == [p \in ends |-> p[Len(p)]]
  <2>1. IsFiniteSet(ends)
    BY <1>1, FS_Subset
  <2>2. last \in Surjection(ends, FieldsOf(tr, node))
    BY DEF Surjection, FieldsOf
  <2> QED BY <2>1, <2>2, FS_Surjection
<1>3. IsFiniteSet(NodesOf(tr, node))
  <2> DEFINE longer == {p \in tr : Len(p) > Len(node) + 1 /\ IsPrefixOf(node, p)}
  <2> DEFINE segment == [p \in longer |-> p[Len(node) + 1]]
  <2>1. IsFiniteSet(longer)
    BY <1>1, FS_Subset
  <2>2. segment \in Surjection(longer, NodesOf(tr, node))
    BY DEF Surjection, NodesOf
  <2> QED BY <2>1, <2>2, FS_Surjection
<1>4. IsFiniteSet(UsedIn(tr, node))
  BY <1>2, <1>3, FS_Union DEF UsedIn
<1> QED BY <1>2, <1>3, <1>4

LEMMA TreeCounts ==
  ASSUME NEW tr \in Trees, NEW node
  PROVE  NodesCount(tr, node) \in Nat /\ FieldsCount(tr, node) \in Nat
BY TreeFinite, FS_CardinalityType DEF NodesCount, FieldsCount

LEMMA MetFinite ==
  ASSUME NEW f, NEW kind, NEW segments, IsFiniteSet(segments)
  PROVE  /\ IsFiniteSet(Met(f, kind, segments)) /\ Cardinality(Met(f, kind, segments)) \in Nat
         /\ IsFiniteSet(segments \ Met(f, kind, segments))
         /\ Cardinality(segments \ Met(f, kind, segments)) \in Nat
<1>1. Met(f, kind, segments) \in SUBSET segments /\ segments \ Met(f, kind, segments) \in SUBSET segments
  BY DEF Met
<1>2. IsFiniteSet(Met(f, kind, segments)) /\ IsFiniteSet(segments \ Met(f, kind, segments))
  BY <1>1, FS_Subset
<1> QED BY <1>2, FS_CardinalityType

(* g is the call of an object f that has gone on by one member.            *)
Passes(g, f, name, part) ==
    /\ f \in Frames /\ IsCall(f) /\ f.kind = "object" /\ f.next <= Len(f.value.values)
    /\ g.value = f.value /\ g.next = f.next + 1 /\ g.node = f.node
    /\ name = f.value.names[f.next] /\ part = f.value.values[f.next].kind

(* The members met, and the next one.                                      *)
LEMMA MetNext ==
  ASSUME NEW f, NEW g, NEW name, NEW part, Passes(g, f, name, part), NEW kind, NEW segments
  PROVE  /\ name \notin Met(f, kind, segments)
         /\ part = kind /\ name \in segments =>
              Met(g, kind, segments) = Met(f, kind, segments) \cup {name}
         /\ part # kind \/ name \notin segments =>
              Met(g, kind, segments) = Met(f, kind, segments)
<1> /\ f \in Frames /\ IsCall(f) /\ f.kind = "object" /\ f.next <= Len(f.value.values)
    /\ g.value = f.value /\ g.next = f.next + 1
    /\ name = f.value.names[f.next] /\ part = f.value.values[f.next].kind
  BY DEF Passes
<1>1. PICK v, k : v = f.value /\ k = f.next
  OBVIOUS
<1>2. v \in Json /\ v.kind = "object" /\ k \in 1..Len(v.values) /\ Len(v.values) \in Nat
  BY <1>1, FrameShape
<1>3. \A i, j \in 1..Len(v.values) : v.names[i] = v.names[j] => i = j
  BY <1>2, ValueShape
<1>4. Met(f, kind, segments) =
        {s \in segments : \E i \in 1..k - 1 : s = v.names[i] /\ v.values[i].kind = kind}
  BY <1>1 DEF Met
<1>5. Met(g, kind, segments) =
        {s \in segments : \E i \in 1..k : s = v.names[i] /\ v.values[i].kind = kind}
  <2>1. g.next - 1 = k
    BY <1>1, <1>2
  <2> QED BY <1>1, <2>1 DEF Met
<1>6. name = v.names[k] /\ part = v.values[k].kind
  BY <1>1
<1>7. name \notin Met(f, kind, segments)
  BY <1>2, <1>3, <1>4, <1>6
<1>8. \A i : i \in 1..k <=> i \in 1..k - 1 \/ i = k
  BY <1>2
<1>9. ASSUME v.values[k].kind = kind, name \in segments
      PROVE  Met(g, kind, segments) = Met(f, kind, segments) \cup {name}
  BY <1>4, <1>5, <1>6, <1>8, <1>9
<1>10. ASSUME v.values[k].kind # kind \/ name \notin segments
       PROVE  Met(g, kind, segments) = Met(f, kind, segments)
  BY <1>4, <1>5, <1>6, <1>8, <1>10
<1> QED BY <1>6, <1>7, <1>9, <1>10

LEMMA CountSkip ==
  ASSUME NEW tr, NEW f, NEW g, NEW name, NEW part, Passes(g, f, name, part), Counted(tr, f),
         part = "object" => name \notin NodesOf(tr, f.node),
         part = "leaf" => name \notin UsedIn(tr, f.node),
         g.nodesCount = f.nodesCount, g.fieldsCount = f.fieldsCount
  PROVE  Counted(tr, g)
<1>1. Met(g, "object", NodesOf(tr, f.node)) = Met(f, "object", NodesOf(tr, f.node))
  BY MetNext
<1>2. Met(g, "leaf", UsedIn(tr, f.node)) = Met(f, "leaf", UsedIn(tr, f.node))
  BY MetNext
<1>3. g.node = f.node
  BY DEF Passes
<1> QED BY <1>1, <1>2, <1>3 DEF Counted

LEMMA CountLeaf ==
  ASSUME NEW tr \in Trees, NEW f, NEW g, NEW name, Passes(g, f, name, "leaf"), Counted(tr, f),
         name \in UsedIn(tr, f.node),
         g.nodesCount = f.nodesCount, g.fieldsCount = f.fieldsCount - 1
  PROVE  Counted(tr, g)
<1>1. Met(g, "object", NodesOf(tr, f.node)) = Met(f, "object", NodesOf(tr, f.node))
  BY MetNext
<1>2. PICK met, more : /\ met = Met(f, "leaf", UsedIn(tr, f.node))
                       /\ more = Met(g, "leaf", UsedIn(tr, f.node))
  OBVIOUS
<1>3. more = met \cup {name} /\ name \notin met
  <2>1. /\ name \notin Met(f, "leaf", UsedIn(tr, f.node))
        /\ Met(g, "leaf", UsedIn(tr, f.node)) = Met(f, "leaf", UsedIn(tr, f.node)) \cup {name}
    BY MetNext
  <2> QED BY <1>2, <2>1
<1>4. IsFiniteSet(met) /\ Cardinality(met) \in Nat
  BY <1>2, TreeFinite, MetFinite
<1>5. Cardinality(more) = Cardinality(met) + 1
  BY <1>3, <1>4, FS_AddElement
<1>6. g.node = f.node /\ FieldsCount(tr, f.node) \in Nat
  BY TreeCounts DEF Passes
<1>7. f.fieldsCount = FieldsCount(tr, f.node) - Cardinality(met)
  BY <1>2 DEF Counted
<1>8. g.fieldsCount = FieldsCount(tr, f.node) - Cardinality(more)
  BY <1>4, <1>5, <1>6, <1>7
<1> QED BY <1>1, <1>2, <1>6, <1>8 DEF Counted

LEMMA CountObject ==
  ASSUME NEW tr \in Trees, NEW f, NEW g, NEW name, Passes(g, f, name, "object"), Counted(tr, f),
         name \in NodesOf(tr, f.node),
         g.nodesCount = f.nodesCount - 1, g.fieldsCount = f.fieldsCount
  PROVE  Counted(tr, g)
<1>1. Met(g, "leaf", UsedIn(tr, f.node)) = Met(f, "leaf", UsedIn(tr, f.node))
  BY MetNext
<1>2. PICK nodes, met, more : /\ nodes = NodesOf(tr, f.node)
                              /\ met = Met(f, "object", nodes) /\ more = Met(g, "object", nodes)
  OBVIOUS
<1>3. more = met \cup {name} /\ name \notin met /\ name \in nodes
  <2>1. /\ name \notin Met(f, "object", nodes)
        /\ Met(g, "object", nodes) = Met(f, "object", nodes) \cup {name}
    BY <1>2, MetNext
  <2> QED BY <1>2, <2>1
<1>4. IsFiniteSet(nodes \ met) /\ Cardinality(nodes \ met) \in Nat
  BY <1>2, TreeFinite, MetFinite
<1>5. nodes \ more = (nodes \ met) \ {name} /\ name \in nodes \ met
  BY <1>3
<1>6. Cardinality(nodes \ more) = Cardinality(nodes \ met) - 1
  BY <1>4, <1>5, FS_RemoveElement
<1>7. g.node = f.node /\ f.nodesCount = Cardinality(nodes \ met)
  BY <1>2 DEF Passes, Counted
<1>8. g.nodesCount = Cardinality(nodes \ more)
  BY <1>6, <1>7
<1> QED BY <1>1, <1>2, <1>7, <1>8 DEF Counted

LEMMA CountFresh ==
  ASSUME NEW tr \in Trees, NEW g, g.next = 1,
         g.nodesCount = NodesCount(tr, g.node), g.fieldsCount = FieldsCount(tr, g.node)
  PROVE  CallCounts(tr, g)
<1>1. \A kind, segments : Met(g, kind, segments) = {}
  BY DEF Met
<1>2. Cardinality({}) = 0 /\ \A S : S \ {} = S
  BY FS_EmptySet
<1>3. NodesCount(tr, g.node) \in Nat /\ FieldsCount(tr, g.node) \in Nat
  BY TreeCounts
<1>4. Counted(tr, g)
  <2>1. g.nodesCount = Cardinality(NodesOf(tr, g.node) \ {})
    BY <1>2 DEF NodesCount
  <2>2. g.fieldsCount = FieldsCount(tr, g.node) - 0
    BY <1>3
  <2> QED BY <1>1, <1>2, <2>1, <2>2 DEF Counted
<1> QED BY <1>3, <1>4 DEF CallCounts

LEMMA CountsInt ==
  ASSUME NEW tr \in Trees, NEW f, CallCounts(tr, f), f.kind \in {"array", "object"}
  PROVE  f.nodesCount \in Nat
<1>1. CASE f.kind = "array"
  BY <1>1 DEF CallCounts
<1>2. CASE f.kind = "object"
  BY <1>2, TreeFinite, MetFinite DEF CallCounts, Counted
<1> QED BY <1>1, <1>2

(* Once both are used up no member that is left is named in the tree.      *)
LEMMA CountsUsedUp ==
  ASSUME NEW tr \in Trees, NEW f \in Frames, IsCall(f), f.kind = "object", Counted(tr, f),
         f.nodesCount = 0, f.fieldsCount = 0,
         NEW n \in f.next..Len(f.value.values)
  PROVE  f.value.names[n] \notin UsedIn(tr, f.node)
<1>1. PICK v, k : v = f.value /\ k = f.next
  OBVIOUS
<1>2. v \in Json /\ v.kind = "object" /\ k \in 1..Len(v.values) + 1 /\ Len(v.values) \in Nat
  BY <1>1, FrameShape
<1>3. \A i, j \in 1..Len(v.values) : v.names[i] = v.names[j] => i = j
  BY <1>2, ValueShape
<1>4. \A kind, segments : Met(f, kind, segments) =
        {s \in segments : \E i \in 1..k - 1 : s = v.names[i] /\ v.values[i].kind = kind}
  BY <1>1 DEF Met
<1>5. n \in 1..Len(v.values) /\ \A i \in 1..k - 1 : i \in 1..Len(v.values) /\ i # n
  BY <1>1, <1>2
<1>6. \A kind, segments : v.names[n] \notin Met(f, kind, segments)
  BY <1>3, <1>4, <1>5
<1>7. PICK nodes, flds, met : nodes = NodesOf(tr, f.node) /\ flds = FieldsOf(tr, f.node)
                             /\ met = Met(f, "leaf", UsedIn(tr, f.node))
  OBVIOUS
<1>8. IsFiniteSet(nodes) /\ IsFiniteSet(flds) /\ IsFiniteSet(UsedIn(tr, f.node))
  BY <1>7, TreeFinite
<1>9. nodes \ Met(f, "object", nodes) = {}
  <2>1. IsFiniteSet(nodes \ Met(f, "object", nodes))
    BY <1>8, MetFinite
  <2>2. Cardinality(nodes \ Met(f, "object", nodes)) = 0
    BY <1>7 DEF Counted
  <2> QED BY <2>1, <2>2, FS_EmptySet
<1>10. v.names[n] \notin nodes
  BY <1>6, <1>9
<1>11. met \subseteq flds
  <2> SUFFICES ASSUME NEW s \in met PROVE s \in flds
    OBVIOUS
  <2>1. PICK i \in 1..k - 1 : s = v.names[i] /\ v.values[i].kind = "leaf"
    BY <1>4, <1>7
  <2>2. s \in flds \cup nodes
    BY <1>4, <1>7 DEF UsedIn
  <2>3. ASSUME s \in nodes PROVE FALSE
    <3>1. s \in Met(f, "object", nodes)
      BY <1>9, <2>3
    <3>2. PICK j \in 1..k - 1 : s = v.names[j] /\ v.values[j].kind = "object"
      BY <1>4, <3>1
    <3>3. i = j
      BY <1>3, <1>5, <2>1, <3>2
    <3> QED BY <2>1, <3>2, <3>3
  <2> QED BY <2>2, <2>3
<1>12. met = flds
  <2>1. IsFiniteSet(met) /\ Cardinality(met) \in Nat
    BY <1>7, <1>8, MetFinite
  <2>2. FieldsCount(tr, f.node) \in Nat
    BY TreeCounts
  <2>3. 0 = FieldsCount(tr, f.node) - Cardinality(met)
    BY <1>7 DEF Counted
  <2>4. Cardinality(flds) = Cardinality(met)
    BY <1>7, <2>1, <2>2, <2>3 DEF FieldsCount
  <2> QED BY <1>8, <1>11, <2>4, FS_Subset
<1>13. v.names[n] \notin flds
  BY <1>6, <1>7, <1>12
<1> QED BY <1>1, <1>7, <1>10, <1>13 DEF UsedIn

-----------------------------------------------------------------------------
(* A path of the tree ends at a field, and nodes are on the way to it.     *)
LEMMA PathInTree ==
  ASSUME NEW tr \in Trees, NEW node \in Seq(Names), NEW segment
  PROVE  /\ PathForSegment(tr, node, segment) \in tr \cup {NoPath}
         /\ PathForSegment(tr, node, segment) \in Seq(Names)
         /\ segment \in NodesOf(tr, node) => Get(node, segment) \in Seq(Names)
<1>1. tr \subseteq Seq(Names)
  BY TreesAssumption
<1>2. NoPath \in Seq(Names)
  BY EmptySeq DEF NoPath
<1>3. ASSUME segment \in FieldsOf(tr, node) PROVE Append(node, segment) \in tr
  <2>1. PICK p \in tr : /\ Len(p) = Len(node) + 1 /\ SubSeq(p, 1, Len(node)) = node
                        /\ segment = p[Len(p)]
    BY <1>3 DEF FieldsOf, IsPrefixOf
  <2>2. p \in Seq(Names) /\ Len(node) \in Nat
    BY <1>1, LenProperties
  <2>3. segment \in Names /\ \A i \in 1..Len(p) : p[i] \in Names
    BY <2>1, <2>2, ElementOfSeq
  <2>4. \A i \in 1..Len(node) : SubSeq(p, 1, Len(node))[i] = p[i]
    <3>1. \A i \in 1..Len(node) : p[i] \in Names
      BY <2>1, <2>2, <2>3
    <3>2. \A i \in 1..(Len(node) - 1) + 1 : SubSeq(p, 1, Len(node))[i] = p[1 + i - 1]
      BY <2>2, <3>1, SubSeqProperties
    <3> QED BY <2>2, <3>2
  <2>5. PICK q : q = Append(node, segment)
    OBVIOUS
  <2>6. /\ q \in Seq(Names) /\ Len(q) = Len(node) + 1
        /\ q[Len(q)] = segment /\ \A i \in 1..Len(node) : q[i] = node[i]
    BY <2>3, <2>5, AppendSeq
  <2>7. ASSUME NEW i \in 1..Len(q) PROVE q[i] = p[i]
    <3>1. CASE i = Len(q)
      BY <2>1, <2>6, <3>1
    <3>2. CASE i # Len(q)
      <4>1. i \in 1..Len(node)
        BY <2>2, <2>6, <3>2
      <4> QED BY <2>1, <2>4, <2>6, <4>1
    <3> QED BY <3>1, <3>2
  <2>8. q = p
    BY <2>1, <2>2, <2>6, <2>7, SeqEqual
  <2> QED BY <2>5, <2>8
<1>4. ASSUME segment \in NodesOf(tr, node) PROVE Get(node, segment) \in Seq(Names)
  <2>1. PICK p \in tr : Len(p) > Len(node) + 1 /\ segment = p[Len(node) + 1]
    BY <1>4 DEF NodesOf
  <2>2. p \in Seq(Names) /\ Len(node) \in Nat /\ Len(p) \in Nat
    BY <1>1, LenProperties
  <2>3. Len(node) + 1 \in 1..Len(p)
    BY <2>1, <2>2
  <2>4. segment \in Names
    BY <2>1, <2>2, <2>3, ElementOfSeq
  <2> QED BY <2>4, AppendProperties DEF Get
<1> QED BY <1>1, <1>2, <1>3, <1>4 DEF PathForSegment

LEMMA ReplaceSeq ==
  ASSUME NEW S, NEW s \in Seq(S), NEW n \in 1..Len(s), NEW x \in S, NEW t, t = [s EXCEPT ![n] = x]
  PROVE  /\ t \in Seq(S) /\ Len(t) = Len(s)
         /\ \A j \in 1..Len(s) : t[j] = IF j = n THEN x ELSE s[j]
<1>1. /\ [s EXCEPT ![n] = x] \in Seq(S) /\ Len([s EXCEPT ![n] = x]) = Len(s)
  BY ExceptSeq
<1>2. DOMAIN s = 1..Len(s)
  BY LenProperties
<1>3. \A j \in 1..Len(s) : t[j] = IF j = n THEN x ELSE s[j]
  BY <1>2
<1> QED BY <1>1, <1>3

(* The last element of a sequence, and the last pair of a trail.           *)
Replaced(t, s, n, x) == t = [s EXCEPT ![n] = x]

LEMMA LastReplaced ==
  ASSUME NEW S, NEW front \in Seq(S), NEW y \in S,
         NEW s \in Seq(S), Len(s) = Len(front) + 1, \A n \in 1..Len(front) : s[n] = front[n],
         NEW t, Replaced(t, s, Len(s), y)
  PROVE  t = Append(front, y)
<1>1. Len(front) \in Nat /\ Len(s) \in 1..Len(s)
  BY LenProperties
<1>2. /\ t \in Seq(S) /\ Len(t) = Len(s)
      /\ \A j \in 1..Len(s) : t[j] = IF j = Len(s) THEN y ELSE s[j]
  BY <1>1, ReplaceSeq DEF Replaced
<1>3. PICK other : other = Append(front, y)
  OBVIOUS
<1>4. /\ other \in Seq(S) /\ Len(other) = Len(front) + 1
      /\ other[Len(other)] = y /\ \A n \in 1..Len(front) : other[n] = front[n]
  BY <1>3, AppendSeq
<1>5. \A j \in 1..Len(t) : t[j] = other[j]
  <2> TAKE j \in 1..Len(t)
  <2>1. CASE j = Len(s)
    BY <1>2, <1>4, <2>1
  <2>2. CASE j # Len(s)
    <3>1. j \in 1..Len(front) /\ j \in 1..Len(s)
      BY <1>1, <1>2, <2>2
    <3> QED BY <1>2, <1>4, <2>2, <3>1
  <2> QED BY <2>1, <2>2
<1>6. t = other
  BY <1>2, <1>4, <1>5, SeqEqual
<1> QED BY <1>3, <1>6

LEMMA LastDropped ==
  ASSUME NEW S, NEW front \in Seq(S),
         NEW s \in Seq(S), Len(s) = Len(front) + 1, \A n \in 1..Len(front) : s[n] = front[n]
  PROVE  SubSeq(s, 1, Len(s) - 1) = front
<1>1. Len(front) \in Nat /\ Len(s) - 1 = Len(front) /\ Len(s) \in Nat
  BY LenProperties
<1>2. \A i \in 1..Len(front) : s[i] \in S
  BY <1>1, ElementOfSeq
<1>3. PICK sub : sub = SubSeq(s, 1, Len(front))
  OBVIOUS
<1>4. /\ sub \in Seq(S) /\ Len(sub) = (IF 1 <= Len(front) THEN Len(front) - 1 + 1 ELSE 0)
      /\ \A i \in 1..Len(front) - 1 + 1 : sub[i] = s[1 + i - 1]
  BY <1>1, <1>2, <1>3, SubSeqProperties
<1>5. Len(sub) = Len(front) /\ \A i \in 1..Len(front) : sub[i] = front[i]
  BY <1>1, <1>4
<1>6. sub = front
  BY <1>4, <1>5, SeqEqual
<1> QED BY <1>1, <1>3, <1>6

Ends(trl, front, pair) == trl = Append(front, pair)

LEMMA PairMore ==
  ASSUME NEW front \in Trails, NEW a \in Nat, NEW k \in Nat, NEW trl, Ends(trl, front, <<a, k>>)
  PROVE  trl \in Trails /\ Len(trl) = Len(front) + 1
<1>1. PICK x : x = <<a, k>>
  OBVIOUS
<1>2. x \in Nat \X Nat /\ trl = Append(front, x)
  BY <1>1 DEF Ends
<1> QED BY <1>2, AppendProperties DEF Trails

LEMMA LastPair ==
  ASSUME NEW front \in Trails, NEW a \in Nat, NEW k \in Nat, NEW trl, Ends(trl, front, <<a, k>>)
  PROVE  /\ trl \in Trails /\ Len(front) \in Nat /\ Len(trl) = Len(front) + 1
         /\ Ends([trl EXCEPT ![Len(trl)][2] = @ + 1], front, <<a, k + 1>>)
         /\ SubSeq(trl, 1, Len(trl) - 1) = front
<1>1. PICK S, x, y : S = Nat \X Nat /\ x = <<a, k>> /\ y = <<a, k + 1>>
  OBVIOUS
<1>2. front \in Seq(S) /\ x \in S /\ y \in S /\ [x EXCEPT ![2] = @ + 1] = y
  BY <1>1 DEF Trails
<1>3. /\ trl \in Seq(S) /\ Len(front) \in Nat /\ Len(trl) = Len(front) + 1
      /\ trl[Len(trl)] = x /\ \A n \in 1..Len(front) : trl[n] = front[n]
  BY <1>1, <1>2, AppendSeq DEF Ends
<1>4. PICK t : t = [trl EXCEPT ![Len(trl)] = y]
  OBVIOUS
<1>5. [trl EXCEPT ![Len(trl)][2] = @ + 1] = t
  <2>1. [trl EXCEPT ![Len(trl)][2] = @ + 1] = [trl EXCEPT ![Len(trl)] = [trl[Len(trl)] EXCEPT ![2] = @ + 1]]
    OBVIOUS
  <2>2. [trl[Len(trl)] EXCEPT ![2] = @ + 1] = y
    BY <1>2, <1>3
  <2> QED BY <1>4, <2>1, <2>2
<1>6. t = Append(front, y)
  <2>1. Replaced(t, trl, Len(trl), y)
    BY <1>4 DEF Replaced
  <2> QED BY <1>2, <1>3, <2>1, LastReplaced
<1>7. SubSeq(trl, 1, Len(trl) - 1) = front
  BY <1>2, <1>3, LastDropped
<1>8. trl \in Trails
  BY <1>1, <1>3 DEF Trails
<1>9. Ends([trl EXCEPT ![Len(trl)][2] = @ + 1], front, <<a, k + 1>>)
  BY <1>1, <1>5, <1>6 DEF Ends
<1> QED BY <1>3, <1>7, <1>8, <1>9

-----------------------------------------------------------------------------
(* An array more, or none, is numbered, and a field more, or none, stored, *)
(* both where reading has got to.                                          *)
OpensAt(os, more, h) == more = os \/ more = Append(os, h)

Once(calls, os) ==
    /\ \A n \in DOMAIN os : ~Ahead(calls, os[n])
    /\ \A m, n \in DOMAIN os : os[m] = os[n] => m = n

StoresAt(tr, os, flds, more, h) ==
    \/ more = flds
    \/ \E x \in FieldsOver(tr) :
         x.at = h /\ Fits(os, x.trail, x.at) /\ more = Append(flds, x)

LEMMA OpensOnce ==
  ASSUME NEW s, NEW t, NEW h \in Places, Ahead(s, h), ~Ahead(t, h),
         \A p : Len(p) \in Nat /\ Ahead(t, p) => Ahead(s, p),
         NEW os \in Seq(Places), Once(s, os), NEW more, OpensAt(os, more, h)
  PROVE  more \in Seq(Places) /\ Grows(os, more) /\ Once(t, more)
<1> /\ \A n \in DOMAIN os : ~Ahead(s, os[n])
    /\ \A m, n \in DOMAIN os : os[m] = os[n] => m = n
  BY DEF Once
<1>1. DOMAIN os = 1..Len(os) /\ Len(os) \in Nat /\ \A n \in DOMAIN os : os[n] \in Places
  BY LenProperties, ElementOfSeq
<1>2. \A p \in Places : Len(p) \in Nat
  BY LenProperties DEF Places
<1>3. \A n \in DOMAIN os : ~Ahead(t, os[n])
  BY <1>1, <1>2
<1>4. CASE more = os
  BY <1>3, <1>4 DEF Grows, Once
<1>5. CASE more = Append(os, h)
  <2>1. /\ more \in Seq(Places) /\ Len(more) = Len(os) + 1
        /\ more[Len(more)] = h /\ \A n \in 1..Len(os) : more[n] = os[n]
        /\ DOMAIN more = 1..Len(more)
    BY <1>5, AppendSeq
  <2>2. \A n \in DOMAIN more : n = Len(more) \/ n \in DOMAIN os
    BY <1>1, <2>1
  <2>3. Grows(os, more)
    BY <1>1, <2>1 DEF Grows
  <2>4. \A n \in DOMAIN more : ~Ahead(t, more[n])
    BY <1>1, <1>3, <2>1, <2>2
  <2>5. \A n \in DOMAIN os : os[n] # h
    OBVIOUS
  <2>6. \A m, n \in DOMAIN more : more[m] = more[n] => m = n
    BY <1>1, <2>1, <2>2, <2>5
  <2> QED BY <2>1, <2>3, <2>4, <2>6 DEF Once
<1> QED BY <1>4, <1>5 DEF OpensAt

LEMMA StoresInOrder ==
  ASSUME NEW tr, NEW s, Calls(s), CallsNested(s), NEW h, IsHere(h, s),
         NEW t, Calls(t), ~Ahead(t, h), \A p : Len(p) \in Nat /\ Ahead(t, p) => Ahead(s, p),
         \A p : Len(p) \in Nat /\ ~Ahead(s, p) /\ (\A n \in 1..Len(s) : GoesOn(p, s[n]))
                  => \A n \in 1..Len(t) : GoesOn(p, t[n]),
         NEW flds \in Seq(FieldsOver(tr)), \A n \in DOMAIN flds : ~Ahead(s, flds[n].at),
         AllAgree(flds, s),
         NEW os, \A n \in DOMAIN flds : Fits(os, flds[n].trail, flds[n].at),
         NEW more, StoresAt(tr, os, flds, more, h),
         more # flds => \A n \in 1..Len(t) : GoesOn(h, t[n])
  PROVE  /\ more \in Seq(FieldsOver(tr)) /\ AllAgree(more, t)
         /\ \A n \in DOMAIN more : ~Ahead(t, more[n].at)
         /\ \A n \in DOMAIN more : Fits(os, more[n].trail, more[n].at)
<1>1. DOMAIN s = 1..Len(s) /\ DOMAIN t = 1..Len(t) /\ DOMAIN flds = 1..Len(flds)
  BY LenProperties DEF Calls
<1>2. ASSUME NEW n \in DOMAIN flds PROVE flds[n].at \in Places /\ Len(flds[n].at) \in Nat
  <2>1. flds[n] \in FieldsOver(tr)
    BY <1>1, ElementOfSeq
  <2>2. flds[n].at \in Places
    BY <2>1 DEF FieldsOver
  <2> QED BY <2>2, LenProperties DEF Places
<1>3. \A m, n \in DOMAIN flds : Agree(flds[m].at, flds[n].at)
  BY DEF AllAgree
<1>4. \A m \in DOMAIN flds : Named(flds[m].at) /\ \A n \in 1..Len(s) : GoesOn(flds[m].at, s[n])
  BY <1>1 DEF AllAgree
<1>5. \A m \in DOMAIN flds : ~Ahead(t, flds[m].at) /\ \A n \in 1..Len(t) : GoesOn(flds[m].at, t[n])
  BY <1>2, <1>4
<1>6. CASE more = flds
  BY <1>1, <1>3, <1>4, <1>5, <1>6 DEF AllAgree
<1>7. ASSUME NEW x \in FieldsOver(tr), x.at = h, Fits(os, x.trail, x.at), more = Append(flds, x),
             more # flds
      PROVE  /\ more \in Seq(FieldsOver(tr)) /\ AllAgree(more, t)
             /\ \A n \in DOMAIN more : ~Ahead(t, more[n].at)
             /\ \A n \in DOMAIN more : Fits(os, more[n].trail, more[n].at)
  <2>1. /\ more \in Seq(FieldsOver(tr)) /\ Len(more) = Len(flds) + 1 /\ Len(flds) \in Nat
        /\ more[Len(more)] = x /\ \A n \in 1..Len(flds) : more[n] = flds[n]
        /\ DOMAIN more = 1..Len(more)
    BY <1>7, AppendSeq
  <2>2. \A n \in DOMAIN more : n = Len(more) \/ n \in DOMAIN flds
    BY <1>1, <2>1
  <2>3. \A n \in DOMAIN more : more[n] = x \/ \E m \in DOMAIN flds : more[n] = flds[m]
    BY <1>1, <2>1, <2>2
  <2>4. ASSUME NEW m \in DOMAIN flds
        PROVE  Agree(h, flds[m].at) /\ Agree(flds[m].at, h) /\ Agree(h, h)
    <3>1. PICK p : p = flds[m].at
      OBVIOUS
    <3>2. p \in Places /\ ~Ahead(s, p) /\ \A n \in 1..Len(s) : GoesOn(p, s[n])
      BY <1>2, <1>4, <3>1
    <3>3. Agree(h, p) /\ Agree(p, h) /\ Agree(h, h)
      BY <3>2, HereAgrees
    <3> QED BY <3>1, <3>3
  <2>5. Agree(h, h) /\ Named(h) /\ \A n \in 1..Len(t) : GoesOn(h, t[n])
    <3>1. Len(h) = Len(s) /\ Len(s) \in Nat /\ Named(h)
      BY HereShape, CallsShape
    <3>2. Agree(h, h)
      BY <3>1 DEF Agree
    <3> QED BY <1>7, <3>1, <3>2
  <2>6. \A m, n \in DOMAIN more : Agree(more[m].at, more[n].at)
    BY <1>3, <1>7, <2>3, <2>4, <2>5
  <2>7. \A m \in DOMAIN more : /\ Named(more[m].at) /\ ~Ahead(t, more[m].at)
                               /\ \A n \in 1..Len(t) : GoesOn(more[m].at, t[n])
    BY <1>4, <1>5, <1>7, <2>3, <2>5
  <2>8. \A n \in DOMAIN more : Fits(os, more[n].trail, more[n].at)
    BY <1>7, <2>3
  <2> QED BY <1>1, <2>1, <2>6, <2>7, <2>8 DEF AllAgree
<1> QED BY <1>6, <1>7 DEF StoresAt

-----------------------------------------------------------------------------
(* The state in which the innermost call goes on.                          *)
CallGood(tr, f) == CallCounts(tr, f) /\ f.path \in tr \cup {NoPath}

LEMMA Reads ==
  ASSUME IInv, stack # <<>>
  PROVE  /\ Calls(stack) /\ CallsNested(stack) /\ Len(stack) \in Nat \ {0}
         /\ DOMAIN stack = 1..Len(stack) /\ 1 \in 1..Len(stack)
         /\ Top = stack[1] /\ Top \in Frames /\ IsCall(Top)
         /\ tree \in Trees /\ \A n \in 1..Len(stack) : CallGood(tree, stack[n])
         /\ Seen(opened, Top, trail) /\ CallsFit(opened, stack)
<1>1. stack \in Seq(Frames) /\ tree \in Trees
  BY DEF IInv, Types
<1>2. DOMAIN stack = 1..Len(stack)
  BY <1>1, LenProperties
<1>3. \A n \in 1..Len(stack) : IsCall(stack[n]) /\ stack[n].path \in tree \cup {NoPath}
  BY <1>2 DEF IInv, Types
<1>4. Calls(stack) /\ CallsNested(stack)
  BY <1>1, <1>3 DEF Calls, IInv, FramesNested
<1>5. Len(stack) \in Nat \ {0} /\ 1 \in 1..Len(stack)
  BY <1>4, CallsShape
<1>6. Top = stack[1]
  BY <1>1, <1>5 DEF Top
<1>7. stack[1] \in Frames /\ IsCall(stack[1])
  BY <1>4, <1>5, CallsShape
<1>8. \A n \in 1..Len(stack) : CallCounts(tree, stack[n])
  BY <1>2 DEF IInv, Counts
<1>9. Seen(opened, stack[1], trail) /\ CallsFit(opened, stack)
  BY DEF IInv, TrailsFit
<1> QED BY <1>1, <1>2, <1>3, <1>4, <1>5, <1>6, <1>7, <1>8, <1>9 DEF CallGood

LEMMA ReadsOn ==
  ASSUME IInv, stack # <<>>, ~AtEnd, NEW h, h = Here
  PROVE  /\ IsHere(h, stack) /\ Extends(h, Top.at, Step(Top, Top.next))
         /\ h \in Places /\ Len(h) = Len(stack) /\ Ahead(stack, h)
         /\ Step(Top, Top.next).in = Top.kind
         /\ Top.kind = "array" => Step(Top, Top.next).key = Top.next
         /\ Top.next \in 1..Len(Top.value.values) /\ Top.next <= Len(Top.value.values)
         /\ Value \in Json
         /\ Top.kind = "object" => Name \in Names
<1>1. PICK f : f = Top
  OBVIOUS
<1>2. /\ Calls(stack) /\ CallsNested(stack) /\ Len(stack) \in Nat \ {0} /\ 1 \in 1..Len(stack)
      /\ f = stack[1] /\ f \in Frames /\ IsCall(f)
  BY <1>1, Reads
<1>3. f.next \in 1..Len(f.value.values) /\ f.next <= Len(f.value.values)
  <2>1. ~(f.next > Len(f.value.values))
    BY <1>1 DEF AtEnd
  <2> QED BY <1>2, <2>1, FrameShape
<1>4. h = Append(f.at, Step(f, f.next))
  BY <1>1 DEF Here, Step
<1>5. IsHere(h, stack)
  BY <1>2, <1>3, <1>4 DEF IsHere
<1>6. h \in Places /\ Len(h) = Len(stack)
  BY <1>2, <1>5, HereShape
<1>7. Ahead(stack, h)
  <2>1. Begins(h, h) /\ Len(h) \in Nat
    BY <1>2, <1>6, BeginsReflexive
  <2> QED BY <1>2, <1>5, <2>1, HereAhead
<1>8. PICK st, at : st = Step(f, f.next) /\ at = f.at
  OBVIOUS
<1>9. st \in Steps /\ st.in = f.kind /\ Follows(st, at) /\ (f.kind = "array" => st.key = f.next)
  BY <1>2, <1>3, <1>8, StepShape
<1>10. at \in Places /\ Named(at)
  BY <1>2, <1>8, FrameShape, CallsShape
<1>11. Extends(h, at, st)
  BY <1>4, <1>8, <1>9, <1>10, OneStep
<1>12. f.value \in Json /\ f.value.kind # "leaf" /\ f.value.kind = f.kind
  BY <1>2, FrameShape
<1>13. f.value.values[f.next] \in Json
  <2>1. f.value.values \in Seq(Json)
    BY <1>12, ValueShape
  <2> QED BY <1>3, <2>1, ElementOfSeq
<1>14. f.kind = "object" => f.value.names[f.next] \in Names
  <2> HAVE f.kind = "object"
  <2>1. f.value.names \in Seq(Names) /\ DOMAIN f.value.names = 1..Len(f.value.values)
    BY <1>12, ValueShape
  <2>2. f.next \in 1..Len(f.value.names)
    BY <1>3, <2>1, LenProperties
  <2> QED BY <2>1, <2>2, ElementOfSeq
<1> QED BY <1>1, <1>3, <1>5, <1>6, <1>7, <1>8, <1>9, <1>11, <1>13, <1>14 DEF Value, Name

(* What every move of the calls leaves to be shown.                        *)
LEMMA Together ==
  ASSUME IInv, tree' = tree, status' = status, arrays' = Len(opened'),
         Calls(stack'), CallsNested(stack'), \A n \in 1..Len(stack') : CallGood(tree, stack'[n]),
         opened' \in Seq(Places), \A n \in DOMAIN opened' : ~Ahead(stack', opened'[n]),
         \A m, n \in DOMAIN opened' : opened'[m] = opened'[n] => m = n,
         fields' \in Seq(FieldsOver(tree)), \A n \in DOMAIN fields' : ~Ahead(stack', fields'[n].at),
         AllAgree(fields', stack'),
         \A n \in DOMAIN fields' : Fits(opened', fields'[n].trail, fields'[n].at),
         trail' \in Trails, CallsFit(opened', stack'),
         stack' # <<>> => Seen(opened', stack'[1], trail'),
         stack' = <<>> => trail' = <<>>
  PROVE  IInv'
<1>1. stack' \in Seq(Frames) /\ DOMAIN stack' = 1..Len(stack')
  BY LenProperties DEF Calls
<1>2. Types'
  <2>1. status \in {"reading", "stopped", "ended"} /\ tree \in Trees
    BY DEF IInv, Types
  <2>2. \A n \in DOMAIN stack' : IsCall(stack'[n]) /\ stack'[n].path \in tree \cup {NoPath}
    BY <1>1 DEF Calls, CallGood
  <2> QED BY <1>1, <2>1, <2>2 DEF Types
<1>3. FramesNested' /\ NothingAhead' /\ OpenedOnce'
  BY DEF FramesNested, NothingAhead, OpenedOnce
<1>4. TrailsFit' /\ FieldsAgree'
  BY DEF TrailsFit, FieldsAgree
<1>5. Counts'
  BY <1>1 DEF Counts, CallGood
<1> QED BY <1>2, <1>3, <1>4, <1>5 DEF IInv

(* The call goes on to the next member or element.                         *)
LEMMA StepOn ==
  ASSUME IInv, stack # <<>>, ~AtEnd, NEW h, h = Here,
         NEW f, Advances(f, Top), f.trail = Top.trail, CallGood(tree, f), stack' = Proceed(f),
         tree' = tree, status' = status, arrays' = arrays, opened' = opened,
         trail' \in Trails, Seen(opened, f, trail'),
         StoresAt(tree, opened, fields, fields', h)
  PROVE  IInv'
<1>1. /\ Calls(stack) /\ CallsNested(stack) /\ Len(stack) \in Nat \ {0} /\ DOMAIN stack = 1..Len(stack)
      /\ 1 \in 1..Len(stack) /\ Top = stack[1]
      /\ \A n \in 1..Len(stack) : CallGood(tree, stack[n])
      /\ CallsFit(opened, stack)
  BY Reads
<1>2. IsHere(h, stack) /\ h \in Places
  BY ReadsOn
<1>3. Advances(f, stack[1]) /\ f.trail = stack[1].trail /\ stack' = <<f>> \o Tail(stack)
  BY <1>1 DEF Proceed
<1>4. GoneOn(stack, h, f, stack')
  BY <1>1, <1>2, <1>3, AdvanceCalls
<1>5. /\ Calls(stack') /\ CallsNested(stack') /\ stack' # <<>> /\ Len(stack') = Len(stack)
      /\ stack'[1] = f /\ \A n \in 2..Len(stack) : stack'[n] = stack[n]
      /\ \A p : Ahead(stack', p) => Ahead(stack, p)
      /\ ~Ahead(stack', h)
  BY <1>4 DEF GoneOn
<1>6. \A n \in 1..Len(stack') : CallGood(tree, stack'[n])
  <2> TAKE n \in 1..Len(stack')
  <2>1. CASE n = 1
    BY <1>5, <2>1
  <2>2. CASE n # 1
    <3>1. n \in 2..Len(stack) /\ n \in 1..Len(stack)
      BY <1>1, <1>5, <2>2
    <3> QED BY <1>1, <1>5, <3>1
  <2> QED BY <2>1, <2>2
<1>7. CallsFit(opened, stack')
  BY <1>1, <1>2, <1>3, <1>4, FitGoneOn
<1>8. /\ \A n \in 1..Len(stack') : GoesOn(h, stack'[n])
      /\ \A p : (\A n \in 1..Len(stack) : GoesOn(p, stack[n]))
               => \A n \in 1..Len(stack') : GoesOn(p, stack'[n])
  BY <1>1, <1>2, <1>3, <1>4, GoOnGoneOn
<1>9. /\ opened \in Seq(Places) /\ arrays = Len(opened) /\ fields \in Seq(FieldsOver(tree))
      /\ \A n \in DOMAIN opened : ~Ahead(stack, opened[n])
      /\ \A m, n \in DOMAIN opened : opened[m] = opened[n] => m = n
      /\ \A n \in DOMAIN fields : ~Ahead(stack, fields[n].at)
      /\ AllAgree(fields, stack)
      /\ \A n \in DOMAIN fields : Fits(opened, fields[n].trail, fields[n].at)
  BY DEF IInv, Types, NothingAhead, OpenedOnce, FieldsAgree, TrailsFit
<1>10. /\ fields' \in Seq(FieldsOver(tree)) /\ AllAgree(fields', stack')
       /\ \A n \in DOMAIN fields' : ~Ahead(stack', fields'[n].at)
       /\ \A n \in DOMAIN fields' : Fits(opened, fields'[n].trail, fields'[n].at)
  BY <1>1, <1>2, <1>5, <1>8, <1>9, StoresInOrder
<1>11. \A n \in DOMAIN opened : ~Ahead(stack', opened[n])
  BY <1>5, <1>9
<1> QED BY <1>5, <1>6, <1>7, <1>9, <1>10, <1>11, Together

(* The call reads the member or element in a call of its own.              *)
LEMMA StepInto ==
  ASSUME IInv, stack # <<>>, ~AtEnd, NEW h, h = Here,
         NEW f, Advances(f, Top), f.trail = Top.trail, CallGood(tree, f),
         NEW g \in Frames, IsCall(g), g.at = h, CallGood(tree, g), stack' = Enclose(f, g),
         tree' = tree, status' = status, fields' = fields,
         OpensAt(opened, opened', h), arrays' = Len(opened'),
         Fits(opened', g.trail, h), Len(g.trail) <= Len(stack), Seen(opened', f, g.trail),
         trail' \in Trails, Seen(opened', g, trail')
  PROVE  IInv'
<1>1. /\ Calls(stack) /\ CallsNested(stack) /\ Len(stack) \in Nat \ {0} /\ DOMAIN stack = 1..Len(stack)
      /\ 1 \in 1..Len(stack) /\ Top = stack[1]
      /\ \A n \in 1..Len(stack) : CallGood(tree, stack[n])
      /\ CallsFit(opened, stack)
  BY Reads
<1>2. IsHere(h, stack) /\ h \in Places /\ Ahead(stack, h)
  BY ReadsOn
<1>3. Advances(f, stack[1]) /\ f.trail = stack[1].trail /\ stack' = <<g, f>> \o Tail(stack)
  BY <1>1 DEF Enclose
<1>4. GoneInto(stack, h, f, g, stack')
  BY <1>1, <1>2, <1>3, EncloseCalls
<1>5. /\ Calls(stack') /\ CallsNested(stack') /\ stack' # <<>> /\ Len(stack') = Len(stack) + 1
      /\ stack'[1] = g /\ stack'[2] = f /\ \A n \in 3..Len(stack') : stack'[n] = stack[n - 1]
      /\ \A p : Len(p) \in Nat /\ Ahead(stack', p) => Ahead(stack, p)
      /\ ~Ahead(stack', h)
  BY <1>4 DEF GoneInto
<1>6. \A n \in 1..Len(stack') : CallGood(tree, stack'[n])
  <2> TAKE n \in 1..Len(stack')
  <2>1. CASE n = 1
    BY <1>5, <2>1
  <2>2. CASE n = 2
    BY <1>5, <2>2
  <2>3. CASE n # 1 /\ n # 2
    <3>1. n \in 3..Len(stack') /\ n - 1 \in 1..Len(stack)
      BY <1>1, <1>5, <2>3
    <3> QED BY <1>1, <1>5, <3>1
  <2> QED BY <2>1, <2>2, <2>3
<1>7. /\ opened \in Seq(Places) /\ fields \in Seq(FieldsOver(tree))
      /\ \A n \in DOMAIN opened : ~Ahead(stack, opened[n])
      /\ \A m, n \in DOMAIN opened : opened[m] = opened[n] => m = n
      /\ \A n \in DOMAIN fields : ~Ahead(stack, fields[n].at)
      /\ AllAgree(fields, stack)
      /\ \A n \in DOMAIN fields : Fits(opened, fields[n].trail, fields[n].at)
  BY DEF IInv, Types, NothingAhead, OpenedOnce, FieldsAgree, TrailsFit
<1>8. /\ opened' \in Seq(Places) /\ Grows(opened, opened')
      /\ \A n \in DOMAIN opened' : ~Ahead(stack', opened'[n])
      /\ \A m, n \in DOMAIN opened' : opened'[m] = opened'[n] => m = n
  <2>1. Once(stack, opened)
    BY <1>7 DEF Once
  <2>2. opened' \in Seq(Places) /\ Grows(opened, opened') /\ Once(stack', opened')
    BY <1>2, <1>5, <1>7, <2>1, OpensOnce
  <2> QED BY <2>2 DEF Once
<1>9. CallsFit(opened', stack')
  BY <1>1, <1>2, <1>3, <1>4, <1>8, FitGoneInto
<1>10. \A p : Len(p) \in Nat /\ ~Ahead(stack, p) /\ (\A n \in 1..Len(stack) : GoesOn(p, stack[n]))
             => \A n \in 1..Len(stack') : GoesOn(p, stack'[n])
  BY <1>1, <1>2, <1>3, <1>4, GoOnGoneInto
<1>11. /\ AllAgree(fields, stack')
       /\ \A n \in DOMAIN fields : ~Ahead(stack', fields[n].at)
  <2>1. StoresAt(tree, opened, fields, fields, h)
    BY DEF StoresAt
  <2> QED BY <1>1, <1>2, <1>5, <1>7, <1>10, <2>1, StoresInOrder
<1>12. \A n \in DOMAIN fields : Fits(opened', fields[n].trail, fields[n].at)
  BY <1>7, <1>8, FitsGrows
<1> QED BY <1>5, <1>6, <1>7, <1>8, <1>9, <1>11, <1>12, Together

(* It returns, and the trail is again the one it was called with.          *)
LEMMA StepBack ==
  ASSUME IInv, stack # <<>>, stack' = Tail(stack),
         tree' = tree, status' = status, fields' = fields, opened' = opened, arrays' = arrays,
         trail' = Top.trail
  PROVE  IInv'
<1>1. /\ Calls(stack) /\ CallsNested(stack) /\ Len(stack) \in Nat \ {0} /\ DOMAIN stack = 1..Len(stack)
      /\ 1 \in 1..Len(stack) /\ Top = stack[1] /\ Top \in Frames /\ IsCall(Top)
      /\ \A n \in 1..Len(stack) : CallGood(tree, stack[n])
      /\ CallsFit(opened, stack)
  BY Reads
<1>2. GoneBack(stack, stack')
  BY <1>1, LeaveCalls
<1>3. /\ Calls(stack') /\ CallsNested(stack') /\ Len(stack') = Len(stack) - 1
      /\ \A n \in 1..Len(stack') : stack'[n] = stack[n + 1] /\ n + 1 \in 1..Len(stack)
      /\ \A p : Ahead(stack', p) => Ahead(stack, p)
  BY <1>2 DEF GoneBack
<1>4. /\ CallsFit(opened, stack')
      /\ stack' # <<>> => Seen(opened, stack'[1], stack[1].trail)
      /\ stack' = <<>> => Len(stack[1].trail) <= 0
  BY <1>1, <1>2, FitGoneBack
<1>5. stack[1].trail \in Trails
  BY <1>1, FrameShape
<1>6. stack' = <<>> => trail' = <<>>
  <2> HAVE stack' = <<>>
  <2>1. stack[1].trail \in Seq(Nat \X Nat) /\ Len(stack[1].trail) <= 0
    BY <1>4, <1>5 DEF Trails
  <2>2. stack[1].trail = <<>>
    BY <2>1, EmptySeq
  <2> QED BY <1>1, <2>2
<1>7. /\ opened \in Seq(Places) /\ arrays = Len(opened) /\ fields \in Seq(FieldsOver(tree))
      /\ \A n \in DOMAIN opened : ~Ahead(stack, opened[n])
      /\ \A m, n \in DOMAIN opened : opened[m] = opened[n] => m = n
      /\ \A n \in DOMAIN fields : ~Ahead(stack, fields[n].at)
      /\ AllAgree(fields, stack)
      /\ \A n \in DOMAIN fields : Fits(opened, fields[n].trail, fields[n].at)
  BY DEF IInv, Types, NothingAhead, OpenedOnce, FieldsAgree, TrailsFit
<1>8. AllAgree(fields, stack')
  <2>1. DOMAIN stack' = 1..Len(stack')
    BY <1>3, LenProperties DEF Calls
  <2>2. \A m \in DOMAIN fields, n \in DOMAIN stack' : GoesOn(fields[m].at, stack'[n])
    BY <1>1, <1>3, <1>7, <2>1 DEF AllAgree
  <2> QED BY <1>7, <2>2 DEF AllAgree
<1>9. \A n \in 1..Len(stack') : CallGood(tree, stack'[n])
  BY <1>1, <1>3
<1>10. /\ \A n \in DOMAIN opened : ~Ahead(stack', opened[n])
       /\ \A n \in DOMAIN fields : ~Ahead(stack', fields[n].at)
  BY <1>3, <1>7
<1> QED BY <1>1, <1>3, <1>4, <1>5, <1>6, <1>7, <1>8, <1>9, <1>10, Together

-----------------------------------------------------------------------------
(* What the actions make of the frames and of the trail.                   *)
Goes(g, f, nodes, flds) ==
    /\ Advances(g, f) /\ g.trail = f.trail /\ g.path = f.path /\ g.node = f.node
    /\ g.nodesCount = nodes /\ g.fieldsCount = flds

LEMMA FrameAdvanced ==
  ASSUME NEW f \in Frames, NEW g, g = [f EXCEPT !.next = @ + 1]
  PROVE  /\ Goes(g, f, f.nodesCount, f.fieldsCount)
         /\ Goes([g EXCEPT !.fieldsCount = @ - 1], f, f.nodesCount, f.fieldsCount - 1)
         /\ Goes([g EXCEPT !.nodesCount = @ - 1], f, f.nodesCount - 1, f.fieldsCount)
<1>1. f.next + 1 \in Nat /\ f.nodesCount - 1 \in Int /\ f.fieldsCount - 1 \in Int
  BY DEF Frames
<1>2. g \in Frames
  BY <1>1 DEF Frames
<1>3. Goes(g, f, f.nodesCount, f.fieldsCount)
  BY <1>2 DEF Goes, Advances, Frames
<1>4. Goes([g EXCEPT !.fieldsCount = @ - 1], f, f.nodesCount, f.fieldsCount - 1)
  <2>1. g.fieldsCount - 1 = f.fieldsCount - 1
    BY <1>3 DEF Goes
  <2>2. [g EXCEPT !.fieldsCount = @ - 1] \in Frames
    BY <1>1, <1>2, <2>1 DEF Frames
  <2> QED BY <1>2, <1>3, <2>1, <2>2 DEF Goes, Advances, Frames
<1>5. Goes([g EXCEPT !.nodesCount = @ - 1], f, f.nodesCount - 1, f.fieldsCount)
  <2>1. g.nodesCount - 1 = f.nodesCount - 1
    BY <1>3 DEF Goes
  <2>2. [g EXCEPT !.nodesCount = @ - 1] \in Frames
    BY <1>1, <1>2, <2>1 DEF Frames
  <2> QED BY <1>2, <1>3, <2>1, <2>2 DEF Goes, Advances, Frames
<1> QED BY <1>3, <1>4, <1>5

(* An array's counts are those it was called with.                         *)
LEMMA ArrayGoes ==
  ASSUME NEW tr, NEW f, f.kind = "array", CallGood(tr, f),
         NEW g, Goes(g, f, f.nodesCount, f.fieldsCount)
  PROVE  CallGood(tr, g)
BY DEF Goes, Advances, CallGood, CallCounts

Made(g, v, at, tr, node, path, trl) ==
    g = [kind |-> v.kind, value |-> v, at |-> at, node |-> node, path |-> path,
         next |-> 1, trail |-> trl,
         nodesCount |-> NodesCount(tr, node), fieldsCount |-> FieldsCount(tr, node)]

LEMMA FrameMade ==
  ASSUME NEW v \in Json, v.kind \in {"array", "object"}, NEW at \in Places,
         NEW tr \in Trees, NEW node \in Seq(Names), NEW path \in Seq(Names), path \in tr \cup {NoPath},
         NEW trl \in Trails, NEW g, Made(g, v, at, tr, node, path, trl)
  PROVE  /\ g \in Frames /\ IsCall(g) /\ CallGood(tr, g)
         /\ g.at = at /\ g.kind = v.kind /\ g.trail = trl /\ g.next = 1
<1> USE DEF Made
<1>1. NodesCount(tr, node) \in Int /\ FieldsCount(tr, node) \in Int
  BY TreeCounts
<1>2. g \in Frames
  BY <1>1 DEF Frames
<1>3. Len(v.values) \in Nat
  BY ValueShape
<1>4. IsCall(g)
  BY <1>3 DEF IsCall
<1>5. CallCounts(tr, g)
  <2>1. /\ g.next = 1 /\ g.nodesCount = NodesCount(tr, g.node)
        /\ g.fieldsCount = FieldsCount(tr, g.node)
    OBVIOUS
  <2> QED BY <2>1, CountFresh
<1> QED BY <1>2, <1>4, <1>5 DEF CallGood

LEMMA TrailTop ==
  ASSUME IInv, stack # <<>>
  PROVE  /\ Top.trail \in Trails /\ trail \in Trails /\ Fits(opened, Top.trail, Top.at)
         /\ Len(Top.trail) <= Len(stack) - 1 /\ Len(Top.trail) \in Nat
<1>1. /\ 1 \in DOMAIN stack /\ Top = stack[1] /\ Top \in Frames /\ IsCall(Top) /\ CallsFit(opened, stack)
  BY Reads
<1>2. Top.trail \in Trails
  BY <1>1, FrameShape
<1>3. Fits(opened, stack[1].trail, stack[1].at) /\ Len(stack[1].trail) <= Len(stack) - 1
  BY <1>1 DEF CallsFit
<1>4. trail \in Trails
  BY DEF IInv, Types
<1>5. Len(Top.trail) \in Nat
  BY <1>2, LenProperties DEF Trails
<1> QED BY <1>1, <1>2, <1>3, <1>4, <1>5

LEMMA TrailOfMember ==
  ASSUME IInv, stack # <<>>, ~AtEnd, Top.kind = "object", NEW h, h = Here
  PROVE  trail = Top.trail /\ Fits(opened, trail, h)
<1>1. trail = Top.trail
  BY Reads DEF Seen
<1>2. Extends(h, Top.at, Step(Top, Top.next)) /\ Step(Top, Top.next).in = Top.kind
  BY ReadsOn
<1>3. Fits(opened, trail, Top.at)
  BY <1>1, TrailTop
<1>4. PICK st, at : st = Step(Top, Top.next) /\ at = Top.at
  OBVIOUS
<1>5. Fits(opened, trail, h)
  BY <1>2, <1>3, <1>4, FitsMember
<1> QED BY <1>1, <1>5

LEMMA TrailOfArray ==
  ASSUME IInv, stack # <<>>, Top.kind = "array"
  PROVE  \E a \in DOMAIN opened :
           /\ a \in Nat /\ opened[a] = Top.at /\ Top.next \in Nat
           /\ Stepped = Append(Top.trail, <<a, Top.next>>)
           /\ SubSeq(trail, 1, Len(trail) - 1) = Top.trail
<1>1. PICK a \in DOMAIN opened : opened[a] = Top.at /\ trail = Append(Top.trail, <<a, Top.next - 1>>)
  BY Reads DEF Seen
<1>2. a \in Nat
  BY <1>1, LenProperties DEF IInv, Types
<1>3. Top \in Frames /\ IsCall(Top)
  BY Reads
<1>4. PICK k : k = Top.next - 1
  OBVIOUS
<1>5. k \in Nat /\ k + 1 = Top.next /\ Top.next \in Nat
  BY <1>3, <1>4, FrameShape
<1>6. Ends(trail, Top.trail, <<a, k>>)
  BY <1>1, <1>4 DEF Ends
<1>7. Top.trail \in Trails
  BY TrailTop
<1>8. /\ Ends([trail EXCEPT ![Len(trail)][2] = @ + 1], Top.trail, <<a, k + 1>>)
      /\ SubSeq(trail, 1, Len(trail) - 1) = Top.trail
  BY <1>2, <1>5, <1>6, <1>7, LastPair
<1>9. Stepped = Append(Top.trail, <<a, Top.next>>)
  BY <1>5, <1>8 DEF Stepped, Ends
<1> QED BY <1>1, <1>2, <1>5, <1>8, <1>9

LEMMA TrailOfElement ==
  ASSUME IInv, stack # <<>>, ~AtEnd, Top.kind = "array", NEW h, h = Here,
         NEW f, Advances(f, Top), f.trail = Top.trail
  PROVE  /\ Stepped \in Trails /\ Len(Stepped) <= Len(stack)
         /\ Fits(opened, Stepped, h) /\ Seen(opened, f, Stepped)
<1>1. PICK a \in DOMAIN opened :
        /\ a \in Nat /\ opened[a] = Top.at /\ Top.next \in Nat
        /\ Stepped = Append(Top.trail, <<a, Top.next>>)
  BY TrailOfArray
<1>2. /\ Top.trail \in Trails /\ Fits(opened, Top.trail, Top.at)
      /\ Len(Top.trail) <= Len(stack) - 1 /\ Len(Top.trail) \in Nat
  BY TrailTop
<1>3. PICK front, next : front = Top.trail /\ next = Top.next
  OBVIOUS
<1>4. Ends(Stepped, front, <<a, next>>)
  BY <1>1, <1>3 DEF Ends
<1>5. Stepped \in Trails /\ Len(Stepped) = Len(front) + 1
  <2>1. front \in Trails /\ a \in Nat /\ next \in Nat
    BY <1>1, <1>2, <1>3
  <2> QED BY <1>4, <2>1, PairMore
<1>6. Len(Stepped) <= Len(stack)
  <2>1. Len(stack) \in Nat
    BY Reads
  <2> QED BY <1>2, <1>3, <1>5, <2>1
<1>7. /\ Extends(h, Top.at, Step(Top, Top.next)) /\ Step(Top, Top.next).in = "array"
      /\ Step(Top, Top.next).key = Top.next
  BY ReadsOn
<1>8. PICK st, at : st = Step(Top, Top.next) /\ at = Top.at
  OBVIOUS
<1>9. /\ Extends(h, at, st) /\ st.in = "array" /\ st.key = next /\ next \in Nat
      /\ Fits(opened, front, at) /\ opened[a] = at /\ front \in Trails
  BY <1>1, <1>2, <1>3, <1>7, <1>8
<1>10. Stepped = Append(front, <<a, st.key>>)
  BY <1>1, <1>3, <1>9
<1>11. Fits(opened, Stepped, h)
  BY <1>1, <1>9, <1>10, FitsElement
<1>12. Seen(opened, f, Stepped)
  <2>1. f.kind = "array" /\ f.at = Top.at /\ f.next - 1 = Top.next
    BY <1>1 DEF Advances
  <2> QED BY <1>1, <2>1 DEF Seen
<1> QED BY <1>5, <1>6, <1>11, <1>12
-----------------------------------------------------------------------------
(* Every action keeps the invariant.                                       *)
LEMMA Starts ==
  ASSUME Init
  PROVE  IInv
<1>1. /\ event \in Json /\ event.kind = "object" /\ tree \in Trees
      /\ trail = <<>> /\ arrays = 0 /\ opened = <<>> /\ fields = <<>> /\ status = "reading"
  BY JsonAssumption DEF Init
<1>2. <<>> \in Places /\ <<>> \in Trails /\ <<>> \in Seq(Names) /\ <<>> \in Seq(Places)
      /\ <<>> \in Seq(FieldsOver(tree)) /\ NoPath \in Seq(Names)
  BY DEF Places, Trails, NoPath
<1>3. PICK f : f = [kind |-> event.kind, value |-> event, at |-> <<>>, node |-> <<>>,
                    path |-> NoPath, next |-> 1, trail |-> <<>>,
                    nodesCount |-> NodesCount(tree, <<>>),
                    fieldsCount |-> FieldsCount(tree, <<>>)]
  OBVIOUS
<1>4. stack = <<f>>
  BY <1>1, <1>3 DEF Init
<1>5. /\ f \in Frames /\ IsCall(f) /\ CallGood(tree, f)
      /\ f.at = <<>> /\ f.kind = "object" /\ f.trail = <<>>
  <2>1. PICK e, v : e = <<>> /\ v = event
    OBVIOUS
  <2>2. Made(f, v, e, tree, e, NoPath, e)
    BY <1>3, <2>1 DEF Made
  <2>3. /\ v \in Json /\ v.kind = "object" /\ tree \in Trees
        /\ e \in Places /\ e \in Trails /\ e \in Seq(Names)
        /\ NoPath \in Seq(Names) /\ NoPath \in tree \cup {NoPath}
    BY <1>1, <1>2, <2>1
  <2>4. /\ f \in Frames /\ IsCall(f) /\ CallGood(tree, f)
        /\ f.at = e /\ f.kind = "object" /\ f.trail = e
    BY <2>2, <2>3, FrameMade
  <2> QED BY <2>1, <2>4
<1>6. stack \in Seq(Frames) /\ DOMAIN stack = {1} /\ Len(stack) = 1 /\ stack[1] = f /\ stack # <<>>
  BY <1>4, <1>5
<1>7. DOMAIN <<>> = {} /\ Len(<<>>) = 0
  OBVIOUS
<1>8. Types
  BY <1>1, <1>2, <1>5, <1>6 DEF Types, CallGood
<1>9. FramesNested
  <2>1. Named(<<>>)
    BY <1>7 DEF Named
  <2> QED BY <1>5, <1>6, <1>7, <2>1 DEF FramesNested, CallsNested
<1>10. NothingAhead /\ OpenedOnce
  BY <1>1, <1>7 DEF NothingAhead, OpenedOnce
<1>11. TrailsFit
  <2>1. Fits(opened, <<>>, <<>>)
    BY <1>7 DEF Fits
  <2>2. CallsFit(opened, stack)
    BY <1>5, <1>6, <1>7, <2>1 DEF CallsFit
  <2>3. Seen(opened, stack[1], trail)
    BY <1>1, <1>5, <1>6 DEF Seen
  <2> QED BY <1>1, <1>6, <1>7, <2>2, <2>3 DEF TrailsFit
<1>12. FieldsAgree
  BY <1>1, <1>7 DEF FieldsAgree, AllAgree
<1>13. Counts
  BY <1>5, <1>6 DEF Counts, CallGood
<1> QED BY <1>8, <1>9, <1>10, <1>11, <1>12, <1>13 DEF IInv

(* A member: the call of the object, and the name and the part it is at.   *)
AtMember(part) ==
    /\ stack # <<>> /\ ~AtEnd /\ Top.kind = "object" /\ Value.kind = part

LEMMA MemberPasses ==
  ASSUME IInv, NEW part, AtMember(part), NEW f, NEW nodes, NEW flds, Goes(f, Top, nodes, flds)
  PROVE  Passes(f, Top, Name, part) /\ Counted(tree, Top)
<1>1. Top \in Frames /\ IsCall(Top) /\ CallGood(tree, Top)
  BY Reads DEF AtMember
<1>2. Top.next <= Len(Top.value.values)
  BY ReadsOn DEF AtMember
<1>3. Passes(f, Top, Name, part)
  BY <1>1, <1>2 DEF Passes, Goes, Advances, AtMember, Name, Value
<1> QED BY <1>1, <1>3 DEF CallGood, CallCounts, AtMember

LEMMA MemberGoes ==
  ASSUME IInv, NEW part, AtMember(part), NEW f, NEW nodes, NEW flds, Goes(f, Top, nodes, flds),
         Counted(tree, f)
  PROVE  /\ CallGood(tree, f) /\ Advances(f, Top) /\ f.trail = Top.trail
         /\ Seen(opened, f, trail) /\ trail \in Trails
<1>1. CallGood(tree, Top) /\ Seen(opened, Top, trail)
  BY Reads DEF AtMember
<1>2. f.kind = "object" /\ f.path = Top.path /\ Advances(f, Top) /\ f.trail = Top.trail
  BY DEF Goes, Advances, AtMember
<1>3. CallGood(tree, f)
  BY <1>1, <1>2 DEF CallGood, CallCounts
<1>4. Seen(opened, f, trail)
  BY <1>1, <1>2 DEF Seen, AtMember
<1> QED BY <1>2, <1>3, <1>4 DEF IInv, Types

LEMMA SkipMemberKeeps ==
  ASSUME IInv, SkipMember
  PROVE  IInv'
<1>1. PICK part \in {"leaf", "array", "object"} :
        /\ Member(part)
        /\ part = "object" => Name \notin NodesOf(tree, Top.node)
        /\ part = "leaf" => Name \notin UsedIn(tree, Top.node)
  BY DEF SkipMember, Used, IsSegmentUsed, UsedIn, HasNode
<1>2. AtMember(part)
  BY <1>1 DEF Member, AtMember, Reading
<1>3. PICK f : f = Advanced
  OBVIOUS
<1>4. Goes(f, Top, Top.nodesCount, Top.fieldsCount)
  BY <1>2, <1>3, Reads, FrameAdvanced DEF Advanced, AtMember
<1>5. Passes(f, Top, Name, part) /\ Counted(tree, Top)
  BY <1>2, <1>4, MemberPasses
<1>6. Counted(tree, f)
  <2>1. f.nodesCount = Top.nodesCount /\ f.fieldsCount = Top.fieldsCount
    BY <1>4 DEF Goes
  <2> QED BY <1>1, <1>5, <2>1, CountSkip
<1>7. /\ CallGood(tree, f) /\ Advances(f, Top) /\ f.trail = Top.trail
      /\ Seen(opened, f, trail) /\ trail \in Trails
  BY <1>2, <1>4, <1>6, MemberGoes
<1>8. PICK h : h = Here
  OBVIOUS
<1>9. /\ stack' = Proceed(f) /\ tree' = tree /\ status' = status /\ arrays' = arrays
      /\ opened' = opened /\ trail' = trail /\ fields' = fields
  BY <1>3 DEF SkipMember
<1>10. StoresAt(tree, opened, fields, fields', h)
  BY <1>9 DEF StoresAt
<1> QED BY <1>2, <1>7, <1>8, <1>9, <1>10, StepOn DEF AtMember

LEMMA LeafMemberKeeps ==
  ASSUME IInv, LeafMember
  PROVE  IInv'
<1>1. Name \in UsedIn(tree, Top.node) /\ Member("leaf")
  BY DEF LeafMember, Used, IsSegmentUsed, UsedIn
<1>2. AtMember("leaf")
  BY <1>1 DEF Member, AtMember, Reading
<1>3. PICK f : f = [Advanced EXCEPT !.fieldsCount = @ - 1]
  OBVIOUS
<1>4. Goes(f, Top, Top.nodesCount, Top.fieldsCount - 1)
  BY <1>2, <1>3, Reads, FrameAdvanced DEF Advanced, AtMember
<1>5. Passes(f, Top, Name, "leaf") /\ Counted(tree, Top) /\ tree \in Trees /\ Top \in Frames
      /\ IsCall(Top)
  BY <1>2, <1>4, MemberPasses, Reads DEF AtMember
<1>6. Counted(tree, f)
  <2>1. f.nodesCount = Top.nodesCount /\ f.fieldsCount = Top.fieldsCount - 1
    BY <1>4 DEF Goes
  <2> QED BY <1>1, <1>5, <2>1, CountLeaf
<1>7. /\ CallGood(tree, f) /\ Advances(f, Top) /\ f.trail = Top.trail
      /\ Seen(opened, f, trail) /\ trail \in Trails
  BY <1>2, <1>4, <1>6, MemberGoes
<1>8. PICK h : h = Here
  OBVIOUS
<1>9. PICK path : path = PathForSegment(tree, Top.node, Name)
  OBVIOUS
<1>10. PICK x : x = [path |-> path, trail |-> Top.trail, at |-> h]
  OBVIOUS
<1>11. /\ stack' = Proceed(f) /\ tree' = tree /\ status' = status /\ arrays' = arrays
       /\ opened' = opened /\ trail' = trail /\ fields' = Append(fields, x)
  BY <1>3, <1>8, <1>9, <1>10 DEF LeafMember, Field
<1>12. path \in tree \cup {NoPath}
  BY <1>5, <1>9, FrameShape, PathInTree
<1>13. trail = Top.trail /\ Fits(opened, trail, h) /\ h \in Places
  BY <1>2, <1>8, TrailOfMember, ReadsOn DEF AtMember
<1>14. x \in FieldsOver(tree) /\ x.at = h /\ x.trail = trail
  BY <1>7, <1>10, <1>12, <1>13 DEF FieldsOver
<1>15. StoresAt(tree, opened, fields, fields', h)
  BY <1>11, <1>13, <1>14 DEF StoresAt
<1> QED BY <1>2, <1>7, <1>8, <1>11, <1>15, StepOn DEF AtMember

LEMMA ObjectMemberKeeps ==
  ASSUME IInv, ObjectMember
  PROVE  IInv'
<1>1. Name \in NodesOf(tree, Top.node) /\ Member("object")
  BY DEF ObjectMember, HasNode
<1>2. AtMember("object")
  BY <1>1 DEF Member, AtMember, Reading
<1>3. PICK f : f = [Advanced EXCEPT !.nodesCount = @ - 1]
  OBVIOUS
<1>4. Goes(f, Top, Top.nodesCount - 1, Top.fieldsCount)
  BY <1>2, <1>3, Reads, FrameAdvanced DEF Advanced, AtMember
<1>5. Passes(f, Top, Name, "object") /\ Counted(tree, Top) /\ tree \in Trees /\ Top \in Frames
      /\ IsCall(Top)
  BY <1>2, <1>4, MemberPasses, Reads DEF AtMember
<1>6. Counted(tree, f)
  <2>1. f.nodesCount = Top.nodesCount - 1 /\ f.fieldsCount = Top.fieldsCount
    BY <1>4 DEF Goes
  <2> QED BY <1>1, <1>5, <2>1, CountObject
<1>7. /\ CallGood(tree, f) /\ Advances(f, Top) /\ f.trail = Top.trail
      /\ Seen(opened, f, trail) /\ trail \in Trails
  BY <1>2, <1>4, <1>6, MemberGoes
<1>8. PICK h, v, node : h = Here /\ v = Value /\ node = Get(Top.node, Name)
  OBVIOUS
<1>9. PICK g : g = Frame("object", v, h, node, NoPath)
  OBVIOUS
<1>10. /\ stack' = Enclose(f, g) /\ tree' = tree /\ status' = status /\ arrays' = arrays
       /\ opened' = opened /\ trail' = trail /\ fields' = fields
  BY <1>3, <1>8, <1>9 DEF ObjectMember
<1>11. /\ node \in Seq(Names) /\ NoPath \in Seq(Names) /\ NoPath \in tree \cup {NoPath}
       /\ v \in Json /\ v.kind = "object"
  BY <1>1, <1>2, <1>5, <1>8, FrameShape, PathInTree, ReadsOn DEF AtMember, NoPath
<1>12. trail = Top.trail /\ Fits(opened, trail, h) /\ h \in Places
  BY <1>2, <1>8, TrailOfMember, ReadsOn DEF AtMember
<1>13. Made(g, v, h, tree, node, NoPath, trail)
  BY <1>9, <1>11 DEF Made, Frame
<1>14. /\ g \in Frames /\ IsCall(g) /\ CallGood(tree, g)
       /\ g.at = h /\ g.kind = "object" /\ g.trail = trail
  BY <1>5, <1>7, <1>11, <1>12, <1>13, FrameMade
<1>15. /\ Len(g.trail) <= Len(stack) /\ arrays' = Len(opened')
  <2>1. Len(stack) \in Nat /\ Len(Top.trail) \in Nat /\ Len(Top.trail) <= Len(stack) - 1
    BY <1>2, Reads, TrailTop DEF AtMember
  <2>2. Len(g.trail) <= Len(stack)
    BY <1>12, <1>14, <2>1
  <2> QED BY <1>10, <2>2 DEF IInv, Types
<1>16. /\ OpensAt(opened, opened', h) /\ Fits(opened', g.trail, h)
       /\ Seen(opened', f, g.trail) /\ Seen(opened', g, trail')
  BY <1>7, <1>10, <1>12, <1>14 DEF OpensAt, Seen
<1>17. trail' \in Trails
  BY <1>7, <1>10
<1> QED BY <1>2, <1>7, <1>8, <1>10, <1>14, <1>15, <1>16, <1>17, StepInto DEF AtMember

(* An array is numbered where it is read.                                  *)
LEMMA Numbered ==
  ASSUME IInv, NEW h \in Places, arrays' = arrays + 1, opened' = Append(opened, h)
  PROVE  /\ OpensAt(opened, opened', h) /\ arrays' = Len(opened') /\ Grows(opened, opened')
         /\ arrays + 1 \in Nat /\ arrays + 1 \in DOMAIN opened' /\ opened'[arrays + 1] = h
<1>1. opened \in Seq(Places) /\ arrays = Len(opened)
  BY DEF IInv, Types
<1>2. /\ Len(opened) \in Nat /\ Len(opened') = Len(opened) + 1
      /\ opened'[Len(opened')] = h /\ \A n \in 1..Len(opened) : opened'[n] = opened[n]
      /\ DOMAIN opened = 1..Len(opened) /\ DOMAIN opened' = 1..Len(opened')
  BY <1>1, AppendSeq
<1>3. Grows(opened, opened')
  BY <1>2 DEF Grows
<1>4. arrays + 1 \in Nat /\ arrays + 1 \in DOMAIN opened' /\ opened'[arrays + 1] = h
  BY <1>1, <1>2
<1> QED BY <1>1, <1>2, <1>3, <1>4 DEF OpensAt

LEMMA ArrayMemberKeeps ==
  ASSUME IInv, ArrayMember
  PROVE  IInv'
<1>1. AtMember("array")
  BY DEF ArrayMember, Member, AtMember, Reading
<1>2. PICK f : f = Advanced
  OBVIOUS
<1>3. Goes(f, Top, Top.nodesCount, Top.fieldsCount)
  BY <1>1, <1>2, Reads, FrameAdvanced DEF Advanced, AtMember
<1>4. Passes(f, Top, Name, "array") /\ Counted(tree, Top) /\ tree \in Trees /\ Top \in Frames
      /\ IsCall(Top)
  BY <1>1, <1>3, MemberPasses, Reads DEF AtMember
<1>5. Counted(tree, f)
  <2>1. f.nodesCount = Top.nodesCount /\ f.fieldsCount = Top.fieldsCount
    BY <1>3 DEF Goes
  <2> QED BY <1>4, <2>1, CountSkip
<1>6. /\ CallGood(tree, f) /\ Advances(f, Top) /\ f.trail = Top.trail
      /\ Seen(opened, f, trail) /\ trail \in Trails
  BY <1>1, <1>3, <1>5, MemberGoes
<1>7. PICK h, v, node, path :
        h = Here /\ v = Value /\ node = ArrayNode /\ path = PathForSegment(tree, Top.node, Name)
  OBVIOUS
<1>8. PICK g : g = Frame("array", v, h, node, path)
  OBVIOUS
<1>9. /\ stack' = Enclose(f, g) /\ tree' = tree /\ status' = status /\ arrays' = arrays + 1
      /\ opened' = Append(opened, h) /\ trail' = Append(trail, <<arrays + 1, 0>>)
      /\ fields' = fields
  BY <1>2, <1>7, <1>8 DEF ArrayMember
<1>10. /\ node \in Seq(Names) /\ path \in Seq(Names) /\ path \in tree \cup {NoPath}
  <2>1. Top.node \in Seq(Names)
    BY <1>4, FrameShape
  <2>2. node \in Seq(Names)
    BY <1>4, <1>7, <2>1, PathInTree DEF ArrayNode, HasNode
  <2> QED BY <1>4, <1>7, <2>1, <2>2, PathInTree
<1>11. trail = Top.trail /\ Fits(opened, trail, h) /\ h \in Places /\ v \in Json /\ v.kind = "array"
  BY <1>1, <1>7, TrailOfMember, ReadsOn DEF AtMember
<1>12. Made(g, v, h, tree, node, path, trail)
  BY <1>8, <1>11 DEF Made, Frame
<1>13. /\ g \in Frames /\ IsCall(g) /\ CallGood(tree, g)
       /\ g.at = h /\ g.kind = "array" /\ g.trail = trail /\ g.next = 1
  BY <1>4, <1>6, <1>10, <1>11, <1>12, FrameMade
<1>14. /\ OpensAt(opened, opened', h) /\ arrays' = Len(opened') /\ Grows(opened, opened')
       /\ arrays + 1 \in Nat /\ arrays + 1 \in DOMAIN opened' /\ opened'[arrays + 1] = h
  BY <1>9, <1>11, Numbered
<1>15. Len(g.trail) <= Len(stack)
  <2>1. Len(stack) \in Nat /\ Len(Top.trail) \in Nat /\ Len(Top.trail) <= Len(stack) - 1
    BY <1>1, Reads, TrailTop DEF AtMember
  <2> QED BY <1>11, <1>13, <2>1
<1>16. Fits(opened', g.trail, h) /\ Seen(opened', f, g.trail)
  BY <1>6, <1>11, <1>13, <1>14, FitsGrows, SeenGrows
<1>17. Seen(opened', g, trail')
  BY <1>9, <1>13, <1>14 DEF Seen
<1>18. trail' \in Trails
  <2>1. Ends(trail', trail, <<arrays + 1, 0>>)
    BY <1>9 DEF Ends
  <2> QED BY <1>6, <1>14, <2>1, PairMore
<1> QED BY <1>1, <1>6, <1>7, <1>9, <1>13, <1>14, <1>15, <1>16, <1>17, <1>18, StepInto DEF AtMember

(* An element: the call of the array, and the trail one step further.      *)
AtElement(part) ==
    /\ stack # <<>> /\ ~AtEnd /\ Top.kind = "array" /\ Value.kind = part

LEMMA ElementGoes ==
  ASSUME IInv, NEW part, AtElement(part), NEW f, f = Advanced, NEW h, h = Here
  PROVE  /\ CallGood(tree, f) /\ Advances(f, Top) /\ f.trail = Top.trail
         /\ Stepped \in Trails /\ Len(Stepped) <= Len(stack)
         /\ Fits(opened, Stepped, h) /\ Seen(opened, f, Stepped)
         /\ h \in Places /\ Value \in Json /\ Value.kind = part
         /\ tree \in Trees /\ CallGood(tree, Top) /\ Top \in Frames
<1>1. /\ Top \in Frames /\ IsCall(Top) /\ CallGood(tree, Top) /\ tree \in Trees
  BY Reads DEF AtElement
<1>2. Goes(f, Top, Top.nodesCount, Top.fieldsCount)
  BY <1>1, FrameAdvanced DEF Advanced
<1>3. CallGood(tree, f)
  BY <1>1, <1>2, ArrayGoes DEF AtElement
<1>4. Advances(f, Top) /\ f.trail = Top.trail
  BY <1>2 DEF Goes
<1>5. /\ Stepped \in Trails /\ Len(Stepped) <= Len(stack)
      /\ Fits(opened, Stepped, h) /\ Seen(opened, f, Stepped)
  BY <1>4, TrailOfElement DEF AtElement
<1>6. h \in Places /\ Value \in Json
  BY ReadsOn DEF AtElement
<1> QED BY <1>1, <1>3, <1>4, <1>5, <1>6 DEF AtElement

LEMMA LeafElementKeeps ==
  ASSUME IInv, LeafElement
  PROVE  IInv'
<1>1. AtElement("leaf")
  BY DEF LeafElement, Element, AtElement, Reading
<1>2. PICK f, h, trl : f = Advanced /\ h = Here /\ trl = Stepped
  OBVIOUS
<1>3. PICK x : x = [path |-> Top.path, trail |-> trl, at |-> h]
  OBVIOUS
<1>4. /\ CallGood(tree, f) /\ Advances(f, Top) /\ f.trail = Top.trail
      /\ trl \in Trails /\ Fits(opened, trl, h) /\ Seen(opened, f, trl)
      /\ h \in Places /\ CallGood(tree, Top)
  BY <1>1, <1>2, ElementGoes
<1>5. /\ stack' = Proceed(f) /\ tree' = tree /\ status' = status /\ arrays' = arrays
      /\ opened' = opened /\ trail' = trl /\ fields' = Append(fields, x)
  BY <1>2, <1>3 DEF LeafElement, Field
<1>6. x \in FieldsOver(tree) /\ x.at = h /\ x.trail = trl
  BY <1>3, <1>4 DEF FieldsOver, CallGood
<1>7. StoresAt(tree, opened, fields, fields', h)
  BY <1>4, <1>5, <1>6 DEF StoresAt
<1> QED BY <1>1, <1>2, <1>4, <1>5, <1>7, StepOn DEF AtElement

LEMMA ObjectElementKeeps ==
  ASSUME IInv, ObjectElement
  PROVE  IInv'
<1>1. AtElement("object")
  BY DEF ObjectElement, Element, AtElement, Reading
<1>2. PICK f, h, trl, v, node :
        f = Advanced /\ h = Here /\ trl = Stepped /\ v = Value /\ node = Top.node
  OBVIOUS
<1>3. PICK g : g = [Frame("object", v, h, node, NoPath) EXCEPT !.trail = trl]
  OBVIOUS
<1>4. /\ CallGood(tree, f) /\ Advances(f, Top) /\ f.trail = Top.trail
      /\ trl \in Trails /\ Len(trl) <= Len(stack) /\ Fits(opened, trl, h) /\ Seen(opened, f, trl)
      /\ h \in Places /\ v \in Json /\ v.kind = "object" /\ tree \in Trees /\ Top \in Frames
  BY <1>1, <1>2, ElementGoes
<1>5. /\ stack' = Enclose(f, g) /\ tree' = tree /\ status' = status /\ arrays' = arrays
      /\ opened' = opened /\ trail' = trl /\ fields' = fields
  BY <1>2, <1>3 DEF ObjectElement
<1>6. Made(g, v, h, tree, node, NoPath, trl)
  BY <1>3, <1>4 DEF Made, Frame
<1>7. node \in Seq(Names) /\ NoPath \in Seq(Names) /\ NoPath \in tree \cup {NoPath}
  BY <1>2, <1>4 DEF Frames, NoPath
<1>8. /\ g \in Frames /\ IsCall(g) /\ CallGood(tree, g)
      /\ g.at = h /\ g.kind = "object" /\ g.trail = trl
  BY <1>4, <1>6, <1>7, FrameMade
<1>9. /\ OpensAt(opened, opened', h) /\ Fits(opened', g.trail, h) /\ arrays' = Len(opened')
      /\ Seen(opened', f, g.trail) /\ Seen(opened', g, trail') /\ Len(g.trail) <= Len(stack)
  BY <1>4, <1>5, <1>8 DEF OpensAt, Seen, IInv, Types
<1>10. trail' \in Trails
  BY <1>4, <1>5
<1> QED BY <1>1, <1>2, <1>4, <1>5, <1>8, <1>9, <1>10, StepInto DEF AtElement

LEMMA ArrayElementKeeps ==
  ASSUME IInv, ArrayElement
  PROVE  IInv'
<1>1. AtElement("array")
  BY DEF ArrayElement, Element, AtElement, Reading
<1>2. PICK f, h, trl, v, node, path :
        /\ f = Advanced /\ h = Here /\ trl = Stepped /\ v = Value /\ node = Top.node
        /\ path = Top.path
  OBVIOUS
<1>3. PICK g : g = [Frame("array", v, h, node, path) EXCEPT !.trail = trl]
  OBVIOUS
<1>4. /\ CallGood(tree, f) /\ Advances(f, Top) /\ f.trail = Top.trail
      /\ trl \in Trails /\ Len(trl) <= Len(stack) /\ Fits(opened, trl, h) /\ Seen(opened, f, trl)
      /\ h \in Places /\ v \in Json /\ v.kind = "array" /\ tree \in Trees /\ Top \in Frames
      /\ CallGood(tree, Top)
  BY <1>1, <1>2, ElementGoes
<1>5. /\ stack' = Enclose(f, g) /\ tree' = tree /\ status' = status /\ arrays' = arrays + 1
      /\ opened' = Append(opened, h) /\ trail' = Append(trl, <<arrays + 1, 0>>)
      /\ fields' = fields
  BY <1>2, <1>3 DEF ArrayElement
<1>6. Made(g, v, h, tree, node, path, trl)
  BY <1>3, <1>4 DEF Made, Frame
<1>7. node \in Seq(Names) /\ path \in Seq(Names) /\ path \in tree \cup {NoPath}
  BY <1>2, <1>4 DEF Frames, CallGood
<1>8. /\ g \in Frames /\ IsCall(g) /\ CallGood(tree, g)
      /\ g.at = h /\ g.kind = "array" /\ g.trail = trl /\ g.next = 1
  BY <1>4, <1>6, <1>7, FrameMade
<1>9. /\ OpensAt(opened, opened', h) /\ arrays' = Len(opened') /\ Grows(opened, opened')
      /\ arrays + 1 \in Nat /\ arrays + 1 \in DOMAIN opened' /\ opened'[arrays + 1] = h
  BY <1>4, <1>5, Numbered
<1>10. Fits(opened', g.trail, h) /\ Seen(opened', f, g.trail) /\ Len(g.trail) <= Len(stack)
  BY <1>4, <1>8, <1>9, FitsGrows, SeenGrows
<1>11. Seen(opened', g, trail')
  BY <1>5, <1>8, <1>9 DEF Seen
<1>12. trail' \in Trails
  <2>1. Ends(trail', trl, <<arrays + 1, 0>>)
    BY <1>5 DEF Ends
  <2> QED BY <1>4, <1>9, <2>1, PairMore
<1> QED BY <1>1, <1>2, <1>4, <1>5, <1>8, <1>9, <1>10, <1>11, <1>12, StepInto DEF AtElement

LEMMA LeaveKeeps ==
  ASSUME IInv, LeaveObject \/ LeaveArray
  PROVE  IInv'
<1>1. CASE LeaveObject
  <2>1. stack # <<>> /\ Top.kind = "object"
    BY <1>1 DEF LeaveObject, Reading
  <2>2. trail = Top.trail
    BY <2>1, Reads DEF Seen
  <2> QED BY <1>1, <2>1, <2>2, StepBack DEF LeaveObject
<1>2. CASE LeaveArray
  <2>1. stack # <<>> /\ Top.kind = "array"
    BY <1>2 DEF LeaveArray, Reading
  <2>2. SubSeq(trail, 1, Len(trail) - 1) = Top.trail
    BY <2>1, TrailOfArray
  <2> QED BY <1>2, <2>1, <2>2, StepBack DEF LeaveArray
<1> QED BY <1>1, <1>2

(* Stopping, ending and stuttering leave all but the status.               *)
LEMMA StandsStill ==
  ASSUME IInv, status' \in {"reading", "stopped", "ended"},
         UNCHANGED <<tree, stack, trail, arrays, opened, fields>>
  PROVE  IInv'
<1>1. Types'
  BY DEF IInv, Types
<1>2. (FramesNested /\ NothingAhead /\ OpenedOnce /\ TrailsFit /\ FieldsAgree /\ Counts)'
  BY DEF IInv, FramesNested, NothingAhead, OpenedOnce, TrailsFit, FieldsAgree, Counts
<1> QED BY <1>1, <1>2 DEF IInv

(* In every state of reading any Event with any segments tree: the calls   *)
(* of readObject and readArray are nested as the places are, what has been *)
(* numbered or stored lies behind them, each trail is that of its place,   *)
(* and the counts are of what has been met.                                *)
THEOREM FlattenerInvariant == Spec => []IInv
<1>1. Init => IInv
  BY Starts
<1>2. IInv /\ [Next]_vars => IInv'
  <2> SUFFICES ASSUME IInv, [Next]_vars PROVE IInv'
    OBVIOUS
  <2>1. CASE EarlyStop \/ End \/ UNCHANGED vars
    <3>1. status \in {"reading", "stopped", "ended"}
      BY DEF IInv, Types
    <3> QED BY <2>1, <3>1, StandsStill DEF EarlyStop, End, vars
  <2>2. CASE LeaveObject \/ LeaveArray
    BY <2>2, LeaveKeeps
  <2>3. CASE SkipMember
    BY <2>3, SkipMemberKeeps
  <2>4. CASE LeafMember
    BY <2>4, LeafMemberKeeps
  <2>5. CASE ObjectMember
    BY <2>5, ObjectMemberKeeps
  <2>6. CASE ArrayMember
    BY <2>6, ArrayMemberKeeps
  <2>7. CASE LeafElement
    BY <2>7, LeafElementKeeps
  <2>8. CASE ObjectElement
    BY <2>8, ObjectElementKeeps
  <2>9. CASE ArrayElement
    BY <2>9, ArrayElementKeeps
  <2> QED BY <2>1, <2>2, <2>3, <2>4, <2>5, <2>6, <2>7, <2>8, <2>9 DEF Next
<1> QED BY <1>1, <1>2, PTL DEF Spec

-----------------------------------------------------------------------------
(* The counts, positions and trails are of their types in every state, for *)
(* any Events and segments trees: in particular nodesCount is never driven *)
(* below zero, which the code's comparison with zero relies on.            *)
THEOREM FlattenerTypes == Spec => []TypeOK
<1>1. ASSUME IInv PROVE TypeOK
  <2>1. \A n \in DOMAIN stack : /\ stack[n].next \in 1..Len(stack[n].value.values) + 1
                                /\ stack[n].nodesCount \in Nat /\ stack[n].fieldsCount \in Int
    <3>1. ASSUME NEW n \in DOMAIN stack
          PROVE  /\ stack[n].next \in 1..Len(stack[n].value.values) + 1
                 /\ stack[n].nodesCount \in Nat /\ stack[n].fieldsCount \in Int
      <4>1. stack # <<>> /\ n \in 1..Len(stack)
        BY <1>1 DEF IInv, Types
      <4>2. Calls(stack) /\ CallsNested(stack) /\ tree \in Trees /\ CallGood(tree, stack[n])
        BY <1>1, <4>1, Reads
      <4>3. stack[n] \in Frames /\ IsCall(stack[n])
        BY <4>1, <4>2, CallsShape
      <4>4. stack[n].kind \in {"array", "object"} /\ stack[n].fieldsCount \in Int
        BY <4>3, FrameShape
      <4>5. stack[n].nodesCount \in Nat
        BY <4>2, <4>4, CountsInt DEF CallGood
      <4> QED BY <4>3, <4>4, <4>5 DEF IsCall
    <3> QED BY <3>1
  <2>2. Len(trail) <= Len(stack) /\ \A n \in DOMAIN trail : trail[n][1] \in 1..arrays /\ trail[n][2] \in Nat
    <3>1. CASE stack = <<>>
      BY <1>1, <3>1 DEF IInv, TrailsFit
    <3>2. CASE stack # <<>>
      <4>1. /\ Top.trail \in Trails /\ trail \in Trails /\ Fits(opened, Top.trail, Top.at)
            /\ Len(Top.trail) <= Len(stack) - 1 /\ Len(Top.trail) \in Nat
        BY <1>1, <3>2, TrailTop
      <4>2. Seen(opened, Top, trail) /\ Len(stack) \in Nat
        BY <1>1, <3>2, Reads
      <4>3. DOMAIN opened = 1..arrays
        BY <1>1, LenProperties DEF IInv, Types
      <4>4. \A n \in DOMAIN Top.trail : Top.trail[n][1] \in 1..arrays
        BY <4>1, <4>3 DEF Fits
      <4>5. \A n \in DOMAIN trail : trail[n][2] \in Nat
        <5>1. trail \in Seq(Nat \X Nat) /\ DOMAIN trail = 1..Len(trail)
          BY <4>1, LenProperties DEF Trails
        <5>2. \A n \in DOMAIN trail : trail[n] \in Nat \X Nat
          BY <5>1, ElementOfSeq
        <5> QED BY <5>2
      <4>6. CASE Top.kind = "object"
        <5>1. trail = Top.trail
          BY <4>2, <4>6 DEF Seen
        <5>2. Len(trail) <= Len(stack)
          BY <4>1, <4>2, <5>1
        <5> QED BY <4>4, <4>5, <5>1, <5>2
      <4>7. CASE Top.kind = "array"
        <5>1. PICK a \in DOMAIN opened :
                a \in Nat /\ opened[a] = Top.at /\ trail = Append(Top.trail, <<a, Top.next - 1>>)
          BY <4>2, <4>3, <4>7 DEF Seen
        <5>2. PICK front, k : front = Top.trail /\ k = Top.next - 1
          OBVIOUS
        <5>3. k \in Nat
          <6>1. Top \in Frames /\ IsCall(Top)
            BY <1>1, <3>2, Reads
          <6>2. Top.next \in Nat /\ Top.next >= 1
            BY <6>1, FrameShape
          <6> QED BY <5>2, <6>2
        <5>4. /\ Len(trail) = Len(front) + 1 /\ trail[Len(trail)] = <<a, k>>
              /\ \A n \in 1..Len(front) : trail[n] = front[n]
              /\ DOMAIN front = 1..Len(front) /\ DOMAIN trail = 1..Len(trail) /\ Len(front) \in Nat
          <6>1. front \in Seq(Nat \X Nat) /\ <<a, k>> \in Nat \X Nat
            BY <4>1, <5>1, <5>2, <5>3 DEF Trails
          <6>2. trail = Append(front, <<a, k>>)
            BY <5>1, <5>2
          <6>3. PICK x : x = <<a, k>>
            OBVIOUS
          <6> QED BY <6>1, <6>2, <6>3, AppendSeq
        <5>5. Len(trail) <= Len(stack)
          BY <4>1, <4>2, <5>2, <5>4
        <5>6. ASSUME NEW n \in DOMAIN trail PROVE trail[n][1] \in 1..arrays
          <6>1. CASE n = Len(trail)
            BY <4>3, <5>1, <5>4, <6>1
          <6>2. CASE n # Len(trail)
            <7>1. n \in DOMAIN front /\ trail[n] = front[n]
              BY <5>4, <6>2
            <7> QED BY <4>4, <5>2, <7>1
          <6> QED BY <6>1, <6>2
        <5> QED BY <4>5, <5>5, <5>6
      <4>8. Top.kind \in {"array", "object"}
        BY <1>1, <3>2, Reads, FrameShape
      <4> QED BY <4>6, <4>7, <4>8
    <3> QED BY <3>1, <3>2
  <2>3. \A n \in DOMAIN fields : fields[n].path \in tree \cup {NoPath}
    <3>1. fields \in Seq(FieldsOver(tree)) /\ DOMAIN fields = 1..Len(fields)
      BY <1>1, LenProperties DEF IInv, Types
    <3>2. \A n \in DOMAIN fields : fields[n] \in FieldsOver(tree)
      BY <3>1, ElementOfSeq
    <3> QED BY <3>2 DEF FieldsOver
  <2>4. status \in {"reading", "stopped", "ended"}
    BY <1>1 DEF IInv, Types
  <2> QED BY <2>1, <2>2, <2>3, <2>4 DEF TypeOK
<1> QED BY <1>1, FlattenerInvariant, PTL

-----------------------------------------------------------------------------
(* Trails that fit their places conflict just when these are apart.        *)
LEMMA ConflictIsApart ==
  ASSUME NEW os \in Seq(Places), \A a, b \in DOMAIN os : os[a] = os[b] => a = b,
         NEW p \in Places, NEW q \in Places,
         NEW s, NEW t, Fits(os, s, p), Fits(os, t, q)
  PROVE  Conflict(s, t) <=> Apart(p, q)
<1>1. DOMAIN p = 1..Len(p) /\ DOMAIN q = 1..Len(q) /\ Len(p) \in Nat /\ Len(q) \in Nat
  BY LenProperties DEF Places
<1>2. ASSUME Conflict(s, t) PROVE Apart(p, q)
  <2>1. PICK i \in DOMAIN s, j \in DOMAIN t : s[i][1] = t[j][1] /\ s[i][2] # t[j][2]
    BY <1>2 DEF Conflict
  <2>2. PICK k \in DOMAIN p : Through(os, s[i], p, k)
    BY <2>1 DEF Fits
  <2>3. PICK l \in DOMAIN q : Through(os, t[j], q, l)
    BY <2>1 DEF Fits
  <2>4. PICK o : o = os[s[i][1]]
    OBVIOUS
  <2>5. /\ p[k].in = "array" /\ p[k].key = s[i][2] /\ Len(o) = k - 1 /\ \A n \in 1..k - 1 : o[n] = p[n]
        /\ q[l].in = "array" /\ q[l].key = t[j][2] /\ Len(o) = l - 1 /\ \A n \in 1..l - 1 : o[n] = q[n]
    BY <2>1, <2>2, <2>3, <2>4 DEF Through, Encloses
  <2>6. k = l
    BY <1>1, <2>5
  <2> QED BY <2>1, <2>5, <2>6 DEF Apart
<1>3. ASSUME Apart(p, q) PROVE Conflict(s, t)
  <2>1. PICK k \in DOMAIN p \cap DOMAIN q :
          /\ \A n \in 1..k - 1 : p[n] = q[n]
          /\ p[k].in = "array" /\ q[k].in = "array" /\ p[k].key # q[k].key
    BY <1>3 DEF Apart
  <2>2. PICK i \in DOMAIN s : Through(os, s[i], p, k)
    BY <2>1 DEF Fits
  <2>3. PICK j \in DOMAIN t : Through(os, t[j], q, k)
    BY <2>1 DEF Fits
  <2>4. s[i][1] \in DOMAIN os /\ t[j][1] \in DOMAIN os
    BY <2>2, <2>3 DEF Fits
  <2>5. PICK a, b : a = s[i][1] /\ b = t[j][1]
    OBVIOUS
  <2>6. /\ p[k].key = s[i][2] /\ Len(os[a]) = k - 1 /\ \A n \in 1..k - 1 : os[a][n] = p[n]
        /\ q[k].key = t[j][2] /\ Len(os[b]) = k - 1 /\ \A n \in 1..k - 1 : os[b][n] = q[n]
    BY <2>2, <2>3, <2>5 DEF Through, Encloses
  <2>7. os[a] \in Places /\ os[b] \in Places
    BY <2>4, <2>5, LenProperties, ElementOfSeq
  <2>8. os[a] = os[b]
    <3>1. PICK u, v : u = os[a] /\ v = os[b]
      OBVIOUS
    <3>2. u \in Seq(Steps) /\ v \in Seq(Steps) /\ Len(u) = Len(v) /\ \A n \in 1..Len(u) : u[n] = v[n]
      BY <2>1, <2>6, <2>7, <3>1 DEF Places
    <3> QED BY <3>1, <3>2, SeqEqual
  <2>9. a = b
    BY <2>4, <2>5, <2>8
  <2>10. s[i][1] = t[j][1] /\ s[i][2] # t[j][2]
    BY <2>1, <2>5, <2>6, <2>9
  <2> QED BY <2>2, <2>3, <2>10 DEF Conflict
<1> QED BY <1>2, <1>3

(* What is known of the fields that are stored.                            *)
LEMMA StoredFields ==
  ASSUME IInv, NEW m \in DOMAIN fields, NEW n \in DOMAIN fields
  PROVE  /\ fields[m].at \in Places /\ Named(fields[m].at) /\ Agree(fields[m].at, fields[n].at)
         /\ Conflict(fields[m].trail, fields[n].trail) <=> Apart(fields[m].at, fields[n].at)
<1>1. fields \in Seq(FieldsOver(tree)) /\ DOMAIN fields = 1..Len(fields)
  BY LenProperties DEF IInv, Types
<1>2. fields[m] \in FieldsOver(tree) /\ fields[n] \in FieldsOver(tree)
  BY <1>1, ElementOfSeq
<1>3. fields[m].at \in Places /\ fields[n].at \in Places
  BY <1>2 DEF FieldsOver
<1>4. Named(fields[m].at) /\ Agree(fields[m].at, fields[n].at)
  BY DEF IInv, FieldsAgree, AllAgree
<1>5. Fits(opened, fields[m].trail, fields[m].at) /\ Fits(opened, fields[n].trail, fields[n].at)
  BY DEF IInv, TrailsFit
<1>6. opened \in Seq(Places) /\ \A a, b \in DOMAIN opened : opened[a] = opened[b] => a = b
  BY DEF IInv, Types, OpenedOnce
<1>7. Conflict(fields[m].trail, fields[n].trail) <=> Apart(fields[m].at, fields[n].at)
  BY <1>3, <1>5, <1>6, ConflictIsApart
<1> QED BY <1>3, <1>4, <1>7

(* For every Event, two fields' trails conflict if and only if the fields  *)
(* were read from different elements of one array of it: the array numbers *)
(* and positions that flattenJSON keeps are enough for fieldsMatch's check *)
(* that fields belong to the same elements.                                *)
THEOREM TrailsTellApart == Spec => []TrailsTellElementsApart
<1>1. ASSUME IInv PROVE TrailsTellElementsApart
  BY <1>1, StoredFields DEF TrailsTellElementsApart
<1> QED BY <1>1, FlattenerInvariant, PTL

-----------------------------------------------------------------------------
(* Paths in order: what begins the first and the last begins the second.   *)
LEMMA BelowAt ==
  ASSUME NEW p \in Seq(Int), NEW q \in Seq(Int), Below(p, q)
  PROVE  \E n \in 1..Len(q) : /\ n - 1 <= Len(p) /\ \A i \in 1..n - 1 : p[i] = q[i]
                              /\ n <= Len(p) => p[n] < q[n]
<1>1. PICK n \in 1..Len(q) :
        /\ n - 1 <= Len(p) /\ SubSeq(p, 1, n - 1) = SubSeq(q, 1, n - 1)
        /\ n <= Len(p) => p[n] < q[n]
  BY DEF Below
<1>2. Len(p) \in Nat /\ Len(q) \in Nat /\ n \in Nat
  BY <1>1, LenProperties
<1>3. PICK k : k = n - 1
  OBVIOUS
<1>4. k \in Int /\ k <= Len(p) /\ k <= Len(q) /\ k - 1 + 1 = k
  BY <1>1, <1>2, <1>3
<1>5. (\A i \in 1..k : p[i] \in Int) /\ (\A i \in 1..k : q[i] \in Int)
  BY <1>2, <1>4, ElementOfSeq
<1>6. \A i \in 1..k : SubSeq(p, 1, k)[i] = p[i]
  <2>1. \A i \in 1..k - 1 + 1 : SubSeq(p, 1, k)[i] = p[1 + i - 1]
    BY <1>4, <1>5, SubSeqProperties
  <2> QED BY <1>4, <2>1
<1>7. \A i \in 1..k : SubSeq(q, 1, k)[i] = q[i]
  <2>1. \A i \in 1..k - 1 + 1 : SubSeq(q, 1, k)[i] = q[1 + i - 1]
    BY <1>4, <1>5, SubSeqProperties
  <2> QED BY <1>4, <2>1
<1>8. \A i \in 1..k : p[i] = q[i]
  BY <1>1, <1>3, <1>6, <1>7
<1> QED BY <1>1, <1>3, <1>8

LEMMA Between ==
  ASSUME NEW p \in Seq(Int), NEW q \in Seq(Int), NEW r \in Seq(Int), NEW b \in Seq(Int),
         Below(p, q), Below(q, r), Begins(p, b), Begins(r, b)
  PROVE  Begins(q, b)
<1>1. PICK m \in 1..Len(q) : /\ m - 1 <= Len(p) /\ \A i \in 1..m - 1 : p[i] = q[i]
                             /\ m <= Len(p) => p[m] < q[m]
  BY BelowAt
<1>2. PICK n \in 1..Len(r) : /\ n - 1 <= Len(q) /\ \A i \in 1..n - 1 : q[i] = r[i]
                             /\ n <= Len(q) => q[n] < r[n]
  BY BelowAt
<1>3. /\ Len(b) \in Nat /\ Len(p) \in Nat /\ Len(q) \in Nat /\ Len(r) \in Nat
      /\ Len(b) <= Len(p) /\ Len(b) <= Len(r)
      /\ (\A k \in 1..Len(b) : p[k] = b[k]) /\ (\A k \in 1..Len(b) : r[k] = b[k])
  BY LenProperties DEF Begins
<1>4. CASE m > Len(b)
  BY <1>1, <1>3, <1>4 DEF Begins
<1>5. CASE n > Len(b)
  BY <1>2, <1>3, <1>5 DEF Begins
<1>6. m \in Nat /\ n \in Nat /\ m <= Len(q)
  BY <1>1, <1>2, <1>3
<1>7. ASSUME m <= Len(b), n <= Len(b) PROVE FALSE
  <2>1. p[m] = b[m] /\ p[m] < q[m] /\ r[n] = b[n] /\ m \in Nat /\ n \in Nat
    BY <1>1, <1>2, <1>3, <1>7
  <2>2. q[m] \in Int /\ p[m] \in Int /\ b[n] \in Int /\ b[m] \in Int
    BY <1>1, <1>3, <1>7, <2>1, ElementOfSeq
  <2>3. CASE m < n
    <3>1. q[m] = r[m] /\ r[m] = b[m]
      BY <1>1, <1>2, <1>3, <1>7, <2>1, <2>3
    <3> QED BY <2>1, <2>2, <3>1
  <2>4. CASE n <= m
    <3>1. n <= Len(q) /\ q[n] < r[n]
      <4>1. n <= Len(q)
        BY <1>3, <1>6, <2>4
      <4> QED BY <1>2, <4>1
    <3>2. CASE n < m
      <4>1. p[n] = q[n] /\ p[n] = b[n]
        BY <1>1, <1>2, <1>3, <1>7, <2>1, <3>2
      <4> QED BY <2>1, <2>2, <3>1, <4>1
    <3>3. CASE n = m
      BY <2>1, <2>2, <3>1, <3>3
    <3> QED BY <2>1, <2>4, <3>2, <3>3
  <2> QED BY <2>1, <2>3, <2>4
<1>8. m > Len(b) \/ n > Len(b) \/ (m <= Len(b) /\ n <= Len(b))
  <2>1. PICK c : c = Len(b)
    OBVIOUS
  <2>2. m \in Nat /\ n \in Nat /\ c \in Nat
    BY <1>3, <1>6, <2>1
  <2>3. m > c \/ n > c \/ (m <= c /\ n <= c)
    BY <2>2
  <2> QED BY <2>1, <2>3
<1> QED BY <1>4, <1>5, <1>7, <1>8

(* A place has names, the names at the end begin with those on the way.    *)
LEMMA NamedPlace ==
  ASSUME NEW p \in Places, Named(p), NEW k \in 1..Len(p)
  PROVE  /\ p[k] \in Steps /\ NamesTo(p) \in Seq(Names) /\ Begins(NamesTo(p), p[k].names)
         /\ \A j \in 1..k : Begins(p[k].names, p[j].names)
         /\ NamesBefore(p, k) \in Seq(Names)
         /\ p[k].names = IF p[k].in = "object" THEN Append(NamesBefore(p, k), p[k].key)
                         ELSE NamesBefore(p, k)
<1>1. p \in Seq(Steps) /\ DOMAIN p = 1..Len(p) /\ Len(p) \in Nat
  BY LenProperties DEF Places
<1>2. p # <<>> /\ Len(p) \in 1..Len(p)
  BY <1>1, EmptySeq
<1>3. NamesTo(p) \in Seq(Names) /\ NamesTo(p) = p[Len(p)].names
  BY <1>2, NamesToType
<1>4. Begins(p[Len(p)].names, p[k].names)
  BY <1>1, <1>2 DEF Named
<1>5. /\ \A j \in 1..k : Begins(p[k].names, p[j].names)
      /\ p[k].names = IF p[k].in = "object" THEN Append(NamesBefore(p, k), p[k].key)
                      ELSE NamesBefore(p, k)
  BY <1>1 DEF Named
<1>6. p[k] \in Steps
  BY <1>1, ElementOfSeq
<1>7. NamesBefore(p, k) \in Seq(Names)
  <2>1. CASE k = 1
    BY <2>1 DEF NamesBefore
  <2>2. CASE k # 1
    <3>1. k - 1 \in 1..Len(p)
      BY <1>1, <2>2
    <3>2. p[k - 1] \in Steps
      BY <1>1, <3>1, ElementOfSeq
    <3> QED BY <2>2, <3>2 DEF NamesBefore, Steps
  <2> QED BY <2>1, <2>2
<1> QED BY <1>3, <1>4, <1>5, <1>6, <1>7

LEMMA NamesBeforeSame ==
  ASSUME NEW p, NEW q, NEW k \in Nat, k >= 1, \A j \in 1..k - 1 : p[j] = q[j]
  PROVE  NamesBefore(p, k) = NamesBefore(q, k)
<1>1. CASE k = 1
  BY <1>1 DEF NamesBefore
<1>2. CASE k # 1
  <2>1. p[k - 1] = q[k - 1]
    BY <1>2
  <2> QED BY <1>2, <2>1 DEF NamesBefore
<1> QED BY <1>1, <1>2

(* Two places part at a member: their names differ in its name.            *)
LEMMA MembersDiffer ==
  ASSUME NEW p \in Places, Named(p), NEW q \in Places, Named(q),
         NEW j \in 1..Len(p), j \in 1..Len(q), \A i \in 1..j - 1 : p[i] = q[i],
         p[j].in = "object", q[j].in = "object",
         Begins(NamesTo(p), q[j].names)
  PROVE  p[j].key = q[j].key
<1>1. PICK b, k, l : b = NamesBefore(p, j) /\ k = p[j].key /\ l = q[j].key
  OBVIOUS
<1>2. NamesBefore(q, j) = b
  <2>1. j \in Nat /\ j >= 1
    OBVIOUS
  <2> QED BY <1>1, <2>1, NamesBeforeSame
<1>3. /\ b \in Seq(Names) /\ k \in Int /\ l \in Int
      /\ p[j].names = Append(b, k) /\ q[j].names = Append(b, l)
      /\ Begins(NamesTo(p), p[j].names)
  <2>1. /\ p[j] \in Steps /\ NamesBefore(p, j) \in Seq(Names)
        /\ p[j].names = IF p[j].in = "object" THEN Append(NamesBefore(p, j), p[j].key)
                        ELSE NamesBefore(p, j)
        /\ Begins(NamesTo(p), p[j].names)
    BY NamedPlace
  <2>2. /\ q[j] \in Steps
        /\ q[j].names = IF q[j].in = "object" THEN Append(NamesBefore(q, j), q[j].key)
                        ELSE NamesBefore(q, j)
    BY NamedPlace
  <2>3. p[j].key \in Int /\ q[j].key \in Int
    BY <2>1, <2>2 DEF Steps
  <2> QED BY <1>1, <1>2, <2>1, <2>2, <2>3
<1>4. PICK s, t : s = Append(b, k) /\ t = Append(b, l)
  OBVIOUS
<1>5. /\ Len(b) \in Nat /\ Len(s) = Len(b) + 1 /\ s[Len(b) + 1] = k
      /\ Len(t) = Len(b) + 1 /\ t[Len(b) + 1] = l
  BY <1>3, <1>4, AppendName
<1>6. Begins(NamesTo(p), s) /\ Begins(NamesTo(p), t)
  BY <1>3, <1>4
<1>7. NamesTo(p)[Len(b) + 1] = k /\ NamesTo(p)[Len(b) + 1] = l
  BY <1>5, <1>6 DEF Begins
<1> QED BY <1>1, <1>7

(* Every non-empty set of naturals has a least element: the 0..n of its    *)
(* elements are finite sets, and strict inclusion of those is well-founded. *)
LEMMA LeastNat ==
  ASSUME NEW T, T \subseteq Nat, T # {}
  PROVE  \E x \in T : \A y \in T : x <= y
<1> DEFINE U == {0 .. n : n \in T}
<1>1. U \subseteq FiniteSubsetsOf(Nat) /\ U # {}
  <2>1. \A n \in T : IsFiniteSet(0 .. n) /\ 0 .. n \subseteq Nat
    BY FS_Interval
  <2> QED BY <2>1 DEF FiniteSubsetsOf
<1>2. \E u \in U : \A v \in U : ~ (<<v, u>> \in StrictSubsetOrdering(Nat))
  <2> HIDE DEF U
  <2> QED BY <1>1, FS_StrictSubsetOrderingWellFounded, WFMin
<1>3. PICK x \in T : \A y \in T : ~ (<<0 .. y, 0 .. x>> \in StrictSubsetOrdering(Nat))
  BY <1>2
<1>4. \A y \in T : y < x => <<0 .. y, 0 .. x>> \in StrictSubsetOrdering(Nat)
  BY DEF StrictSubsetOrdering
<1>5. \A y \in T : ~ (y < x)
  BY <1>3, <1>4
<1> QED
  <2> HIDE DEF U
  <2> QED BY <1>5

(* q goes the way of p up to step k - 1, unless they are apart, if its     *)
(* names begin with those p has on the way to step k.                      *)
LEMMA SameWayBetween ==
  ASSUME NEW p \in Places, Named(p), NEW q \in Places, Named(q), Agree(q, p), ~Apart(p, q),
         NEW k \in 1..Len(p), Begins(NamesTo(q), NamesBefore(p, k))
  PROVE  Len(q) >= k - 1 /\ \A i \in 1..k - 1 : q[i] = p[i]
<1>1. DOMAIN p = 1..Len(p) /\ DOMAIN q = 1..Len(q) /\ Len(p) \in Nat /\ Len(q) \in Nat
  BY LenProperties DEF Places
<1> DEFINE T == {i \in 1..k - 1 : Len(q) < i \/ q[i] # p[i]}
<1>2. CASE T = {}
  <2>1. \A i \in 1..k - 1 : ~(Len(q) < i) /\ q[i] = p[i]
    BY <1>2
  <2>2. Len(q) >= k - 1
    BY <1>1, <2>1
  <2> QED BY <2>1, <2>2
<1>3. ASSUME T # {} PROVE FALSE
  <2>1. PICK j \in T : \A i \in T : j <= i
    <3>1. T \subseteq Nat
      OBVIOUS
    <3> HIDE DEF T
    <3> QED BY <1>3, <3>1, LeastNat
  <2>2. /\ j \in 1..k - 1 /\ j \in 1..Len(p) /\ j \in Nat
        /\ Len(q) < j \/ q[j] # p[j]
        /\ \A i \in 1..j - 1 : ~(Len(q) < i) /\ q[i] = p[i]
    BY <1>1, <2>1
  <2>3. Len(q) >= j - 1
    BY <1>1, <2>2
  <2>4. Len(q) >= j /\ q[j].in = p[j].in /\ q[j] # p[j]
    BY <1>1, <2>2, <2>3 DEF Agree
  <2>5. j \in 1..Len(q)
    BY <1>1, <2>2, <2>4
  <2>6. p[j] \in Steps /\ q[j] \in Steps
    BY <2>2, <2>5, NamedPlace
  <2>7. NamesBefore(q, j) = NamesBefore(p, j)
    BY <2>2, NamesBeforeSame
  <2>8. /\ p[j].names = IF p[j].in = "object" THEN Append(NamesBefore(p, j), p[j].key)
                        ELSE NamesBefore(p, j)
        /\ q[j].names = IF q[j].in = "object" THEN Append(NamesBefore(p, j), q[j].key)
                        ELSE NamesBefore(p, j)
    BY <2>2, <2>5, <2>7, NamedPlace
  <2>9. p[j].key # q[j].key
    <3>1. SUFFICES ASSUME p[j].key = q[j].key PROVE FALSE
      OBVIOUS
    <3>2. p[j].names = q[j].names
      BY <2>4, <2>8, <3>1
    <3>3. p[j] = q[j]
      BY <2>4, <2>6, <3>1, <3>2 DEF Steps
    <3> QED BY <2>4, <3>3
  <2>10. CASE p[j].in = "array"
    <3>1. Apart(p, q)
      BY <1>1, <2>2, <2>4, <2>5, <2>9, <2>10 DEF Apart
    <3> QED BY <3>1
  <2>11. CASE p[j].in = "object"
    <3>1. k - 1 \in 1..Len(p) /\ k # 1 /\ j \in 1..k - 1
      BY <1>1, <2>2
    <3>2. NamesBefore(p, k) = p[k - 1].names
      BY <3>1 DEF NamesBefore
    <3>3. Begins(NamesBefore(p, k), p[j].names) /\ p[k - 1] \in Steps
      BY <3>1, <3>2, NamedPlace
    <3>4. Begins(NamesTo(q), p[j].names)
      <4>1. Len(NamesTo(q)) \in Nat /\ Len(NamesBefore(p, k)) \in Nat /\ Len(p[j].names) \in Nat
        BY <2>6, NamedPlace, NamesToType, LenProperties DEF Steps
      <4> QED BY <3>3, <4>1, BeginsTransitive
    <3>5. q[j].key = p[j].key
      BY <2>2, <2>4, <2>5, <2>11, <3>4, MembersDiffer
    <3> QED BY <2>9, <3>5
  <2>12. p[j].in \in {"array", "object"}
    BY <2>6 DEF Steps
  <2> QED BY <2>10, <2>11, <2>12
<1> QED BY <1>2, <1>3

(* Of three fields in the order of their paths the one in between is apart *)
(* from one of the others, if these are apart.                             *)
LEMMA ApartInBetween ==
  ASSUME NEW p \in Places, Named(p), NEW q \in Places, Named(q), NEW r \in Places, Named(r),
         Agree(q, p), Below(NamesTo(p), NamesTo(q)), Below(NamesTo(q), NamesTo(r)), Apart(p, r)
  PROVE  Apart(p, q) \/ Apart(q, r)
<1> SUFFICES ASSUME ~Apart(p, q) PROVE Apart(q, r)
  OBVIOUS
<1>1. /\ DOMAIN p = 1..Len(p) /\ DOMAIN q = 1..Len(q) /\ DOMAIN r = 1..Len(r)
      /\ Len(p) \in Nat /\ Len(q) \in Nat /\ Len(r) \in Nat
  BY LenProperties DEF Places
<1>2. PICK k \in DOMAIN p \cap DOMAIN r :
        /\ \A n \in 1..k - 1 : p[n] = r[n]
        /\ p[k].in = "array" /\ r[k].in = "array" /\ p[k].key # r[k].key
  BY DEF Apart
<1>3. k \in 1..Len(p) /\ k \in 1..Len(r) /\ k \in Nat /\ k >= 1
  BY <1>1, <1>2
<1>4. PICK b : b = NamesBefore(p, k)
  OBVIOUS
<1>5. NamesBefore(r, k) = b
  BY <1>2, <1>3, <1>4, NamesBeforeSame
<1>6. p[k].names = b /\ r[k].names = b
  BY <1>2, <1>3, <1>4, <1>5, NamedPlace
<1>7. /\ Begins(NamesTo(p), b) /\ Begins(NamesTo(r), b) /\ b \in Seq(Names)
  BY <1>3, <1>4, <1>6, NamedPlace
<1>8. Begins(NamesTo(q), b)
  <2>1. /\ NamesTo(p) \in Seq(Names) /\ NamesTo(q) \in Seq(Names) /\ NamesTo(r) \in Seq(Names)
    BY NamesToType
  <2>2. /\ NamesTo(p) \in Seq(Int) /\ NamesTo(q) \in Seq(Int) /\ NamesTo(r) \in Seq(Int)
        /\ b \in Seq(Int)
    BY <1>7, <2>1, SeqMonotonic, JsonAssumption
  <2> QED BY <1>7, <2>2, Between
<1>9. Len(q) >= k - 1 /\ \A i \in 1..k - 1 : q[i] = p[i]
  BY <1>3, <1>4, <1>8, SameWayBetween
<1>10. Len(q) >= k /\ q[k].in = "array"
  BY <1>2, <1>3, <1>9 DEF Agree
<1>11. k \in DOMAIN q
  BY <1>1, <1>3, <1>10
<1>12. q[k].key = p[k].key
  BY <1>2, <1>9, <1>10, <1>11 DEF Apart
<1> QED BY <1>2, <1>9, <1>10, <1>11, <1>12 DEF Apart

(* tryToMatch compares the trail of a field only with those of the fields  *)
(* next to it in path order.  Whatever the Event, that loses nothing: if   *)
(* the trails of neighbours do not conflict then no two of them do.  This  *)
(* is TrailAssumption of Patterns, for the fields flattenJSON makes.       *)
THEOREM NeighboursSuffice == Spec => []ConsecutiveTrailsSuffice
<1>1. ASSUME IInv PROVE ConsecutiveTrailsSuffice
  <2> SUFFICES ASSUME NEW l \in Stored, NEW m \in Stored, NEW n \in Stored,
                      InPlace(fields[l]), InPlace(fields[m]), InPlace(fields[n]),
                      Below(fields[l].path, fields[m].path), Below(fields[m].path, fields[n].path),
                      ~Conflict(fields[l].trail, fields[m].trail),
                      ~Conflict(fields[m].trail, fields[n].trail)
               PROVE  ~Conflict(fields[l].trail, fields[n].trail)
    BY DEF ConsecutiveTrailsSuffice
  <2>1. l \in DOMAIN fields /\ m \in DOMAIN fields /\ n \in DOMAIN fields
    BY DEF Stored
  <2>2. PICK p, q, r : p = fields[l].at /\ q = fields[m].at /\ r = fields[n].at
    OBVIOUS
  <2>3. /\ p \in Places /\ Named(p) /\ q \in Places /\ Named(q) /\ r \in Places /\ Named(r)
        /\ Agree(q, p) /\ ~Apart(p, q) /\ ~Apart(q, r)
        /\ Conflict(fields[l].trail, fields[n].trail) <=> Apart(p, r)
    BY <1>1, <2>1, <2>2, StoredFields
  <2>4. Below(NamesTo(p), NamesTo(q)) /\ Below(NamesTo(q), NamesTo(r))
    BY <2>2 DEF InPlace
  <2>5. ~Apart(p, r)
    BY <2>3, <2>4, ApartInBetween
  <2> QED BY <2>3, <2>5
<1> QED BY <1>1, FlattenerInvariant, PTL

-----------------------------------------------------------------------------
(* The parts of an event.                                                  *)
Holds(q, n, p) ==
    /\ q.value.kind # "leaf" /\ n \in 1..Len(q.value.values)
    /\ p.value = q.value.values[n] /\ p.at = Append(q.at, StepTo(q.value, q.at, n))

IsEvent(p) == p.at = <<>> /\ p.value = event

LEMMA PartsShape ==
  ASSUME event \in Events
  PROVE  /\ event \in Json /\ event.kind = "object" /\ AtPart(<<>>, event)
         /\ \A p \in Parts[event] :
              /\ p.at \in Places /\ Len(p.at) \in Nat /\ p.value \in Json
              /\ p = [at |-> p.at, value |-> p.value]
              /\ IsEvent(p) \/ \E q \in Parts[event] : \E n \in 1..Len(q.value.values) : Holds(q, n, p)
         /\ \A q \in Parts[event] : q.value.kind # "leaf" =>
              \A n \in 1..Len(q.value.values) :
                 AtPart(Append(q.at, StepTo(q.value, q.at, n)), q.value.values[n])
<1>1. event \in Json /\ event.kind = "object"
  BY JsonAssumption
<1>2. PICK parts : parts = Parts[event]
  OBVIOUS
<1>3. /\ parts \in SUBSET [at : Places, value : Json]
      /\ parts = {[at |-> <<>>, value |-> event]} \cup UNION {Within(p) : p \in parts}
  BY <1>2, PartsAssumption
<1>4. AtPart(<<>>, event)
  BY <1>2, <1>3 DEF AtPart
<1>5. ASSUME NEW p \in parts
      PROVE  /\ p.at \in Places /\ Len(p.at) \in Nat /\ p.value \in Json
             /\ p = [at |-> p.at, value |-> p.value]
  <2>1. p \in [at : Places, value : Json]
    BY <1>3
  <2>2. p.at \in Places /\ p.value \in Json /\ p = [at |-> p.at, value |-> p.value]
    BY <2>1
  <2> QED BY <2>2, LenProperties DEF Places
<1>6. ASSUME NEW q \in parts, q.value.kind # "leaf"
      PROVE  /\ DOMAIN q.value.values = 1..Len(q.value.values)
             /\ Within(q) = {[at |-> Append(q.at, StepTo(q.value, q.at, n)), value |-> q.value.values[n]]
                               : n \in 1..Len(q.value.values)}
  <2>1. DOMAIN q.value.values = 1..Len(q.value.values)
    BY <1>5, <1>6, ValueShape
  <2> QED BY <1>6, <2>1 DEF Within
<1>7. ASSUME NEW q \in parts, q.value.kind # "leaf", NEW n \in 1..Len(q.value.values)
      PROVE  AtPart(Append(q.at, StepTo(q.value, q.at, n)), q.value.values[n])
  <2>1. PICK p : p = [at |-> Append(q.at, StepTo(q.value, q.at, n)), value |-> q.value.values[n]]
    OBVIOUS
  <2>2. p \in Within(q)
    BY <1>6, <1>7, <2>1
  <2>3. p \in parts
    BY <1>3, <2>2
  <2> QED BY <1>2, <2>1, <2>3 DEF AtPart
<1>8. ASSUME NEW p \in parts
      PROVE  IsEvent(p) \/ \E q \in parts : \E n \in 1..Len(q.value.values) : Holds(q, n, p)
  <2>1. p = [at |-> <<>>, value |-> event] \/ \E q \in parts : p \in Within(q)
    BY <1>3
  <2>2. CASE p = [at |-> <<>>, value |-> event]
    BY <2>2 DEF IsEvent
  <2>3. ASSUME NEW q \in parts, p \in Within(q)
        PROVE  \E n \in 1..Len(q.value.values) : Holds(q, n, p)
    <3>1. q.value.kind # "leaf"
      BY <2>3 DEF Within
    <3>2. PICK n \in 1..Len(q.value.values) :
            p = [at |-> Append(q.at, StepTo(q.value, q.at, n)), value |-> q.value.values[n]]
      BY <1>6, <2>3, <3>1
    <3>3. PICK at, v : at = Append(q.at, StepTo(q.value, q.at, n)) /\ v = q.value.values[n]
      OBVIOUS
    <3>4. p.at = at /\ p.value = v
      BY <3>2, <3>3
    <3> QED BY <3>1, <3>2, <3>3, <3>4 DEF Holds
  <2> QED BY <2>1, <2>2, <2>3
<1> QED BY <1>1, <1>2, <1>4, <1>5, <1>7, <1>8

(* What holds of the event, and of what a part holds if it holds of the    *)
(* part, holds of all parts: a shallowest part that it did not hold of     *)
(* would be held by a shallower one.                                       *)
LEMMA AllParts ==
  ASSUME event \in Events, NEW S,
         \A p \in Parts[event] : IsEvent(p) => p \in S,
         \A q \in Parts[event] \cap S, p \in Parts[event] :
           \A n \in 1..Len(q.value.values) : Holds(q, n, p) => p \in S
  PROVE  \A p \in Parts[event] : p \in S
<1> DEFINE T == {Len(p.at) : p \in Parts[event] \ S}
<1> SUFFICES ASSUME T # {} PROVE FALSE
  OBVIOUS
<1>1. PICK x \in T : \A y \in T : x <= y
  <2>1. T \subseteq Nat
    BY PartsShape
  <2> HIDE DEF T
  <2> QED BY <2>1, LeastNat
<1>2. PICK p \in Parts[event] : p \notin S /\ x = Len(p.at)
  BY <1>1
<1>3. PICK q \in Parts[event] : \E n \in 1..Len(q.value.values) : Holds(q, n, p)
  BY <1>2, PartsShape
<1>4. PICK n \in 1..Len(q.value.values) : Holds(q, n, p)
  BY <1>3
<1>5. q \notin S
  BY <1>2, <1>4
<1>6. Len(q.at) \in Nat /\ Len(p.at) = Len(q.at) + 1
  <2>1. q.value \in Json /\ q.at \in Places /\ q.value.kind # "leaf" /\ Len(q.at) \in Nat
    BY <1>4, PartsShape DEF Holds
  <2>2. PICK st, at, r : st = StepTo(q.value, q.at, n) /\ at = q.at /\ r = p.at
    OBVIOUS
  <2>3. st \in Steps
    BY <1>4, <2>1, <2>2, StepToShape
  <2>4. at \in Seq(Steps) /\ r = Append(at, st)
    BY <1>4, <2>1, <2>2 DEF Holds, Places
  <2>5. Len(r) = Len(at) + 1
    BY <2>3, <2>4, AppendSeq
  <2> QED BY <2>1, <2>2, <2>5
<1>7. Len(q.at) >= x
  <2>1. Len(q.at) \in T
    BY <1>5
  <2> HIDE DEF T
  <2> QED BY <1>1, <2>1
<1> QED BY <1>2, <1>6, <1>7

(* The place of a part, and of what it holds.                              *)
LEMMA PartNamed ==
  ASSUME event \in Events
  PROVE  \A p \in Parts[event] : Named(p.at)
<1> DEFINE S == {p \in Parts[event] : Named(p.at)}
<1>1. ASSUME NEW p \in Parts[event], IsEvent(p) PROVE p \in S
  <2>1. Named(<<>>)
    BY DEF Named
  <2> QED BY <1>1, <2>1 DEF IsEvent
<1>2. ASSUME NEW q \in Parts[event] \cap S, NEW p \in Parts[event],
             NEW n \in 1..Len(q.value.values), Holds(q, n, p)
      PROVE  p \in S
  <2>1. q.value \in Json /\ q.at \in Places /\ q.value.kind # "leaf" /\ Named(q.at)
    BY <1>2, PartsShape DEF Holds
  <2>2. PICK st, at, r : st = StepTo(q.value, q.at, n) /\ at = q.at /\ r = p.at
    OBVIOUS
  <2>3. st \in Steps /\ Follows(st, at)
    BY <1>2, <2>1, <2>2, StepToShape
  <2>4. at \in Places /\ Named(at) /\ r = Append(at, st)
    BY <1>2, <2>1, <2>2 DEF Holds
  <2>5. Named(r)
    BY <2>3, <2>4, OneStep
  <2> QED BY <2>2, <2>5
<1>3. \A p \in Parts[event] : p \in S
  <2> HIDE DEF S
  <2> QED BY <1>1, <1>2, AllParts
<1> QED BY <1>3

LEMMA HeldPlace ==
  ASSUME event \in Events, NEW q \in Parts[event], NEW p \in Parts[event],
         NEW n \in 1..Len(q.value.values), Holds(q, n, p), NEW st, st = StepTo(q.value, q.at, n)
  PROVE  /\ Extends(p.at, q.at, st) /\ st \in Steps /\ st.in = q.value.kind
         /\ p.value = q.value.values[n] /\ Follows(st, q.at)
         /\ Len(p.at) \in Nat /\ Len(q.at) \in Nat /\ Begins(p.at, q.at)
         /\ \A i \in 1..Len(q.value.values) : StepTo(q.value, q.at, i) = st => i = n
<1>1. /\ q.value \in Json /\ q.at \in Places /\ q.value.kind # "leaf" /\ Named(q.at)
      /\ Len(p.at) \in Nat /\ Len(q.at) \in Nat
  BY PartsShape, PartNamed DEF Holds
<1>2. PICK at, r : at = q.at /\ r = p.at
  OBVIOUS
<1>3. /\ st \in Steps /\ Follows(st, at) /\ st.in = q.value.kind
      /\ \A i \in 1..Len(q.value.values) : StepTo(q.value, q.at, i) = st => i = n
  BY <1>1, <1>2, StepToShape
<1>4. at \in Places /\ Named(at) /\ r = Append(at, st)
  BY <1>1, <1>2 DEF Holds
<1>5. Extends(r, at, st)
  BY <1>3, <1>4, OneStep
<1>6. Begins(r, at)
  BY <1>1, <1>2, <1>5 DEF Extends, Begins
<1> QED BY <1>1, <1>2, <1>3, <1>5, <1>6 DEF Holds

(* A place has one value.                                                  *)
LEMMA OneValue ==
  ASSUME event \in Events
  PROVE  \A p \in Parts[event] : \A q \in Parts[event] : q.at = p.at => q = p
<1> DEFINE S == {p \in Parts[event] : \A q \in Parts[event] : q.at = p.at => q = p}
<1>1. ASSUME NEW p \in Parts[event], IsEvent(p) PROVE p \in S
  <2> SUFFICES ASSUME NEW q \in Parts[event], q.at = p.at PROVE q = p
    OBVIOUS
  <2>1. q.at = <<>> /\ Len(q.at) = 0
    BY <1>1, PartsShape DEF IsEvent
  <2>2. CASE IsEvent(q)
    BY <1>1, <2>2, PartsShape DEF IsEvent
  <2>3. ASSUME NEW r \in Parts[event], NEW n \in 1..Len(r.value.values), Holds(r, n, q) PROVE FALSE
    <3>1. Extends(q.at, r.at, StepTo(r.value, r.at, n))
      BY <2>3, HeldPlace
    <3> QED BY <2>1, <3>1 DEF Extends
  <2> QED BY <2>2, <2>3, PartsShape
<1>2. ASSUME NEW q \in Parts[event] \cap S, NEW p \in Parts[event],
             NEW n \in 1..Len(q.value.values), Holds(q, n, p)
      PROVE  p \in S
  <2> SUFFICES ASSUME NEW r \in Parts[event], r.at = p.at PROVE r = p
    OBVIOUS
  <2>1. PICK st : st = StepTo(q.value, q.at, n)
    OBVIOUS
  <2>2. /\ Extends(p.at, q.at, st) /\ p.value = q.value.values[n]
        /\ \A i \in 1..Len(q.value.values) : StepTo(q.value, q.at, i) = st => i = n
    BY <1>2, <2>1, HeldPlace
  <2>3. CASE IsEvent(r)
    <3>1. Len(p.at) = 0
      BY <2>3 DEF IsEvent
    <3> QED BY <2>2, <3>1 DEF Extends
  <2>4. ASSUME NEW s \in Parts[event], NEW m \in 1..Len(s.value.values), Holds(s, m, r)
        PROVE  r = p
    <3>1. PICK su : su = StepTo(s.value, s.at, m)
      OBVIOUS
    <3>2. Extends(p.at, s.at, su) /\ r.value = s.value.values[m]
      BY <2>4, <3>1, HeldPlace
    <3>3. PICK a, b, c : a = q.at /\ b = s.at /\ c = p.at
      OBVIOUS
    <3>4. a \in Seq(Steps) /\ b \in Seq(Steps)
      BY <3>3, PartsShape DEF Places
    <3>5. Len(a) = Len(b) /\ \A i \in 1..Len(a) : a[i] = b[i]
      BY <2>2, <3>2, <3>3 DEF Extends
    <3>6. a = b
      BY <3>4, <3>5, SeqEqual
    <3>7. s = q
      BY <1>2, <3>3, <3>6
    <3>8. su = st
      BY <2>2, <3>2, <3>7 DEF Extends
    <3>9. m = n
      BY <2>1, <2>2, <3>1, <3>7, <3>8
    <3>10. r.value = p.value
      BY <2>2, <3>2, <3>7, <3>9
    <3> QED BY <3>10, PartsShape
  <2> QED BY <2>3, <2>4, PartsShape
<1>3. \A p \in Parts[event] : p \in S
  <2> HIDE DEF S
  <2> QED BY <1>1, <1>2, AllParts
<1> QED BY <1>3

(* What lies inside the place of a part is held by that part.              *)
GoesThrough(p, at, v) ==
    /\ v.kind # "leaf" /\ Len(p) > Len(at)
    /\ \E n \in 1..Len(v.values) : p[Len(at) + 1] = StepTo(v, at, n)

LEMMA HeldInside ==
  ASSUME event \in Events, NEW q \in Parts[event], NEW p \in Parts[event], Begins(p.at, q.at)
  PROVE  p = q \/ GoesThrough(p.at, q.at, q.value)
<1> DEFINE S == {r \in Parts[event] : Begins(r.at, q.at) => r = q \/ GoesThrough(r.at, q.at, q.value)}
<1>1. /\ \A r \in Parts[event] : r.at \in Places /\ Len(r.at) \in Nat
      /\ \A r \in Parts[event] : r.at = q.at => r = q
  BY PartsShape, OneValue
<1>2. ASSUME NEW r \in Parts[event], Begins(r.at, q.at), Len(r.at) = Len(q.at) PROVE r = q
  <2>1. PICK a, b : a = r.at /\ b = q.at
    OBVIOUS
  <2>2. a \in Seq(Steps) /\ b \in Seq(Steps) /\ Len(a) = Len(b) /\ \A i \in 1..Len(a) : a[i] = b[i]
    BY <1>1, <1>2, <2>1 DEF Places, Begins
  <2>3. a = b
    BY <2>2, SeqEqual
  <2> QED BY <1>1, <2>1, <2>3
<1>3. ASSUME NEW r \in Parts[event], IsEvent(r) PROVE r \in S
  <2>1. Len(r.at) = 0
    BY <1>3 DEF IsEvent
  <2>2. Begins(r.at, q.at) => Len(r.at) = Len(q.at)
    BY <1>1, <2>1 DEF Begins
  <2> QED BY <1>2, <2>2
<1>4. ASSUME NEW s \in Parts[event] \cap S, NEW r \in Parts[event],
             NEW n \in 1..Len(s.value.values), Holds(s, n, r)
      PROVE  r \in S
  <2> SUFFICES ASSUME Begins(r.at, q.at) PROVE r = q \/ GoesThrough(r.at, q.at, q.value)
    OBVIOUS
  <2>1. PICK st : st = StepTo(s.value, s.at, n)
    OBVIOUS
  <2>2. PICK a, b, c : a = s.at /\ b = r.at /\ c = q.at
    OBVIOUS
  <2>3. Extends(b, a, st) /\ s.value.kind # "leaf" /\ Len(a) \in Nat /\ Len(b) \in Nat /\ Len(c) \in Nat
    BY <1>1, <1>4, <2>1, <2>2, HeldPlace DEF Holds
  <2>4. Begins(b, c)
    BY <2>2
  <2>5. CASE Len(c) > Len(a)
    <3>1. Len(b) = Len(c)
      BY <2>3, <2>4, <2>5 DEF Extends, Begins
    <3> QED BY <1>2, <2>2, <3>1
  <2>6. CASE Len(c) <= Len(a)
    <3>1. /\ Len(b) = Len(a) + 1 /\ b[Len(a) + 1] = st
          /\ (\A k \in 1..Len(a) : b[k] = a[k]) /\ (\A k \in 1..Len(c) : b[k] = c[k])
      BY <2>3, <2>4 DEF Extends, Begins
    <3>2. Begins(a, c)
      BY <2>3, <2>6, <3>1 DEF Begins
    <3>3. CASE s = q
      <4>1. a = c /\ b[Len(c) + 1] = st /\ Len(b) > Len(c)
        BY <2>2, <2>3, <3>1, <3>3
      <4> QED BY <2>1, <2>2, <2>3, <3>3, <4>1 DEF GoesThrough
    <3>4. CASE s # q
      <4>1. GoesThrough(s.at, q.at, q.value)
        BY <1>4, <2>2, <3>2, <3>4
      <4>2. PICK m \in 1..Len(q.value.values) : a[Len(c) + 1] = StepTo(q.value, q.at, m)
        BY <2>2, <4>1 DEF GoesThrough
      <4>3. q.value.kind # "leaf" /\ Len(a) > Len(c)
        BY <2>2, <4>1 DEF GoesThrough
      <4>4. Len(c) + 1 \in 1..Len(a) /\ Len(b) > Len(c)
        BY <2>3, <3>1, <4>3
      <4>5. b[Len(c) + 1] = a[Len(c) + 1]
        BY <3>1, <4>4
      <4> QED BY <2>2, <4>2, <4>3, <4>4, <4>5 DEF GoesThrough
    <3> QED BY <3>3, <3>4
  <2> QED BY <2>3, <2>5, <2>6
<1>5. \A r \in Parts[event] : r \in S
  <2> HIDE DEF S
  <2> QED BY <1>3, <1>4, AllParts
<1> QED BY <1>5

-----------------------------------------------------------------------------
(* Paths and the nodes on the way to them.                                 *)
LEMMA PrefixBegins ==
  ASSUME NEW p \in Seq(Names), NEW node \in Seq(Names)
  PROVE  IsPrefixOf(node, p) <=> Begins(p, node)
<1>1. Len(p) \in Nat /\ Len(node) \in Nat
  BY LenProperties
<1>2. ASSUME Len(node) <= Len(p)
      PROVE  /\ SubSeq(p, 1, Len(node)) \in Seq(Names) /\ Len(SubSeq(p, 1, Len(node))) = Len(node)
             /\ \A i \in 1..Len(node) : SubSeq(p, 1, Len(node))[i] = p[i]
  <2>1. PICK k : k = Len(node)
    OBVIOUS
  <2>2. k \in Nat /\ k <= Len(p)
    BY <1>1, <1>2, <2>1
  <2>3. \A i \in 1..k : p[i] \in Names
    BY <1>1, <2>2, ElementOfSeq
  <2>4. /\ SubSeq(p, 1, k) \in Seq(Names)
        /\ Len(SubSeq(p, 1, k)) = IF 1 <= k THEN k - 1 + 1 ELSE 0
        /\ \A i \in 1..k - 1 + 1 : SubSeq(p, 1, k)[i] = p[1 + i - 1]
    BY <2>2, <2>3, SubSeqProperties
  <2>5. Len(SubSeq(p, 1, k)) = k /\ \A i \in 1..k : SubSeq(p, 1, k)[i] = p[i]
    BY <2>2, <2>4
  <2> QED BY <2>1, <2>4, <2>5
<1>3. ASSUME IsPrefixOf(node, p) PROVE Begins(p, node)
  <2>1. Len(node) <= Len(p) /\ SubSeq(p, 1, Len(node)) = node
    BY <1>3 DEF IsPrefixOf
  <2> QED BY <1>2, <2>1 DEF Begins
<1>4. ASSUME Begins(p, node) PROVE IsPrefixOf(node, p)
  <2>1. Len(node) <= Len(p) /\ \A i \in 1..Len(node) : p[i] = node[i]
    BY <1>4 DEF Begins
  <2>2. PICK q : q = SubSeq(p, 1, Len(node))
    OBVIOUS
  <2>3. q \in Seq(Names) /\ Len(q) = Len(node) /\ \A i \in 1..Len(q) : q[i] = node[i]
    BY <1>2, <2>1, <2>2
  <2>4. q = node
    BY <2>3, SeqEqual
  <2> QED BY <2>1, <2>2, <2>4 DEF IsPrefixOf
<1> QED BY <1>3, <1>4

LEMMA SegmentOf ==
  ASSUME NEW tr \in Trees, NEW node \in Seq(Names), NEW path \in tr, Begins(path, node)
  PROVE  /\ Len(path) = Len(node) + 1 => path[Len(node) + 1] \in FieldsOf(tr, node)
         /\ Len(path) > Len(node) + 1 => path[Len(node) + 1] \in NodesOf(tr, node)
<1>1. path \in Seq(Names)
  BY TreesAssumption
<1>2. IsPrefixOf(node, path)
  BY <1>1, PrefixBegins
<1> QED BY <1>2 DEF FieldsOf, NodesOf

LEMMA PathIsThere ==
  ASSUME NEW tr \in Trees, NEW node \in Seq(Names), NEW segment \in Names,
         NEW a, a = Append(node, segment)
  PROVE  /\ a \in Seq(Names) /\ Len(node) \in Nat /\ Len(a) = Len(node) + 1
         /\ a[Len(node) + 1] = segment /\ Begins(a, node)
         /\ segment \in FieldsOf(tr, node) <=> a \in tr
<1>1. /\ a \in Seq(Names) /\ Len(node) \in Nat /\ Len(a) = Len(node) + 1
      /\ a[Len(a)] = segment /\ \A i \in 1..Len(node) : a[i] = node[i]
  BY AppendSeq
<1>2. Begins(a, node)
  BY <1>1 DEF Begins
<1>3. ASSUME a \in tr PROVE segment \in FieldsOf(tr, node)
  BY <1>1, <1>2, <1>3, SegmentOf
<1>4. ASSUME segment \in FieldsOf(tr, node) PROVE a \in tr
  <2>1. PICK p \in tr : Len(p) = Len(node) + 1 /\ IsPrefixOf(node, p) /\ segment = p[Len(p)]
    BY <1>4 DEF FieldsOf
  <2>2. p \in Seq(Names)
    BY TreesAssumption
  <2>3. Begins(p, node)
    BY <2>1, <2>2, PrefixBegins
  <2>4. ASSUME NEW i \in 1..Len(p) PROVE p[i] = a[i]
    <3>1. CASE i = Len(p)
      BY <1>1, <2>1, <3>1
    <3>2. CASE i # Len(p)
      <4>1. i \in 1..Len(node)
        BY <1>1, <2>1, <3>2
      <4>2. p[i] = node[i]
        BY <2>3, <4>1 DEF Begins
      <4> QED BY <1>1, <4>1, <4>2
    <3> QED BY <3>1, <3>2
  <2>5. p = a
    BY <1>1, <2>1, <2>2, <2>4, SeqEqual
  <2> QED BY <2>5
<1> QED BY <1>1, <1>2, <1>3, <1>4

(* A field that is no node has nothing below it.                           *)
LEMMA NothingBelow ==
  ASSUME NEW tr \in Trees, NEW node \in Seq(Names), NEW segment \in Names,
         NEW a, a = Append(node, segment),
         segment \in FieldsOf(tr, node), segment \notin NodesOf(tr, node)
  PROVE  a \in tr /\ UsedIn(tr, a) = {}
<1>1. /\ a \in Seq(Names) /\ Len(node) \in Nat /\ Len(a) = Len(node) + 1
      /\ a[Len(node) + 1] = segment /\ Begins(a, node) /\ a \in tr
  BY PathIsThere
<1>2. ASSUME NEW x \in UsedIn(tr, a) PROVE FALSE
  <2>1. PICK p \in tr : Len(p) >= Len(a) + 1 /\ IsPrefixOf(a, p)
    <3>1. CASE x \in FieldsOf(tr, a)
      <4>1. PICK p \in tr : Len(p) = Len(a) + 1 /\ IsPrefixOf(a, p)
        BY <3>1 DEF FieldsOf
      <4> QED BY <1>1, <4>1
    <3>2. CASE x \in NodesOf(tr, a)
      <4>1. PICK p \in tr : Len(p) > Len(a) + 1 /\ IsPrefixOf(a, p)
        BY <3>2 DEF NodesOf
      <4>2. Len(p) \in Nat
        BY <4>1, TreesAssumption, LenProperties
      <4> QED BY <1>1, <4>1, <4>2
    <3> QED BY <1>2, <3>1, <3>2 DEF UsedIn
  <2>2. p \in Seq(Names) /\ Len(p) \in Nat
    BY TreesAssumption, LenProperties
  <2>3. Begins(p, a)
    BY <1>1, <2>1, <2>2, PrefixBegins
  <2>4. Begins(p, node)
    BY <1>1, <2>2, <2>3, BeginsTransitive
  <2>5. p[Len(node) + 1] = segment /\ Len(p) > Len(node) + 1
    BY <1>1, <2>1, <2>2, <2>3 DEF Begins
  <2> QED BY <2>4, <2>5, SegmentOf
<1> QED BY <1>1, <1>2

-----------------------------------------------------------------------------
(* The part that a call is at.                                             *)
LEMMA PartHeld ==
  ASSUME event \in Events, NEW f \in Frames, IsCall(f), AtPart(f.at, f.value),
         NEW n \in 1..Len(f.value.values), NEW h, h = Append(f.at, Step(f, n)),
         NEW v, v = f.value.values[n]
  PROVE  /\ AtPart(h, v) /\ h \in Places /\ v \in Json /\ Named(h)
         /\ Extends(h, f.at, Step(f, n)) /\ h # <<>> /\ h[Len(h)].in = f.kind
         /\ f.kind = "object" => /\ f.value.names[n] \in Names
                                 /\ NamesTo(h) = Append(NamesTo(f.at), f.value.names[n])
         /\ f.kind = "array" => NamesTo(h) = NamesTo(f.at)
<1>1. PICK w, at, q, st : /\ w = f.value /\ at = f.at /\ q = [at |-> at, value |-> w]
                          /\ st = Step(f, n)
  OBVIOUS
<1>2. /\ q \in Parts[event] /\ q.at = at /\ q.value = w /\ w.kind = f.kind /\ w.kind # "leaf"
      /\ at \in Places /\ w \in Json
  BY <1>1, FrameShape DEF AtPart
<1>3. st = StepTo(q.value, q.at, n) /\ v = q.value.values[n] /\ h = Append(q.at, st)
      /\ n \in 1..Len(q.value.values)
  BY <1>1, <1>2 DEF Step
<1>4. AtPart(h, v)
  BY <1>2, <1>3, PartsShape
<1>5. PICK p : p = [at |-> h, value |-> v]
  OBVIOUS
<1>6. p \in Parts[event] /\ p.at = h /\ p.value = v
  BY <1>4, <1>5 DEF AtPart
<1>7. /\ h \in Places /\ v \in Json /\ Named(h)
  BY <1>6, PartsShape, PartNamed
<1>8. Holds(q, n, p)
  BY <1>2, <1>3, <1>6 DEF Holds
<1>9. Extends(h, at, st) /\ st.in = f.kind /\ Follows(st, at)
  <2>1. PICK held : held = StepTo(q.value, q.at, n)
    OBVIOUS
  <2>2. Extends(p.at, q.at, held) /\ held.in = q.value.kind /\ Follows(held, q.at)
    <3>1. q \in Parts[event] /\ p \in Parts[event] /\ n \in 1..Len(q.value.values)
      BY <1>2, <1>3, <1>6
    <3> QED BY <1>8, <2>1, <3>1, HeldPlace
  <2> QED BY <1>2, <1>3, <1>6, <2>1, <2>2
<1>10. h # <<>> /\ NamesTo(h) = st.names /\ h[Len(h)].in = f.kind
  <2>1. Len(h) = Len(at) + 1 /\ h[Len(at) + 1] = st /\ Len(at) \in Nat
    BY <1>9 DEF Extends
  <2>2. h # <<>>
    BY <2>1, EmptySeq
  <2> QED BY <1>7, <1>9, <2>1, <2>2, NamesToType
<1>11. ASSUME f.kind = "object"
       PROVE  f.value.names[n] \in Names /\ NamesTo(h) = Append(NamesTo(at), f.value.names[n])
  <2>1. w.names \in Seq(Names) /\ DOMAIN w.names = 1..Len(w.values)
    BY <1>2, <1>11, ValueShape
  <2>2. w.names[n] \in Names
    BY <1>1, <2>1, LenProperties, ElementOfSeq
  <2>3. st.key = w.names[n]
    BY <1>1, <1>11, StepShape
  <2> QED BY <1>1, <1>9, <1>10, <1>11, <2>2, <2>3 DEF Follows
<1>12. f.kind = "array" => NamesTo(h) = NamesTo(at)
  BY <1>9, <1>10 DEF Follows
<1> QED BY <1>1, <1>4, <1>7, <1>9, <1>10, <1>11, <1>12

(* A leaf in the part at h is that part, or goes on from it.               *)
LEMMA LeafWithin ==
  ASSUME event \in Events, NEW l \in Leaves, NEW h, NEW v, AtPart(h, v), Begins(l.at, h)
  PROVE  /\ l.at \in Places /\ Named(l.at) /\ Len(l.at) \in Nat
         /\ v.kind = "leaf" => l.at = h
         /\ v.kind # "leaf" => GoesThrough(l.at, h, v)
<1>1. PICK q : q = [at |-> h, value |-> v]
  OBVIOUS
<1>2. q \in Parts[event] /\ q.at = h /\ q.value = v
  BY <1>1 DEF AtPart
<1>3. l \in Parts[event] /\ l.value.kind = "leaf"
  BY DEF Leaves
<1>4. l = q \/ GoesThrough(l.at, h, v)
  BY <1>2, <1>3, HeldInside
<1>5. l.at \in Places /\ Named(l.at) /\ Len(l.at) \in Nat
  BY <1>3, PartsShape, PartNamed
<1>6. v.kind = "leaf" => l.at = h
  BY <1>2, <1>4 DEF GoesThrough
<1>7. v.kind # "leaf" => GoesThrough(l.at, h, v)
  BY <1>2, <1>3, <1>4
<1> QED BY <1>2, <1>5, <1>6, <1>7 DEF GoesThrough

(* The name of a member that a wanted leaf lies in is in the tree below    *)
(* the node of the object: a node if the member is an object.              *)
LEMMA WantedIsUsed ==
  ASSUME event \in Events, tree \in Trees, NEW f \in Frames, IsCall(f), AtPart(f.at, f.value),
         f.kind = "object", f.node = NamesTo(f.at),
         NEW n \in 1..Len(f.value.values), NEW h, h = Append(f.at, Step(f, n)),
         NEW v, v = f.value.values[n], NEW l \in Wanted, Begins(l.at, h)
  PROVE  /\ f.value.names[n] \in UsedIn(tree, f.node)
         /\ v.kind = "object" => f.value.names[n] \in NodesOf(tree, f.node)
<1>1. PICK node, name, a, path : /\ node = f.node /\ name = f.value.names[n]
                                 /\ a = NamesTo(h) /\ path = NamesTo(l.at)
  OBVIOUS
<1>2. /\ AtPart(h, v) /\ h \in Places /\ Named(h) /\ h # <<>> /\ v \in Json
      /\ Extends(h, f.at, Step(f, n)) /\ name \in Names /\ a = Append(node, name)
  BY <1>1, PartHeld
<1>3. l \in Leaves /\ path \in tree
  BY <1>1 DEF Wanted
<1>4. /\ l.at \in Places /\ Named(l.at) /\ Len(l.at) \in Nat
      /\ v.kind # "leaf" => GoesThrough(l.at, h, v)
  BY <1>2, <1>3, LeafWithin
<1>5. node \in Seq(Names) /\ path \in Seq(Names) /\ Len(path) \in Nat
  BY <1>1, <1>3, FrameShape, TreesAssumption, LenProperties
<1>6. /\ a \in Seq(Names) /\ Len(node) \in Nat /\ Len(a) = Len(node) + 1
      /\ a[Len(node) + 1] = name /\ Begins(a, node)
  BY <1>2, <1>5, PathIsThere
<1>7. Len(h) \in 1..Len(h) /\ a = h[Len(h)].names /\ Len(h) \in 1..Len(l.at)
      /\ l.at[Len(h)] = h[Len(h)] /\ Len(h) \in Nat
  <2>1. Len(h) \in Nat \ {0} /\ a = h[Len(h)].names
    BY <1>1, <1>2, EmptySeq, NamesToType DEF Places, Extends
  <2> QED BY <1>4, <2>1 DEF Begins
<1>8. Begins(path, a)
  <2>1. PICK k, p : k = Len(h) /\ p = l.at
    OBVIOUS
  <2>2. Begins(NamesTo(p), p[k].names)
    BY <1>4, <1>7, <2>1, NamedPlace
  <2> QED BY <1>1, <1>7, <2>1, <2>2
<1>9. Begins(path, node) /\ Len(path) >= Len(node) + 1 /\ path[Len(node) + 1] = name
  <2>1. Begins(path, node)
    BY <1>5, <1>6, <1>8, BeginsTransitive
  <2> QED BY <1>5, <1>6, <1>8, <2>1 DEF Begins
<1>10. name \in UsedIn(tree, node)
  <2>1. CASE Len(path) = Len(node) + 1
    BY <1>3, <1>5, <1>9, <2>1, SegmentOf DEF UsedIn
  <2>2. CASE Len(path) > Len(node) + 1
    BY <1>3, <1>5, <1>9, <2>2, SegmentOf DEF UsedIn
  <2> QED BY <1>5, <1>6, <1>9, <2>1, <2>2
<1>11. ASSUME v.kind = "object" PROVE name \in NodesOf(tree, node)
  <2>1. /\ Len(l.at) > Len(h)
        /\ \E i \in 1..Len(v.values) : l.at[Len(h) + 1] = StepTo(v, h, i)
    BY <1>4, <1>11 DEF GoesThrough
  <2>2. PICK i \in 1..Len(v.values) : l.at[Len(h) + 1] = StepTo(v, h, i)
    BY <2>1
  <2>3. PICK st, k, p, b, key : st = StepTo(v, h, i) /\ k = Len(h) + 1 /\ p = l.at /\ b = st.names
                                /\ key = st.key
    OBVIOUS
  <2>4. st.in = "object" /\ Follows(st, h) /\ st \in Steps
    BY <1>2, <1>11, <2>3, StepToShape
  <2>5. b = Append(a, key) /\ key \in Int
    BY <1>1, <2>3, <2>4 DEF Follows, Steps
  <2>6. Len(b) = Len(a) + 1
    BY <1>6, <2>5, AppendName
  <2>7. p[k] = st /\ k \in 1..Len(p) /\ p \in Places /\ Named(p)
    BY <1>4, <1>7, <2>1, <2>2, <2>3
  <2>8. Begins(path, b)
    <3>1. Begins(NamesTo(p), p[k].names)
      BY <2>7, NamedPlace
    <3> QED BY <1>1, <2>3, <2>7, <3>1
  <2>9. Len(path) > Len(node) + 1
    BY <1>5, <1>6, <2>6, <2>8 DEF Begins
  <2> QED BY <1>3, <1>5, <1>9, <2>9, SegmentOf
<1> QED BY <1>1, <1>10, <1>11

-----------------------------------------------------------------------------
(* What is ahead of the calls stays ahead of them until they come to it.   *)
LEMMA AheadGoneOn ==
  ASSUME NEW s, Calls(s), CallsNested(s), NEW h, IsHere(h, s),
         NEW f, Advances(f, s[1]), NEW t, GoneOn(s, h, f, t),
         NEW p, Ahead(s, p)
  PROVE  Ahead(t, p) \/ Begins(p, h)
<1>1. /\ Len(s) \in Nat \ {0} /\ DOMAIN s = 1..Len(s) /\ 1 \in 1..Len(s)
      /\ Len(t) = Len(s) /\ t[1] = f /\ (\A n \in 2..Len(s) : t[n] = s[n]) /\ DOMAIN t = 1..Len(t)
  BY CallsShape DEF IsHere, GoneOn
<1>2. PICK n \in 1..Len(s) : AheadOf(s[n], p)
  BY <1>1 DEF Ahead
<1>3. CASE n # 1
  <2>1. n \in 2..Len(s) /\ n \in DOMAIN t
    BY <1>1, <1>3
  <2>2. t[n] = s[n]
    BY <1>1, <2>1
  <2> QED BY <1>2, <2>1, <2>2 DEF Ahead
<1>4. CASE n = 1
  <2>1. PICK c : c = s[1]
    OBVIOUS
  <2>2. c \in Frames /\ IsCall(c)
    BY <1>1, <2>1, CallsShape
  <2>3. PICK i \in c.next..Len(c.value.values) :
          Begins(p, c.at) /\ Len(p) > Len(c.at) /\ p[Len(c.at) + 1] = Step(c, i)
    BY <1>2, <1>4, <2>1 DEF AheadOf
  <2>4. c.next \in Nat /\ Len(c.value.values) \in Nat /\ Len(c.at) \in Nat
    BY <2>2, FrameShape
  <2>5. CASE i = c.next
    <3>1. /\ Len(h) = Len(s) /\ Begins(h, c.at) /\ h[Len(c.at) + 1] = Step(c, c.next)
      <4>1. Part(s, 1) = c.next
        BY <2>1 DEF Part
      <4> QED BY <1>1, <2>1, <4>1, HereShape
    <3>2. Len(c.at) = Len(s) - 1
      BY <1>1, <2>1, CallsShape
    <3>3. PICK at : at = c.at
      OBVIOUS
    <3>4. /\ Len(h) = Len(at) + 1 /\ p[Len(at) + 1] = h[Len(at) + 1] /\ Len(at) \in Nat
          /\ Len(p) > Len(at)
          /\ (\A k \in 1..Len(at) : p[k] = at[k]) /\ (\A k \in 1..Len(at) : h[k] = at[k])
      <4>1. Begins(p, at) /\ Begins(h, at)
        BY <2>3, <3>1, <3>3
      <4>2. PICK m : m = Len(at)
        OBVIOUS
      <4>3. /\ p[m + 1] = h[m + 1] /\ Len(h) = Len(s) /\ m = Len(s) - 1 /\ Len(s) \in Nat
            /\ Len(p) > m /\ m \in Nat
        BY <1>1, <2>3, <2>4, <2>5, <3>1, <3>2, <3>3, <4>2
      <4>4. Len(h) = m + 1
        BY <4>3
      <4> QED BY <4>1, <4>2, <4>3, <4>4 DEF Begins
    <3>5. Len(h) <= Len(p)
      BY <2>3, <3>3, <3>4 DEF Begins
    <3>6. \A k \in 1..Len(h) : k \in 1..Len(at) \/ k = Len(at) + 1
      BY <3>4
    <3>7. \A k \in 1..Len(h) : p[k] = h[k]
      BY <3>4, <3>6
    <3> QED BY <3>5, <3>7 DEF Begins
  <2>6. CASE i # c.next
    <3>1. f.next = c.next + 1 /\ f.value = c.value /\ f.at = c.at
      BY <2>1 DEF Advances
    <3>2. i \in f.next..Len(f.value.values)
      BY <2>3, <2>4, <2>6, <3>1
    <3>3. Step(f, i) = Step(c, i)
      BY <3>1 DEF Step
    <3>4. AheadOf(f, p)
      BY <2>3, <3>1, <3>2, <3>3 DEF AheadOf
    <3> QED BY <1>1, <3>4 DEF Ahead
  <2> QED BY <2>5, <2>6
<1> QED BY <1>3, <1>4

LEMMA AheadGoneInto ==
  ASSUME NEW s, Calls(s), CallsNested(s), NEW h, IsHere(h, s),
         NEW f, Advances(f, s[1]), NEW g, g.at = h, g.next = 1,
         NEW u, u = <<g, f>> \o Tail(s), GoneInto(s, h, f, g, u),
         NEW p, Len(h) \in Nat, Ahead(s, p), Begins(p, h) => GoesThrough(p, h, g.value)
  PROVE  Ahead(u, p)
<1>1. s \in Seq(Frames) /\ s # <<>> /\ f \in Frames
  BY DEF Calls, IsHere, Advances
<1>2. /\ DOMAIN u = 1..Len(s) + 1 /\ Len(s) \in Nat \ {0}
      /\ u[1] = g /\ u[2] = f /\ \A n \in 3..Len(s) + 1 : u[n] = s[n - 1]
  BY <1>1, CallsShape, LenProperties DEF GoneInto, Calls
<1>3. PICK t : t = <<f>> \o Tail(s)
  OBVIOUS
<1>4. GoneOn(s, h, f, t)
  BY <1>3, AdvanceCalls
<1>5. Ahead(t, p) \/ Begins(p, h)
  BY <1>4, AheadGoneOn
<1>6. CASE Ahead(t, p)
  <2>1. Len(t) = Len(s) /\ t[1] = f /\ (\A n \in 2..Len(s) : t[n] = s[n]) /\ DOMAIN t = 1..Len(t)
    BY <1>4, CallsShape DEF GoneOn
  <2>2. PICK n \in 1..Len(s) : AheadOf(t[n], p)
    BY <1>6, <2>1 DEF Ahead
  <2>3. n + 1 \in DOMAIN u /\ u[n + 1] = t[n]
    <3>1. CASE n = 1
      BY <1>2, <2>1, <3>1
    <3>2. CASE n # 1
      <4>1. n \in 2..Len(s) /\ n + 1 \in 3..Len(s) + 1 /\ (n + 1) - 1 = n
        BY <1>2, <3>2
      <4> QED BY <1>2, <2>1, <4>1
    <3> QED BY <3>1, <3>2
  <2>4. PICK k : k = n + 1
    OBVIOUS
  <2>5. k \in DOMAIN u /\ AheadOf(u[k], p)
    BY <2>2, <2>3, <2>4
  <2> QED BY <2>5 DEF Ahead
<1>7. CASE Begins(p, h)
  <2>1. PICK i \in 1..Len(g.value.values) : p[Len(h) + 1] = StepTo(g.value, h, i)
    BY <1>7 DEF GoesThrough
  <2>2. Len(p) > Len(h)
    BY <1>7 DEF GoesThrough
  <2>3. i \in g.next..Len(g.value.values) /\ p[Len(g.at) + 1] = Step(g, i)
    BY <2>1 DEF Step
  <2>4. AheadOf(g, p)
    BY <1>7, <2>2, <2>3 DEF AheadOf
  <2> QED BY <1>2, <2>4 DEF Ahead
<1> QED BY <1>5, <1>6, <1>7

LEMMA AheadGoneBack ==
  ASSUME NEW s, Calls(s), CallsNested(s), s # <<>>, NEW t, GoneBack(s, t),
         NEW p, Ahead(s, p)
  PROVE  Ahead(t, p) \/ AheadOf(s[1], p)
<1>1. /\ Len(s) \in Nat \ {0} /\ DOMAIN s = 1..Len(s) /\ Len(t) = Len(s) - 1
      /\ DOMAIN t = 1..Len(t) /\ \A n \in 1..Len(t) : t[n] = s[n + 1]
  BY CallsShape, LenProperties DEF GoneBack, Calls
<1>2. PICK n \in 1..Len(s) : AheadOf(s[n], p)
  BY <1>1 DEF Ahead
<1>3. CASE n # 1
  <2>1. PICK k : k = n - 1
    OBVIOUS
  <2>2. k \in DOMAIN t /\ k + 1 = n
    BY <1>1, <1>3, <2>1
  <2>3. AheadOf(t[k], p)
    BY <1>1, <1>2, <2>2
  <2> QED BY <2>2, <2>3 DEF Ahead
<1> QED BY <1>2, <1>3

-----------------------------------------------------------------------------
(* A call and a field as the event and the tree have them.                 *)
CallRight(f) == AtPart(f.at, f.value) /\ (Plain => InItsNode(f))

FieldRight(x) == (\E l \in Leaves : l.at = x.at) /\ (Plain => x.path = PathAt(x.at))

StoredIn(flds, p) == \E n \in DOMAIN flds : flds[n].at = p

(* What every step leaves to be shown.                                     *)
LEMMA RightTogether ==
  ASSUME YInv, event' = event, tree' = tree,
         \A n \in DOMAIN stack' : CallRight(stack'[n]),
         \A n \in DOMAIN fields' : FieldRight(fields'[n]),
         \A m, n \in DOMAIN fields' : fields'[m].at = fields'[n].at => m = n,
         Plain => \A l \in Wanted :
           StoredIn(fields', l.at) \/ (status' = "reading" /\ Ahead(stack', l.at))
  PROVE  YInv'
<1>1. Parts[event]' = Parts[event]
  OBVIOUS
<1>2. Leaves' = Leaves /\ (Plain' <=> Plain)
  BY <1>1 DEF Leaves, Plain, LeafOnly
<1>3. Wanted' = Wanted
  BY <1>2 DEF Wanted
<1>4. ReadsParts'
  BY <1>1, <1>2 DEF ReadsParts, AtPart, CallRight, FieldRight, YInv
<1>5. StoredOnce'
  BY DEF StoredOnce
<1>6. ASSUME Plain PROVE NodesFollow'
  <2>1. \A n \in DOMAIN stack' : InItsNode(stack'[n])
    BY <1>6 DEF CallRight
  <2>2. \A n \in DOMAIN fields' : fields'[n].path = PathAt(fields'[n].at)
    BY <1>6 DEF FieldRight
  <2> QED BY <2>1, <2>2 DEF NodesFollow, InItsNode, PathAt, LeafOnly
<1>7. ASSUME Plain PROVE NothingMissed'
  BY <1>3, <1>7 DEF NothingMissed, Has, StoredIn
<1> QED BY <1>2, <1>4, <1>5, <1>6, <1>7 DEF YInv

LEMMA RightReads ==
  ASSUME IInv, YInv, status = "reading"
  PROVE  /\ event \in Events /\ tree \in Trees
         /\ \A n \in DOMAIN stack : CallRight(stack[n])
         /\ \A n \in DOMAIN fields : FieldRight(fields[n])
         /\ \A m, n \in DOMAIN fields : fields[m].at = fields[n].at => m = n
         /\ Plain => \A l \in Wanted : StoredIn(fields, l.at) \/ Ahead(stack, l.at)
         /\ stack # <<>> => CallRight(Top)
<1>1. \A n \in DOMAIN stack : CallRight(stack[n])
  BY DEF YInv, ReadsParts, NodesFollow, CallRight
<1>2. \A n \in DOMAIN fields : FieldRight(fields[n])
  BY DEF YInv, ReadsParts, NodesFollow, FieldRight
<1>3. stack # <<>> => CallRight(Top)
  <2> HAVE stack # <<>>
  <2>1. 1 \in DOMAIN stack /\ Top = stack[1]
    BY Reads
  <2> QED BY <1>1, <2>1
<1>4. Plain => \A l \in Wanted : StoredIn(fields, l.at) \/ Ahead(stack, l.at)
  BY DEF YInv, NothingMissed, Has, StoredIn
<1>5. tree \in Trees
  BY DEF IInv, Types
<1> QED BY <1>1, <1>2, <1>3, <1>4, <1>5 DEF YInv, ReadsParts, StoredOnce

(* The part that the innermost call is at.                                 *)
LEMMA PartRead ==
  ASSUME IInv, YInv, status = "reading", stack # <<>>, ~AtEnd, NEW h, h = Here
  PROVE  /\ event \in Events /\ tree \in Trees /\ Top \in Frames /\ IsCall(Top)
         /\ AtPart(Top.at, Top.value) /\ (Plain => InItsNode(Top))
         /\ Top.next \in 1..Len(Top.value.values) /\ h = Append(Top.at, Step(Top, Top.next))
         /\ AtPart(h, Value) /\ h \in Places /\ Len(h) \in Nat /\ Value \in Json
         /\ h # <<>> /\ h[Len(h)].in = Top.kind
         /\ Top.kind = "object" => /\ Name \in Names
                                   /\ NamesTo(h) = Append(NamesTo(Top.at), Name)
         /\ Top.kind = "array" => NamesTo(h) = NamesTo(Top.at)
<1>1. PICK f, v : f = Top /\ v = f.value.values[f.next]
  OBVIOUS
<1>2. /\ event \in Events /\ tree \in Trees /\ f \in Frames /\ IsCall(f)
      /\ AtPart(f.at, f.value) /\ (Plain => InItsNode(f))
  BY <1>1, RightReads, Reads DEF CallRight
<1>3. f.next \in 1..Len(f.value.values)
  BY <1>1, ReadsOn
<1>4. h = Append(f.at, Step(f, f.next))
  BY <1>1 DEF Here, Step
<1>5. /\ AtPart(h, v) /\ h \in Places /\ v \in Json
      /\ h # <<>> /\ h[Len(h)].in = f.kind
      /\ f.kind = "object" => /\ f.value.names[f.next] \in Names
                              /\ NamesTo(h) = Append(NamesTo(f.at), f.value.names[f.next])
      /\ f.kind = "array" => NamesTo(h) = NamesTo(f.at)
  BY <1>1, <1>2, <1>3, <1>4, PartHeld
<1>6. Len(h) \in Nat
  BY <1>5, LenProperties DEF Places
<1> QED BY <1>1, <1>2, <1>3, <1>4, <1>5, <1>6 DEF Value, Name

(* A part that lies at the end of the fields is stored.                    *)
LEMMA StoresOnce ==
  ASSUME fields \in Seq(FieldsOver(tree)), NEW x, fields' = Append(fields, x),
         \A m, n \in DOMAIN fields : fields[m].at = fields[n].at => m = n,
         \A n \in DOMAIN fields : fields[n].at # x.at
  PROVE  /\ \A m, n \in DOMAIN fields' : fields'[m].at = fields'[n].at => m = n
         /\ \A n \in DOMAIN fields' : fields'[n] = x \/ \E m \in DOMAIN fields : fields'[n] = fields[m]
         /\ StoredIn(fields', x.at)
         /\ \A p : StoredIn(fields, p) => StoredIn(fields', p)
<1>1. fields \in Seq(FieldsOver(tree) \cup {x})
  BY SeqMonotonic
<1>2. /\ Len(fields) \in Nat /\ Len(fields') = Len(fields) + 1
      /\ fields'[Len(fields')] = x /\ \A n \in 1..Len(fields) : fields'[n] = fields[n]
      /\ DOMAIN fields = 1..Len(fields) /\ DOMAIN fields' = 1..Len(fields')
  BY <1>1, AppendSeq
<1>3. \A n \in DOMAIN fields' : n = Len(fields') \/ n \in DOMAIN fields
  BY <1>2
<1>4. Len(fields') \in DOMAIN fields' /\ DOMAIN fields \subseteq DOMAIN fields'
  BY <1>2
<1>5. \A m, n \in DOMAIN fields' : fields'[m].at = fields'[n].at => m = n
  <2> SUFFICES ASSUME NEW m \in DOMAIN fields', NEW n \in DOMAIN fields', fields'[m].at = fields'[n].at
               PROVE  m = n
    OBVIOUS
  <2>1. CASE m \in DOMAIN fields /\ n \in DOMAIN fields
    BY <1>2, <2>1
  <2>2. CASE m = Len(fields') /\ n \in DOMAIN fields
    BY <1>2, <2>2
  <2>3. CASE m \in DOMAIN fields /\ n = Len(fields')
    BY <1>2, <2>3
  <2> QED BY <1>3, <2>1, <2>2, <2>3
<1>6. StoredIn(fields', x.at)
  BY <1>2, <1>4 DEF StoredIn
<1>7. \A p : StoredIn(fields, p) => StoredIn(fields', p)
  BY <1>2, <1>4 DEF StoredIn
<1> QED BY <1>2, <1>3, <1>5, <1>6, <1>7

(* The innermost call passes a part in which no wanted leaf is left.       *)
Yields(flds, more, h) ==
    \/ more = flds /\ (Plain => \A l \in Wanted : ~Begins(l.at, h))
    \/ \E x : more = Append(flds, x) /\ x.at = h /\ FieldRight(x)

LEMMA RightOn ==
  ASSUME IInv, YInv, status = "reading", stack # <<>>, ~AtEnd, NEW h, h = Here,
         NEW f, Advances(f, Top), f.node = Top.node, f.path = Top.path, stack' = Proceed(f),
         event' = event, tree' = tree, status' = status, Yields(fields, fields', h)
  PROVE  YInv'
<1>1. /\ \A n \in DOMAIN stack : CallRight(stack[n])
      /\ \A n \in DOMAIN fields : FieldRight(fields[n])
      /\ \A m, n \in DOMAIN fields : fields[m].at = fields[n].at => m = n
      /\ Plain => \A l \in Wanted : StoredIn(fields, l.at) \/ Ahead(stack, l.at)
      /\ CallRight(Top) /\ event \in Events
  BY RightReads
<1>2. /\ Calls(stack) /\ CallsNested(stack) /\ Len(stack) \in Nat \ {0} /\ DOMAIN stack = 1..Len(stack)
      /\ Top = stack[1]
  BY Reads
<1>3. IsHere(h, stack) /\ h \in Places /\ Ahead(stack, h)
  BY ReadsOn
<1>4. Advances(f, stack[1]) /\ stack' = <<f>> \o Tail(stack)
  BY <1>2 DEF Proceed
<1>5. GoneOn(stack, h, f, stack')
  BY <1>2, <1>3, <1>4, AdvanceCalls
<1>6. /\ DOMAIN stack' = 1..Len(stack) /\ stack'[1] = f
      /\ \A n \in 2..Len(stack) : stack'[n] = stack[n]
  BY <1>5, LenProperties DEF GoneOn, Calls
<1>7. CallRight(f)
  <2>1. f.kind = Top.kind /\ f.value = Top.value /\ f.at = Top.at
    BY DEF Advances
  <2> QED BY <1>1, <2>1 DEF CallRight, InItsNode
<1>8. \A n \in DOMAIN stack' : CallRight(stack'[n])
  <2> TAKE n \in DOMAIN stack'
  <2>1. CASE n = 1
    BY <1>6, <1>7, <2>1
  <2>2. CASE n # 1
    <3>1. n \in 2..Len(stack) /\ n \in DOMAIN stack
      BY <1>2, <1>6, <2>2
    <3> QED BY <1>1, <1>6, <3>1
  <2> QED BY <2>1, <2>2
<1>9. \A l \in Wanted : l \in Parts[event] /\ l.value.kind = "leaf"
  BY DEF Wanted, Leaves
<1>10. \A l \in Wanted : Ahead(stack, l.at) => Ahead(stack', l.at) \/ Begins(l.at, h)
  BY <1>2, <1>3, <1>4, <1>5, AheadGoneOn
<1>11. CASE fields' = fields /\ (Plain => \A l \in Wanted : ~Begins(l.at, h))
  <2>1. Plain => \A l \in Wanted :
          StoredIn(fields', l.at) \/ (status' = "reading" /\ Ahead(stack', l.at))
    BY <1>1, <1>10, <1>11
  <2> QED BY <1>1, <1>8, <1>11, <2>1, RightTogether
<1>12. ASSUME NEW x, fields' = Append(fields, x), x.at = h, FieldRight(x) PROVE YInv'
  <2>1. fields \in Seq(FieldsOver(tree)) /\ \A n \in DOMAIN fields : fields[n].at # x.at
    BY <1>3, <1>12 DEF IInv, Types, NothingAhead
  <2>2. /\ \A m, n \in DOMAIN fields' : fields'[m].at = fields'[n].at => m = n
        /\ \A n \in DOMAIN fields' : fields'[n] = x \/ \E m \in DOMAIN fields : fields'[n] = fields[m]
        /\ StoredIn(fields', x.at)
        /\ \A p : StoredIn(fields, p) => StoredIn(fields', p)
    BY <1>1, <1>12, <2>1, StoresOnce
  <2>3. \A n \in DOMAIN fields' : FieldRight(fields'[n])
    BY <1>1, <1>12, <2>2
  <2>4. PICK q \in Leaves : q.at = h
    BY <1>12 DEF FieldRight
  <2>5. AtPart(h, q.value) /\ q.value.kind = "leaf"
    <3>1. q \in Parts[event] /\ q.value.kind = "leaf"
      BY DEF Leaves
    <3>2. q = [at |-> q.at, value |-> q.value]
      BY <1>1, <3>1, PartsShape
    <3> QED BY <2>4, <3>1, <3>2 DEF AtPart
  <2>6. ASSUME NEW l \in Wanted, Begins(l.at, h) PROVE l.at = h
    <3>1. l \in Leaves
      BY DEF Wanted
    <3> QED BY <1>1, <2>5, <2>6, <3>1, LeafWithin
  <2>7. Plain => \A l \in Wanted :
          StoredIn(fields', l.at) \/ (status' = "reading" /\ Ahead(stack', l.at))
    BY <1>1, <1>10, <1>12, <2>2, <2>6
  <2> QED BY <1>8, <2>2, <2>3, <2>7, RightTogether
<1> QED BY <1>11, <1>12 DEF Yields

(* It reads the part in a call of its own.                                 *)
LEMMA RightInto ==
  ASSUME IInv, YInv, status = "reading", stack # <<>>, ~AtEnd, NEW h, h = Here,
         NEW f, Advances(f, Top), f.node = Top.node, f.path = Top.path,
         NEW g \in Frames, IsCall(g), g.at = h, g.value = Value, g.next = 1,
         Plain => InItsNode(g), stack' = Enclose(f, g),
         event' = event, tree' = tree, status' = status, fields' = fields
  PROVE  YInv'
<1>1. /\ \A n \in DOMAIN stack : CallRight(stack[n])
      /\ \A n \in DOMAIN fields : FieldRight(fields[n])
      /\ \A m, n \in DOMAIN fields : fields[m].at = fields[n].at => m = n
      /\ Plain => \A l \in Wanted : StoredIn(fields, l.at) \/ Ahead(stack, l.at)
      /\ CallRight(Top) /\ event \in Events
  BY RightReads
<1>2. /\ Calls(stack) /\ CallsNested(stack) /\ Len(stack) \in Nat \ {0} /\ DOMAIN stack = 1..Len(stack)
      /\ Top = stack[1]
  BY Reads
<1>3. IsHere(h, stack) /\ h \in Places /\ AtPart(h, Value) /\ Len(h) \in Nat
  BY ReadsOn, PartRead
<1>4. Advances(f, stack[1]) /\ stack' = <<g, f>> \o Tail(stack)
  BY <1>2 DEF Enclose
<1>5. GoneInto(stack, h, f, g, stack')
  BY <1>2, <1>3, <1>4, EncloseCalls
<1>6. /\ DOMAIN stack' = 1..Len(stack) + 1 /\ stack'[1] = g /\ stack'[2] = f
      /\ \A n \in 3..Len(stack) + 1 : stack'[n] = stack[n - 1]
  BY <1>5, LenProperties DEF GoneInto, Calls
<1>7. CallRight(f)
  <2>1. f.kind = Top.kind /\ f.value = Top.value /\ f.at = Top.at
    BY DEF Advances
  <2> QED BY <1>1, <2>1 DEF CallRight, InItsNode
<1>8. CallRight(g)
  BY <1>3 DEF CallRight
<1>9. \A n \in DOMAIN stack' : CallRight(stack'[n])
  <2> TAKE n \in DOMAIN stack'
  <2>1. CASE n = 1
    BY <1>6, <1>8, <2>1
  <2>2. CASE n = 2
    BY <1>6, <1>7, <2>2
  <2>3. CASE n # 1 /\ n # 2
    <3>1. n \in 3..Len(stack) + 1 /\ n - 1 \in DOMAIN stack
      BY <1>2, <1>6, <2>3
    <3>2. CallRight(stack[n - 1])
      BY <1>1, <3>1
    <3> QED BY <1>6, <3>1, <3>2
  <2> QED BY <2>1, <2>2, <2>3
<1>10. ASSUME NEW l \in Wanted, Ahead(stack, l.at) PROVE Ahead(stack', l.at)
  <2>1. l \in Leaves
    BY DEF Wanted
  <2>2. Value.kind # "leaf"
    BY FrameShape
  <2>3. Begins(l.at, h) => GoesThrough(l.at, h, g.value)
    BY <1>1, <1>3, <2>1, <2>2, LeafWithin
  <2>4. PICK p : p = l.at
    OBVIOUS
  <2> QED BY <1>2, <1>3, <1>4, <1>5, <1>10, <2>3, <2>4, AheadGoneInto
<1>11. Plain => \A l \in Wanted :
         StoredIn(fields', l.at) \/ (status' = "reading" /\ Ahead(stack', l.at))
  BY <1>1, <1>10
<1> QED BY <1>1, <1>9, <1>11, RightTogether

(* It returns when no wanted leaf is left ahead of it.                     *)
LEMMA RightBack ==
  ASSUME IInv, YInv, status = "reading", stack # <<>>, stack' = Tail(stack),
         Plain => \A l \in Wanted : ~AheadOf(Top, l.at),
         event' = event, tree' = tree, status' = status, fields' = fields
  PROVE  YInv'
<1>1. /\ \A n \in DOMAIN stack : CallRight(stack[n])
      /\ \A n \in DOMAIN fields : FieldRight(fields[n])
      /\ \A m, n \in DOMAIN fields : fields[m].at = fields[n].at => m = n
      /\ Plain => \A l \in Wanted : StoredIn(fields, l.at) \/ Ahead(stack, l.at)
  BY RightReads
<1>2. /\ Calls(stack) /\ CallsNested(stack) /\ DOMAIN stack = 1..Len(stack)
      /\ Top = stack[1]
  BY Reads
<1>3. GoneBack(stack, stack')
  BY <1>2, LeaveCalls
<1>4. \A n \in DOMAIN stack' : CallRight(stack'[n])
  <2>1. /\ DOMAIN stack' = 1..Len(stack')
        /\ \A n \in 1..Len(stack') : stack'[n] = stack[n + 1] /\ n + 1 \in 1..Len(stack)
    BY <1>3, LenProperties DEF GoneBack, Calls
  <2>2. \A n \in DOMAIN stack' : CallRight(stack[n + 1])
    BY <1>1, <1>2, <2>1
  <2> QED BY <2>1, <2>2
<1>5. \A l \in Wanted : Ahead(stack, l.at) => Ahead(stack', l.at) \/ AheadOf(Top, l.at)
  <2> SUFFICES ASSUME NEW l \in Wanted, Ahead(stack, l.at)
               PROVE  Ahead(stack', l.at) \/ AheadOf(Top, l.at)
    OBVIOUS
  <2>1. PICK p : p = l.at
    OBVIOUS
  <2> QED BY <1>2, <1>3, <2>1, AheadGoneBack
<1>6. Plain => \A l \in Wanted :
         StoredIn(fields', l.at) \/ (status' = "reading" /\ Ahead(stack', l.at))
  BY <1>1, <1>5
<1> QED BY <1>1, <1>4, <1>6, RightTogether

(* The member that an object is at, in a plain event.                      *)
LEMMA MemberIsNamed ==
  ASSUME IInv, YInv, Plain, status = "reading", NEW part, AtMember(part), NEW h, h = Here
  PROVE  /\ Top.node \in Seq(Names) /\ Name \in Names /\ tree \in Trees
         /\ NamesTo(h) = Append(Top.node, Name)
         /\ PathForSegment(tree, Top.node, Name) = PathAt(h)
         /\ \A l \in Wanted : Begins(l.at, h) =>
              /\ Name \in UsedIn(tree, Top.node)
              /\ part = "object" => Name \in NodesOf(tree, Top.node)
<1>1. PICK f, n, node, a : f = Top /\ n = Top.next /\ node = Top.node /\ a = NamesTo(h)
  OBVIOUS
<1>2. /\ stack # <<>> /\ ~AtEnd /\ f.kind = "object" /\ Value.kind = part
      /\ Value = f.value.values[n] /\ Name = f.value.names[n]
  BY <1>1 DEF AtMember, Value, Name
<1>3. /\ event \in Events /\ tree \in Trees /\ f \in Frames /\ IsCall(f)
      /\ AtPart(f.at, f.value) /\ InItsNode(f) /\ n \in 1..Len(f.value.values)
      /\ h = Append(f.at, Step(f, n)) /\ Name \in Names /\ a = Append(NamesTo(f.at), Name)
  BY <1>1, <1>2, PartRead
<1>4. f.node = NamesTo(f.at) /\ node \in Seq(Names)
  BY <1>1, <1>2, <1>3, FrameShape DEF InItsNode
<1>5. a = Append(node, Name)
  BY <1>1, <1>3, <1>4
<1>6. Name \in FieldsOf(tree, node) <=> a \in tree
  BY <1>3, <1>4, <1>5, PathIsThere
<1>7. PathForSegment(tree, node, Name) = PathAt(h)
  BY <1>1, <1>5, <1>6 DEF PathForSegment, PathAt
<1>8. ASSUME NEW l \in Wanted, Begins(l.at, h)
      PROVE  /\ Name \in UsedIn(tree, node)
             /\ part = "object" => Name \in NodesOf(tree, node)
  BY <1>1, <1>2, <1>3, <1>4, <1>8, WantedIsUsed
<1> QED BY <1>1, <1>3, <1>4, <1>5, <1>7, <1>8

LEMMA SkipMemberReads ==
  ASSUME IInv, YInv, SkipMember
  PROVE  YInv'
<1>1. PICK part \in {"leaf", "array", "object"} :
        /\ Member(part)
        /\ part = "object" => Name \notin NodesOf(tree, Top.node)
        /\ part # "object" => Name \notin UsedIn(tree, Top.node)
  BY DEF SkipMember, Used, IsSegmentUsed, UsedIn, HasNode
<1>2. AtMember(part) /\ status = "reading"
  BY <1>1 DEF Member, AtMember, Reading
<1>3. PICK f, h : f = Advanced /\ h = Here
  OBVIOUS
<1>4. Goes(f, Top, Top.nodesCount, Top.fieldsCount)
  BY <1>2, <1>3, Reads, FrameAdvanced DEF Advanced, AtMember
<1>5. /\ stack' = Proceed(f) /\ event' = event /\ tree' = tree /\ status' = status
      /\ fields' = fields
  BY <1>3 DEF SkipMember
<1>6. Plain => \A l \in Wanted : ~Begins(l.at, h)
  BY <1>1, <1>2, <1>3, MemberIsNamed
<1>7. Yields(fields, fields', h)
  BY <1>5, <1>6 DEF Yields
<1> QED BY <1>2, <1>3, <1>4, <1>5, <1>7, RightOn DEF Goes, AtMember

LEMMA LeafRead ==
  ASSUME IInv, YInv, status = "reading", stack # <<>>, ~AtEnd, Value.kind = "leaf",
         NEW x, x.at = Here, Plain => x.path = PathAt(Here)
  PROVE  FieldRight(x)
<1>1. PICK h : h = Here
  OBVIOUS
<1>2. PICK l : l = [at |-> h, value |-> Value]
  OBVIOUS
<1>3. l \in Leaves /\ l.at = x.at
  BY <1>1, <1>2, PartRead DEF AtPart, Leaves
<1> QED BY <1>3 DEF FieldRight

LEMMA LeafMemberReads ==
  ASSUME IInv, YInv, LeafMember
  PROVE  YInv'
<1>1. AtMember("leaf") /\ status = "reading"
  BY DEF LeafMember, Member, AtMember, Reading
<1>2. PICK f, h, x : /\ f = [Advanced EXCEPT !.fieldsCount = @ - 1] /\ h = Here
                     /\ x = [path |-> PathForSegment(tree, Top.node, Name),
                             trail |-> Top.trail, at |-> h]
  OBVIOUS
<1>3. Goes(f, Top, Top.nodesCount, Top.fieldsCount - 1)
  BY <1>1, <1>2, Reads, FrameAdvanced DEF Advanced, AtMember
<1>4. /\ stack' = Proceed(f) /\ event' = event /\ tree' = tree /\ status' = status
      /\ fields' = Append(fields, x)
  BY <1>2 DEF LeafMember, Field
<1>5. x.at = h /\ x.path = PathForSegment(tree, Top.node, Name)
  BY <1>2
<1>6. Plain => x.path = PathAt(h)
  BY <1>1, <1>2, <1>5, MemberIsNamed
<1>7. FieldRight(x)
  BY <1>1, <1>2, <1>5, <1>6, LeafRead DEF AtMember
<1>8. Yields(fields, fields', h)
  BY <1>4, <1>5, <1>7 DEF Yields
<1> QED BY <1>1, <1>2, <1>3, <1>4, <1>8, RightOn DEF Goes, AtMember

LEMMA LeafElementReads ==
  ASSUME IInv, YInv, LeafElement
  PROVE  YInv'
<1>1. AtElement("leaf") /\ status = "reading"
  BY DEF LeafElement, Element, AtElement, Reading
<1>2. PICK f, h, x : /\ f = Advanced /\ h = Here
                     /\ x = [path |-> Top.path, trail |-> Stepped, at |-> h]
  OBVIOUS
<1>3. Goes(f, Top, Top.nodesCount, Top.fieldsCount)
  BY <1>1, <1>2, Reads, FrameAdvanced DEF Advanced, AtElement
<1>4. /\ stack' = Proceed(f) /\ event' = event /\ tree' = tree /\ status' = status
      /\ fields' = Append(fields, x)
  BY <1>2 DEF LeafElement, Field
<1>5. x.at = h /\ x.path = Top.path
  BY <1>2
<1>6. Plain => x.path = PathAt(h)
  <2>1. NamesTo(h) = NamesTo(Top.at) /\ (Plain => Top.path = PathAt(Top.at))
    BY <1>1, <1>2, PartRead DEF AtElement, InItsNode
  <2> QED BY <1>5, <2>1 DEF PathAt
<1>7. FieldRight(x)
  BY <1>1, <1>2, <1>5, <1>6, LeafRead DEF AtElement
<1>8. Yields(fields, fields', h)
  BY <1>4, <1>5, <1>7 DEF Yields
<1> QED BY <1>1, <1>2, <1>3, <1>4, <1>8, RightOn DEF Goes, AtElement

LEMMA ObjectMemberReads ==
  ASSUME IInv, YInv, ObjectMember
  PROVE  YInv'
<1>1. Name \in NodesOf(tree, Top.node) /\ AtMember("object") /\ status = "reading"
  BY DEF ObjectMember, HasNode, Member, AtMember, Reading
<1>2. PICK f, h, v, node : /\ f = [Advanced EXCEPT !.nodesCount = @ - 1] /\ h = Here
                           /\ v = Value /\ node = Get(Top.node, Name)
  OBVIOUS
<1>3. PICK g : g = Frame("object", v, h, node, NoPath)
  OBVIOUS
<1>4. Goes(f, Top, Top.nodesCount - 1, Top.fieldsCount)
  BY <1>1, <1>2, Reads, FrameAdvanced DEF Advanced, AtMember
<1>5. /\ stack' = Enclose(f, g) /\ event' = event /\ tree' = tree /\ status' = status
      /\ fields' = fields
  BY <1>2, <1>3 DEF ObjectMember
<1>6. /\ v \in Json /\ v.kind = "object" /\ h \in Places /\ tree \in Trees
      /\ Top \in Frames /\ IsCall(Top) /\ Name \in Names /\ trail \in Trails
  BY <1>1, <1>2, Reads, ReadsOn DEF AtMember, IInv, Types
<1>7. /\ node \in Seq(Names) /\ NoPath \in Seq(Names) /\ NoPath \in tree \cup {NoPath}
  BY <1>1, <1>2, <1>6, FrameShape, PathInTree DEF NoPath
<1>8. Made(g, v, h, tree, node, NoPath, trail)
  BY <1>3, <1>6 DEF Made, Frame
<1>9. g \in Frames /\ IsCall(g) /\ g.at = h /\ g.next = 1 /\ g.kind = "object"
  BY <1>6, <1>7, <1>8, FrameMade
<1>10. g.value = v /\ g.node = node
  BY <1>8 DEF Made
<1>11. Plain => InItsNode(g)
  <2> HAVE Plain
  <2>1. node = NamesTo(h)
    BY <1>1, <1>2, MemberIsNamed DEF Get
  <2> QED BY <1>9, <1>10, <2>1 DEF InItsNode
<1> QED BY <1>1, <1>2, <1>4, <1>5, <1>9, <1>10, <1>11, RightInto DEF Goes, AtMember

LEMMA ArrayMemberReads ==
  ASSUME IInv, YInv, ArrayMember
  PROVE  YInv'
<1>1. Name \in UsedIn(tree, Top.node) /\ AtMember("array") /\ status = "reading"
  BY DEF ArrayMember, Used, IsSegmentUsed, UsedIn, Member, AtMember, Reading
<1>2. PICK f, h, v, node, path : /\ f = Advanced /\ h = Here /\ v = Value /\ node = ArrayNode
                                 /\ path = PathForSegment(tree, Top.node, Name)
  OBVIOUS
<1>3. PICK g : g = Frame("array", v, h, node, path)
  OBVIOUS
<1>4. Goes(f, Top, Top.nodesCount, Top.fieldsCount)
  BY <1>1, <1>2, Reads, FrameAdvanced DEF Advanced, AtMember
<1>5. /\ stack' = Enclose(f, g) /\ event' = event /\ tree' = tree /\ status' = status
      /\ fields' = fields
  BY <1>2, <1>3 DEF ArrayMember
<1>6. /\ v \in Json /\ v.kind = "array" /\ h \in Places /\ tree \in Trees
      /\ Top \in Frames /\ IsCall(Top) /\ Name \in Names /\ trail \in Trails
  BY <1>1, <1>2, Reads, ReadsOn DEF AtMember, IInv, Types
<1>7. node \in Seq(Names) /\ path \in Seq(Names) /\ path \in tree \cup {NoPath}
  <2>1. Top.node \in Seq(Names)
    BY <1>6, FrameShape
  <2>2. node \in Seq(Names)
    BY <1>2, <1>6, <2>1, PathInTree DEF ArrayNode, HasNode
  <2> QED BY <1>2, <1>6, <2>1, <2>2, PathInTree
<1>8. Made(g, v, h, tree, node, path, trail)
  BY <1>3, <1>6 DEF Made, Frame
<1>9. g \in Frames /\ IsCall(g) /\ g.at = h /\ g.next = 1 /\ g.kind = "array"
  BY <1>6, <1>7, <1>8, FrameMade
<1>10. g.value = v /\ g.node = node /\ g.path = path
  BY <1>8 DEF Made
<1>11. ASSUME Plain PROVE InItsNode(g)
  <2>1. /\ Top.node \in Seq(Names) /\ NamesTo(h) = Append(Top.node, Name)
        /\ path = PathAt(h)
    BY <1>1, <1>2, <1>11, MemberIsNamed
  <2>2. CASE Name \in NodesOf(tree, Top.node)
    <3>1. node = NamesTo(h)
      BY <1>2, <2>1, <2>2 DEF ArrayNode, HasNode, Get
    <3> QED BY <1>9, <1>10, <2>1, <3>1 DEF InItsNode
  <2>3. CASE Name \notin NodesOf(tree, Top.node)
    <3>1. Name \in FieldsOf(tree, Top.node)
      BY <1>1, <2>3 DEF UsedIn
    <3>2. LeafOnly(NamesTo(h))
      BY <1>6, <2>1, <2>3, <3>1, NothingBelow DEF LeafOnly
    <3> QED BY <1>9, <1>10, <2>1, <3>2 DEF InItsNode
  <2> QED BY <2>2, <2>3
<1> QED BY <1>1, <1>2, <1>4, <1>5, <1>9, <1>10, <1>11, RightInto DEF Goes, AtMember

(* The element that an array is at, in a plain event.                      *)
LEMMA ElementIsNamed ==
  ASSUME IInv, YInv, Plain, status = "reading", NEW part, AtElement(part), NEW h, h = Here
  PROVE  /\ Top.path = PathAt(h)
         /\ Top.node = NamesTo(h) \/ LeafOnly(NamesTo(h))
         /\ part = "object" => ~LeafOnly(NamesTo(h))
<1>1. /\ NamesTo(h) = NamesTo(Top.at) /\ InItsNode(Top) /\ Top.kind = "array"
      /\ AtPart(h, Value) /\ h # <<>> /\ h[Len(h)].in = "array" /\ Value.kind = part
  BY PartRead DEF AtElement
<1>2. Top.path = PathAt(h) /\ (Top.node = NamesTo(h) \/ LeafOnly(NamesTo(h)))
  BY <1>1 DEF InItsNode, PathAt
<1>3. part = "object" => ~LeafOnly(NamesTo(h))
  <2>1. PICK p : p = [at |-> h, value |-> Value]
    OBVIOUS
  <2>2. p \in Parts[event] /\ p.at = h /\ p.value.kind = part
    BY <1>1, <2>1 DEF AtPart
  <2> QED BY <1>1, <2>2 DEF Plain
<1> QED BY <1>2, <1>3

LEMMA ObjectElementReads ==
  ASSUME IInv, YInv, ObjectElement
  PROVE  YInv'
<1>1. AtElement("object") /\ status = "reading"
  BY DEF ObjectElement, Element, AtElement, Reading
<1>2. PICK f, h, v, node, trl : /\ f = Advanced /\ h = Here /\ v = Value /\ node = Top.node
                                /\ trl = Stepped
  OBVIOUS
<1>3. PICK g : g = [Frame("object", v, h, node, NoPath) EXCEPT !.trail = trl]
  OBVIOUS
<1>4. Goes(f, Top, Top.nodesCount, Top.fieldsCount)
  BY <1>1, <1>2, Reads, FrameAdvanced DEF Advanced, AtElement
<1>5. /\ stack' = Enclose(f, g) /\ event' = event /\ tree' = tree /\ status' = status
      /\ fields' = fields
  BY <1>2, <1>3 DEF ObjectElement
<1>6. /\ v \in Json /\ v.kind = "object" /\ h \in Places /\ tree \in Trees
      /\ Top \in Frames /\ trl \in Trails
  BY <1>1, <1>2, ElementGoes
<1>7. /\ node \in Seq(Names) /\ NoPath \in Seq(Names) /\ NoPath \in tree \cup {NoPath}
  BY <1>2, <1>6 DEF Frames, NoPath
<1>8. Made(g, v, h, tree, node, NoPath, trl)
  BY <1>3, <1>6 DEF Made, Frame
<1>9. g \in Frames /\ IsCall(g) /\ g.at = h /\ g.next = 1 /\ g.kind = "object"
  BY <1>6, <1>7, <1>8, FrameMade
<1>10. g.value = v /\ g.node = node
  BY <1>8 DEF Made
<1>11. Plain => InItsNode(g)
  BY <1>1, <1>2, <1>9, <1>10, ElementIsNamed DEF InItsNode
<1> QED BY <1>1, <1>2, <1>4, <1>5, <1>9, <1>10, <1>11, RightInto DEF Goes, AtElement

LEMMA ArrayElementReads ==
  ASSUME IInv, YInv, ArrayElement
  PROVE  YInv'
<1>1. AtElement("array") /\ status = "reading"
  BY DEF ArrayElement, Element, AtElement, Reading
<1>2. PICK f, h, v, node, path, trl : /\ f = Advanced /\ h = Here /\ v = Value /\ node = Top.node
                                      /\ path = Top.path /\ trl = Stepped
  OBVIOUS
<1>3. PICK g : g = [Frame("array", v, h, node, path) EXCEPT !.trail = trl]
  OBVIOUS
<1>4. Goes(f, Top, Top.nodesCount, Top.fieldsCount)
  BY <1>1, <1>2, Reads, FrameAdvanced DEF Advanced, AtElement
<1>5. /\ stack' = Enclose(f, g) /\ event' = event /\ tree' = tree /\ status' = status
      /\ fields' = fields
  BY <1>2, <1>3 DEF ArrayElement
<1>6. /\ v \in Json /\ v.kind = "array" /\ h \in Places /\ tree \in Trees
      /\ Top \in Frames /\ CallGood(tree, Top) /\ trl \in Trails
  BY <1>1, <1>2, ElementGoes
<1>7. node \in Seq(Names) /\ path \in Seq(Names) /\ path \in tree \cup {NoPath}
  BY <1>2, <1>6 DEF Frames, CallGood
<1>8. Made(g, v, h, tree, node, path, trl)
  BY <1>3, <1>6 DEF Made, Frame
<1>9. g \in Frames /\ IsCall(g) /\ g.at = h /\ g.next = 1 /\ g.kind = "array"
  BY <1>6, <1>7, <1>8, FrameMade
<1>10. g.value = v /\ g.node = node /\ g.path = path
  BY <1>8 DEF Made
<1>11. Plain => InItsNode(g)
  BY <1>1, <1>2, <1>9, <1>10, ElementIsNamed DEF InItsNode
<1> QED BY <1>1, <1>2, <1>4, <1>5, <1>9, <1>10, <1>11, RightInto DEF Goes, AtElement

(* No wanted leaf is ahead of an object whose members left have names that *)
(* the tree does not have at its node.                                     *)
LEMMA NoneAhead ==
  ASSUME event \in Events, tree \in Trees, NEW f \in Frames, IsCall(f), AtPart(f.at, f.value),
         f.kind = "object", f.node = NamesTo(f.at),
         \A n \in f.next..Len(f.value.values) : f.value.names[n] \notin UsedIn(tree, f.node)
  PROVE  \A l \in Wanted : ~AheadOf(f, l.at)
<1> SUFFICES ASSUME NEW l \in Wanted, AheadOf(f, l.at) PROVE FALSE
  OBVIOUS
<1>1. PICK i \in f.next..Len(f.value.values) :
        /\ Begins(l.at, f.at) /\ Len(l.at) > Len(f.at)
        /\ l.at[Len(f.at) + 1] = Step(f, i)
  BY DEF AheadOf
<1>2. PICK p, at, h, st : p = l.at /\ at = f.at /\ st = Step(f, i) /\ h = Append(at, st)
  OBVIOUS
<1>3. i \in 1..Len(f.value.values) /\ Len(at) \in Nat
  BY <1>2, FrameShape
<1>4. Extends(h, at, st)
  BY <1>2, <1>3, PartHeld
<1>5. Len(p) \in Nat
  BY <1>2, PartsShape DEF Wanted, Leaves
<1>6. Begins(p, h)
  BY <1>1, <1>2, <1>3, <1>4, <1>5 DEF Begins, Extends
<1>7. f.value.names[i] \in UsedIn(tree, f.node)
  BY <1>2, <1>3, <1>6, WantedIsUsed
<1> QED BY <1>7

(* Every part but the event itself has a name on the way to it.            *)
LEMMA EventNamed ==
  ASSUME event \in Events, NEW at, NEW v, AtPart(at, v), NamesTo(at) = <<>>
  PROVE  at = <<>>
<1> SUFFICES ASSUME at # <<>> PROVE FALSE
  OBVIOUS
<1>1. PICK p, q : p = [at |-> at, value |-> v] /\ q = [at |-> <<>>, value |-> event]
  OBVIOUS
<1>2. /\ p \in Parts[event] /\ q \in Parts[event] /\ p.at = at /\ q.at = <<>> /\ q.value = event
      /\ event \in Json /\ event.kind = "object" /\ at \in Places /\ Len(at) \in Nat /\ Named(at)
  BY <1>1, PartsShape, PartNamed DEF AtPart
<1>3. Begins(at, <<>>)
  BY <1>2 DEF Begins
<1>4. GoesThrough(at, <<>>, event)
  BY <1>2, <1>3, HeldInside
<1>5. PICK n \in 1..Len(event.values) : at[1] = StepTo(event, <<>>, n)
  BY <1>4 DEF GoesThrough
<1>6. event.names[n] \in Names
  BY <1>2, ValueShape
<1>7. Len(at[1].names) = 1
  <2>1. at[1].names = Append(<<>>, event.names[n])
    BY <1>2, <1>5 DEF StepTo, NamesTo
  <2>2. <<>> \in Seq(Names) /\ Len(<<>>) = 0
    OBVIOUS
  <2> QED BY <1>6, <2>1, <2>2, AppendProperties
<1>8. Len(at) \in DOMAIN at /\ 1 \in 1..Len(at)
  BY <1>2, LenProperties, EmptySeq DEF Places
<1>9. Begins(at[Len(at)].names, at[1].names)
  BY <1>2, <1>8 DEF Named
<1>10. at[Len(at)].names = <<>>
  BY DEF NamesTo
<1> QED BY <1>7, <1>9, <1>10 DEF Begins

(* An object that is left early has nothing wanted ahead of it.            *)
LEMMA ObjectIsRead ==
  ASSUME IInv, YInv, Reading("object"), AllMet \/ AtEnd, Plain
  PROVE  \A l \in Wanted : ~AheadOf(Top, l.at)
<1>1. PICK f : f = Top
  OBVIOUS
<1>2. /\ status = "reading" /\ stack # <<>> /\ f.kind = "object"
      /\ f \in Frames /\ IsCall(f) /\ tree \in Trees /\ CallGood(tree, f)
      /\ event \in Events /\ AtPart(f.at, f.value) /\ InItsNode(f)
  BY <1>1, Reads, RightReads DEF Reading, CallRight
<1>3. \A n \in f.next..Len(f.value.values) : f.value.names[n] \notin UsedIn(tree, f.node)
  <2>1. CASE AllMet
    <3>1. Counted(tree, f) /\ f.nodesCount = 0 /\ f.fieldsCount = 0
      BY <1>1, <1>2, <2>1 DEF CallGood, CallCounts, AllMet
    <3> QED BY <1>2, <3>1, CountsUsedUp
  <2>2. CASE AtEnd
    <3>1. f.next > Len(f.value.values) /\ f.next \in Nat /\ Len(f.value.values) \in Nat
      BY <1>1, <1>2, <2>2, FrameShape DEF AtEnd
    <3> QED BY <3>1
  <2> QED BY <2>1, <2>2
<1>4. f.node = NamesTo(f.at)
  BY <1>2 DEF InItsNode
<1> QED BY <1>1, <1>2, <1>3, <1>4, NoneAhead

LEMMA LeaveReads ==
  ASSUME IInv, YInv, LeaveObject \/ LeaveArray
  PROVE  YInv'
<1>1. /\ status = "reading" /\ stack # <<>> /\ stack' = Tail(stack)
      /\ event' = event /\ tree' = tree /\ status' = status /\ fields' = fields
  BY DEF LeaveObject, LeaveArray, Reading
<1>2. Plain => \A l \in Wanted : ~AheadOf(Top, l.at)
  <2> HAVE Plain
  <2>1. CASE LeaveObject
    BY <2>1, ObjectIsRead DEF LeaveObject
  <2>2. CASE LeaveArray
    <3>1. Top.next > Len(Top.value.values) /\ Top.next \in Nat /\ Len(Top.value.values) \in Nat
      BY <1>1, <2>2, Reads, FrameShape DEF LeaveArray, AtEnd
    <3> QED BY <3>1 DEF AheadOf
  <2> QED BY <2>1, <2>2
<1> QED BY <1>1, <1>2, RightBack

(* In a plain event only the call for the event has the root's node.       *)
LEMMA RootIsTheEvent ==
  ASSUME IInv, YInv, Plain, Reading("object"), Top.node = <<>>
  PROVE  /\ Top.at = <<>> /\ Top = stack[1]
         /\ \A n \in DOMAIN stack : n = 1
<1>1. status = "reading" /\ stack # <<>> /\ Top.kind = "object"
  BY DEF Reading
<1>2. event \in Events /\ CallRight(Top)
  BY <1>1, RightReads
<1>3. AtPart(Top.at, Top.value) /\ NamesTo(Top.at) = <<>>
  BY <1>1, <1>2 DEF CallRight, InItsNode
<1>4. Top.at = <<>>
  BY <1>2, <1>3, EventNamed
<1>5. PICK k, a : k = Len(stack) /\ a = Len(stack[1].at)
  OBVIOUS
<1>6. /\ CallsNested(stack) /\ DOMAIN stack = 1..k /\ 1 \in 1..k /\ k \in Nat
      /\ Top = stack[1]
  BY <1>1, <1>5, Reads
<1>7. a = k - 1
  BY <1>5, <1>6 DEF CallsNested
<1>8. a = 0
  BY <1>4, <1>5, <1>6
<1>9. k = 1
  BY <1>6, <1>7, <1>8
<1> QED BY <1>4, <1>6, <1>9

(* The flattener stops, or comes to the end, with no wanted leaf ahead.    *)
LEMMA StopReads ==
  ASSUME IInv, YInv, EarlyStop \/ End
  PROVE  YInv'
<1>1. /\ status = "reading" /\ stack' = stack
      /\ event' = event /\ tree' = tree /\ fields' = fields
  BY DEF EarlyStop, End, Reading
<1>2. /\ event \in Events
      /\ \A n \in DOMAIN stack : CallRight(stack[n])
      /\ \A n \in DOMAIN fields : FieldRight(fields[n])
      /\ \A m, n \in DOMAIN fields : fields[m].at = fields[n].at => m = n
      /\ Plain => \A l \in Wanted : StoredIn(fields, l.at) \/ Ahead(stack, l.at)
      /\ stack # <<>> => CallRight(Top)
  BY <1>1, RightReads
<1>3. ASSUME Plain, NEW l \in Wanted PROVE ~Ahead(stack, l.at)
  <2>1. CASE End
    BY <2>1 DEF End, Ahead
  <2>2. CASE EarlyStop
    <3>1. /\ Reading("object") /\ AllMet /\ stack # <<>> /\ Top.kind = "object" /\ Top.node = <<>>
      BY <2>2 DEF EarlyStop, Reading, IsRoot
    <3>2. Top = stack[1] /\ \A n \in DOMAIN stack : n = 1
      BY <1>3, <3>1, RootIsTheEvent
    <3>3. ~AheadOf(Top, l.at)
      BY <1>3, <3>1, ObjectIsRead
    <3> QED BY <3>2, <3>3 DEF Ahead
  <2> QED BY <2>1, <2>2
<1>4. Plain => \A l \in Wanted : StoredIn(fields, l.at)
  BY <1>2, <1>3
<1> QED BY <1>1, <1>2, <1>4, RightTogether

(* At first all of the event is ahead.                                     *)
LEMMA StartReads ==
  ASSUME Init
  PROVE  YInv
<1>1. /\ event \in Events /\ event \in Json /\ event.kind = "object" /\ AtPart(<<>>, event)
      /\ fields = <<>> /\ status = "reading"
  BY PartsShape DEF Init
<1>2. PICK f : stack = <<f>> /\ f.kind = "object" /\ f.value = event /\ f.at = <<>>
               /\ f.node = <<>> /\ f.next = 1
  BY DEF Init
<1>3. DOMAIN stack = {1} /\ stack[1] = f
  BY <1>2
<1>4. ReadsParts
  BY <1>1, <1>2, <1>3 DEF ReadsParts
<1>5. StoredOnce
  BY <1>1 DEF StoredOnce
<1>6. NodesFollow
  BY <1>1, <1>2, <1>3 DEF NodesFollow, InItsNode, NamesTo
<1>7. ASSUME NEW l \in Wanted PROVE Ahead(stack, l.at)
  <2>1. PICK q : q = [at |-> <<>>, value |-> event]
    OBVIOUS
  <2>2. /\ q \in Parts[event] /\ q.at = <<>> /\ q.value = event
        /\ l \in Parts[event] /\ l.value.kind = "leaf" /\ Len(l.at) \in Nat
    BY <1>1, <2>1, PartsShape DEF AtPart, Wanted, Leaves
  <2>3. l # q
    BY <1>1, <2>2
  <2>4. Begins(l.at, <<>>)
    BY <2>2 DEF Begins
  <2>5. GoesThrough(l.at, <<>>, event)
    BY <1>1, <2>2, <2>3, <2>4, HeldInside
  <2>6. AheadOf(f, l.at)
    BY <1>2, <2>4, <2>5 DEF GoesThrough, AheadOf, Step
  <2> QED BY <1>3, <2>6 DEF Ahead
<1>8. NothingMissed
  BY <1>1, <1>7 DEF NothingMissed
<1> QED BY <1>4, <1>5, <1>6, <1>8 DEF YInv

(* In every state of reading any Event with any segments tree, each call   *)
(* of readObject and readArray reads the part of the event that is at its  *)
(* place and no part is stored twice; and if the event is plain, each call *)
(* has the tree node that the names on its way lead to, and every leaf the *)
(* Patterns ask for has been stored or still lies ahead.                   *)
THEOREM FlattenerReads == Spec => []YInv
<1>1. Init => YInv
  BY StartReads
<1>2. IInv /\ YInv /\ [Next]_vars => YInv'
  <2> SUFFICES ASSUME IInv, YInv, [Next]_vars PROVE YInv'
    OBVIOUS
  <2>1. CASE UNCHANGED vars
    BY <2>1 DEF YInv, ReadsParts, StoredOnce, Plain, NodesFollow, NothingMissed, InItsNode, PathAt,
                AtPart, LeafOnly, Leaves, Wanted, Has, Ahead, vars
  <2>2. CASE EarlyStop \/ End
    BY <2>2, StopReads
  <2>3. CASE LeaveObject \/ LeaveArray
    BY <2>3, LeaveReads
  <2>4. CASE SkipMember
    BY <2>4, SkipMemberReads
  <2>5. CASE LeafMember
    BY <2>5, LeafMemberReads
  <2>6. CASE ObjectMember
    BY <2>6, ObjectMemberReads
  <2>7. CASE ArrayMember
    BY <2>7, ArrayMemberReads
  <2>8. CASE LeafElement
    BY <2>8, LeafElementReads
  <2>9. CASE ObjectElement
    BY <2>9, ObjectElementReads
  <2>10. CASE ArrayElement
    BY <2>10, ArrayElementReads
  <2> QED BY <2>1, <2>2, <2>3, <2>4, <2>5, <2>6, <2>7, <2>8, <2>9, <2>10 DEF Next
<1> QED BY <1>1, <1>2, FlattenerInvariant, PTL DEF Spec

(* Whatever the Event and the Patterns, the counts that let readObject     *)
(* leave an object early are used up only when every name the tree has at  *)
(* its node has been met: none of the members it skips could have given a  *)
(* field.  When they end the reading of a plain Event, no call in progress *)
(* has anything left that could.                                           *)
THEOREM NothingUsedIsSkipped == Spec => []SkipsNothingUsed
<1>1. ASSUME IInv, YInv PROVE SkipsNothingUsed
  <2> SUFFICES ASSUME Reading("object"), AllMet
               PROVE  /\ NothingUsedLeft(Top)
                      /\ Plain /\ IsRoot(Top.node) =>
                            \A n \in DOMAIN stack : NothingUsedLeft(stack[n])
    BY DEF SkipsNothingUsed
  <2>1. stack # <<>> /\ Top.kind = "object" /\ Top.nodesCount = 0 /\ Top.fieldsCount = 0
    BY DEF Reading, AllMet
  <2>2. Top \in Frames /\ IsCall(Top) /\ tree \in Trees /\ CallGood(tree, Top)
    BY <1>1, <2>1, Reads
  <2>3. Counted(tree, Top)
    BY <2>1, <2>2 DEF CallGood, CallCounts
  <2>4. NothingUsedLeft(Top)
    <3>1. ASSUME NEW n \in Top.next..Len(Top.value.values)
          PROVE  ~IsSegmentUsed(tree, Top.node, Top.value.names[n])
      <4>1. Top.value.names[n] \notin UsedIn(tree, Top.node)
        BY <2>1, <2>2, <2>3, CountsUsedUp
      <4> QED BY <4>1 DEF IsSegmentUsed, UsedIn
    <3> QED BY <2>1, <3>1 DEF NothingUsedLeft
  <2>5. ASSUME Plain, IsRoot(Top.node), NEW n \in DOMAIN stack
        PROVE  NothingUsedLeft(stack[n])
    <3>1. Top = stack[1] /\ n = 1
      BY <1>1, <2>5, RootIsTheEvent DEF IsRoot
    <3> QED BY <2>4, <3>1
  <2> QED BY <2>4, <2>5
<1> QED BY <1>1, FlattenerInvariant, FlattenerReads, PTL

(* Whatever the Patterns and the plain Event, and however early the        *)
(* flattener stops: when it is done it has stored just the leaves that the *)
(* Patterns ask for, each once and under the path of its own place.        *)
THEOREM TheWantedLeaves == Spec => []FieldsAreTheWantedLeaves
<1>1. ASSUME IInv, YInv PROVE FieldsAreTheWantedLeaves
  <2> SUFFICES ASSUME status # "reading", Plain
               PROVE  /\ {[at |-> fields[n].at, path |-> fields[n].path] : n \in Stored}
                           = {[at |-> l.at, path |-> NamesTo(l.at)] : l \in Wanted}
                      /\ \A m, n \in Stored : m # n => fields[m].at # fields[n].at
    BY DEF FieldsAreTheWantedLeaves
  <2>1. /\ \A n \in DOMAIN fields : fields[n].path = PathAt(fields[n].at)
        /\ \A n \in DOMAIN fields : \E l \in Leaves : l.at = fields[n].at
        /\ \A l \in Wanted : Has(l.at)
    BY <1>1 DEF YInv, ReadsParts, NodesFollow, NothingMissed
  <2>2. ASSUME NEW n \in Stored
        PROVE  \E l \in Wanted : fields[n].at = l.at /\ fields[n].path = NamesTo(l.at)
    <3>1. n \in DOMAIN fields /\ fields[n].path # NoPath
      BY DEF Stored
    <3>2. PICK l \in Leaves : l.at = fields[n].at
      BY <2>1, <3>1
    <3>3. NamesTo(l.at) \in tree /\ fields[n].path = NamesTo(l.at)
      BY <2>1, <3>1, <3>2 DEF PathAt
    <3> QED BY <3>2, <3>3 DEF Wanted
  <2>3. ASSUME NEW l \in Wanted
        PROVE  \E n \in Stored : fields[n].at = l.at /\ fields[n].path = NamesTo(l.at)
    <3>1. PICK n \in DOMAIN fields : fields[n].at = l.at
      BY <2>1 DEF Has
    <3>2. NamesTo(l.at) \in tree
      BY DEF Wanted
    <3>3. fields[n].path = NamesTo(l.at)
      BY <2>1, <3>1, <3>2 DEF PathAt
    <3>4. NamesTo(l.at) # NoPath
      BY <1>1, <3>2, TreesAssumption DEF IInv, Types
    <3> QED BY <3>1, <3>3, <3>4 DEF Stored
  <2>4. {[at |-> fields[n].at, path |-> fields[n].path] : n \in Stored}
          = {[at |-> l.at, path |-> NamesTo(l.at)] : l \in Wanted}
    BY <2>2, <2>3
  <2>5. \A m, n \in Stored : m # n => fields[m].at # fields[n].at
    BY <1>1 DEF YInv, StoredOnce, Stored
  <2> QED BY <2>4, <2>5
<1> QED BY <1>1, FlattenerInvariant, FlattenerReads, PTL

(* What flattener.go says of a field's path -- "the \n-separated path from *)
(* the event root to this field value" -- holds of every stored field of a *)
(* plain event, at any time: FieldPathIsItsPlace fails for others only.    *)
THEOREM PlainPathsAreTheirPlaces == Spec => [](Plain => FieldPathIsItsPlace)
<1>1. ASSUME YInv, Plain PROVE FieldPathIsItsPlace
  <2> SUFFICES ASSUME NEW n \in Stored
               PROVE  \E l \in Leaves : fields[n].at = l.at /\ fields[n].path = NamesTo(l.at)
    BY DEF FieldPathIsItsPlace
  <2>1. n \in DOMAIN fields /\ fields[n].path # NoPath
    BY DEF Stored
  <2>2. PICK l \in Leaves : l.at = fields[n].at
    BY <1>1, <2>1 DEF YInv, ReadsParts
  <2>3. fields[n].path = PathAt(l.at)
    BY <1>1, <2>1, <2>2 DEF YInv, NodesFollow
  <2> QED BY <2>1, <2>2, <2>3 DEF PathAt
<1> QED BY <1>1, FlattenerReads, PTL

(* The theorems above assume no more of Json and the Events than           *)
(* JsonAssumption, which gives the parts of every Event as the least set   *)
(* that has the Event and what each of its members holds.  (The proof does *)
(* not use PartsAssumption.)                                               *)
THEOREM PartsExist ==
  \E parts \in [Events -> SUBSET [at : Places, value : Json]] :
    \A e \in Events :
      parts[e] = {[at |-> <<>>, value |-> e]} \cup UNION {Within(p) : p \in parts[e]}
<1> DEFINE All == [at : Places, value : Json]
           Whole(e, s) == [at |-> <<>>, value |-> e] \in s /\ \A p \in s : Within(p) \subseteq s
           Least(e) == {p \in All : \A s \in SUBSET All : Whole(e, s) => p \in s}
<1>1. ASSUME NEW p \in All PROVE Within(p) \subseteq All
  <2> SUFFICES ASSUME NEW r \in Within(p) PROVE r \in All
    OBVIOUS
  <2>1. p.at \in Places /\ p.value \in Json /\ p.value.kind # "leaf"
    BY DEF Within
  <2>2. DOMAIN p.value.values = 1..Len(p.value.values)
    BY <2>1, ValueShape
  <2>3. PICK n \in 1..Len(p.value.values) :
          r = [at |-> Append(p.at, StepTo(p.value, p.at, n)), value |-> p.value.values[n]]
    BY <2>1, <2>2 DEF Within
  <2>4. PICK st, at, v : st = StepTo(p.value, p.at, n) /\ at = p.at /\ v = p.value
    OBVIOUS
  <2>5. st \in Steps /\ v.values[n] \in Json
    BY <2>1, <2>3, <2>4, StepToShape, ValueShape
  <2>6. Append(at, st) \in Places
    BY <2>1, <2>4, <2>5, AppendSeq DEF Places
  <2> QED BY <2>3, <2>4, <2>5, <2>6
<1>2. ASSUME NEW e \in Events
      PROVE  Least(e) = {[at |-> <<>>, value |-> e]} \cup UNION {Within(p) : p \in Least(e)}
  <2> DEFINE Start == [at |-> <<>>, value |-> e]
             Again == {Start} \cup UNION {Within(p) : p \in Least(e)}
  <2>1. Start \in All
    BY JsonAssumption DEF Places
  <2>2. Start \in Least(e)
    BY <2>1
  <2>3. ASSUME NEW p \in Least(e) PROVE Within(p) \subseteq Least(e)
    <3> SUFFICES ASSUME NEW r \in Within(p), NEW s \in SUBSET All, Whole(e, s) PROVE r \in s
      BY <1>1
    <3> QED OBVIOUS
  <2>4. Again \subseteq Least(e)
    BY <2>2, <2>3
  <2>5. Again \in SUBSET All
    BY <2>4
  <2>6. Whole(e, Again)
    BY <2>4
  <2>7. Least(e) \subseteq Again
    <3> HIDE DEF Again
    <3> QED BY <2>5, <2>6
  <2> QED BY <2>4, <2>7
<1>3. [e \in Events |-> Least(e)] \in [Events -> SUBSET All]
  OBVIOUS
<1> HIDE DEF Least
<1> QED BY <1>2, <1>3
=============================================================================
