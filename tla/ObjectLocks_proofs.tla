------------------------- MODULE ObjectLocks_proofs -------------------------
(***************************************************************************)
(* For any number of drivers: an object has exactly the locks of what refers  *)
(* to it, the claims agree with their owners, and what a served request needs *)
(* is kept.  The argument counts: what a step adds to the locks of an object   *)
(* it adds to exactly one of the sets of what refers to it.                   *)
(***************************************************************************)
EXTENDS ObjectLocks, FiniteSetTheorems, TLAPS

-----------------------------------------------------------------------------
(* Counting *)

LEMMA FiniteKinds == IsFiniteSet(Object) /\ IsFiniteSet(Client) /\ IsFiniteSet(Request)
<1>1. IsFiniteSet(Client)
  BY ObjectLocksAssumption, FS_AddElement DEF Client
<1>2. IsFiniteSet({"cep", "ep"}) /\ IsFiniteSet(Object)
  <2>1. IsFiniteSet({"cep"} \cup {"ep"})
    BY FS_Singleton, FS_Union
  <2>2. IsFiniteSet({"cep", "ep"})
    <3>1. {"cep", "ep"} = {"cep"} \cup {"ep"}
      OBVIOUS
    <3> QED BY <2>1, <3>1
  <2>3. /\ IsFiniteSet({"hn"} \cup {"fn"}) /\ IsFiniteSet({"cn"} \cup {"ig"})
        /\ IsFiniteSet({"ih"} \cup {"in"})
    BY FS_Singleton, FS_Union
  <2>4. IsFiniteSet((({"hn"} \cup {"fn"}) \cup ({"cn"} \cup {"ig"}))
                    \cup (({"ih"} \cup {"in"}) \cup ({"cep"} \cup {"ep"})))
    BY <2>1, <2>3, FS_Union
  <2>5. Object = (({"hn"} \cup {"fn"}) \cup ({"cn"} \cup {"ig"}))
                 \cup (({"ih"} \cup {"in"}) \cup ({"cep"} \cup {"ep"}))
    BY DEF Object
  <2> QED BY <2>2, <2>4, <2>5
<1>3. IsFiniteSet(Request)
  BY <1>1, <1>2, FS_Product DEF Request
<1> QED BY <1>1, <1>2, <1>3

\* T has n elements more than S, and differs from it in one at most.
Changed(S, T, n) ==
    \/ n = 0 /\ T = S
    \/ n = 1 /\ \E x : x \notin S /\ T = S \cup {x}
    \/ n = 0 - 1 /\ \E x \in S : T = S \ {x}

LEMMA CountChanged ==
    ASSUME NEW S, IsFiniteSet(S), NEW T, NEW n, Changed(S, T, n)
    PROVE  /\ n \in Int /\ Cardinality(S) \in Nat /\ Cardinality(T) \in Nat
           /\ Cardinality(T) = Cardinality(S) + n
<1>1. Cardinality(S) \in Nat
  BY FS_CardinalityType
<1>2. CASE n = 0 /\ T = S
  BY <1>1, <1>2
<1>3. CASE n = 1 /\ \E x : x \notin S /\ T = S \cup {x}
  <2>1. PICK x : x \notin S /\ T = S \cup {x}
    BY <1>3
  <2>2. Cardinality(T) = Cardinality(S) + 1
    BY <2>1, FS_AddElement
  <2> QED BY <1>1, <1>3, <2>2
<1>4. CASE n = 0 - 1 /\ \E x \in S : T = S \ {x}
  <2>1. PICK x \in S : T = S \ {x}
    BY <1>4
  <2>2. IsFiniteSet(T) /\ Cardinality(T) = Cardinality(S) - 1
    BY <2>1, FS_RemoveElement
  <2>3. Cardinality(T) \in Nat
    BY <2>2, FS_CardinalityType
  <2> QED BY <1>1, <1>4, <2>2, <2>3
<1> QED BY <1>2, <1>3, <1>4 DEF Changed

-----------------------------------------------------------------------------
(* Objects that are made and freed, where nothing else refers to them *)

ParentsOf ==
    /\ Parents("hn") = {}           /\ Parents("fn") = {"hn"}
    /\ Parents("cep") = {"fn"}      /\ Parents("cn") = {"fn"}
    /\ Parents("ig") = {"fn", "cn"} /\ Parents("ih") = {"fn", "ig"}
    /\ Parents("in") = {"fn", "ih"} /\ Parents("ep") = {"fn", "in"}

LEMMA ParentsAre == ParentsOf /\ \A o \in Object : o \notin Parents(o) /\ Parents(o) \subseteq Object
<1>1. ParentsOf
  BY DEF ParentsOf, Parents
<1> QED BY <1>1 DEF ParentsOf, Object

\* The objects below o, where t tells what there is.
Below(t, o) == {p \in Object : t[p] = "live" /\ o \in Parents(p)}

\* What refers to an object but for the objects below it.
Others(o) ==
    Cardinality(Requests(o)) + Cardinality(Holders(o)) + Cardinality(Claimers(o))
    + (IF o \in {"fn", "hn"} THEN Cardinality(DriverNodes) + Cardinality(aborts) ELSE 0)
    + One(o = "fn" /\ own) + One(o = "fn" /\ message)

Objects == [st : [Object -> {"none", "live", "freed"}], locks : [Object -> Nat]]

\* Exact, of the objects s, where oth counts the other references.
Fits(s, oth) ==
    \A o \in Object :
        /\ s.locks[o] = Cardinality(Below(s.st, o)) + oth[o]
        /\ s.st[o] # "live" => Cardinality(Below(s.st, o)) + oth[o] = 0

LEMMA BelowFinite == ASSUME NEW t, NEW o PROVE IsFiniteSet(Below(t, o))
BY FiniteKinds, FS_Subset DEF Below

LEMMA MadeFits ==
    ASSUME NEW oth \in [Object -> Nat], NEW s \in Objects, Fits(s, oth), NEW o \in Object,
           s.st[o] # "live", \A p \in Parents(o) : s.st[p] = "live"
    PROVE  /\ Made(s, o) \in Objects /\ Fits(Made(s, o), oth)
           /\ Made(s, o).st = [s.st EXCEPT ![o] = "live"]
<1> DEFINE t == [s.st EXCEPT ![o] = "live"]
           l == Locked(s.locks, Parents(o))
<1>1. /\ Made(s, o) = [st |-> t, locks |-> l] /\ s.st \in [Object -> {"none", "live", "freed"}]
      /\ s.locks \in [Object -> Nat]
  BY DEF Made, Objects
<1>2. /\ t \in [Object -> {"none", "live", "freed"}] /\ l \in [Object -> Nat]
      /\ \A p \in Object : l[p] = s.locks[p] + One(p \in Parents(o))
      /\ \A p \in Object : t[p] = IF p = o THEN "live" ELSE s.st[p]
  BY <1>1 DEF Locked, One
<1>3. /\ Made(s, o) \in Objects /\ Made(s, o).st = t /\ Made(s, o).locks = l
  BY <1>1, <1>2 DEF Objects
<1> HIDE DEF t, l
<1>4. ASSUME NEW p \in Object
      PROVE  /\ l[p] = Cardinality(Below(t, p)) + oth[p]
             /\ t[p] # "live" => Cardinality(Below(t, p)) + oth[p] = 0
  <2>1. IsFiniteSet(Below(s.st, p))
    BY BelowFinite
  <2>2. Changed(Below(s.st, p), Below(t, p), One(p \in Parents(o)))
    <3>1. CASE p \in Parents(o)
      <4>1. o \notin Below(s.st, p) /\ Below(t, p) = Below(s.st, p) \cup {o}
        BY <1>2, <3>1 DEF Below
      <4> QED BY <3>1, <4>1 DEF Changed, One
    <3>2. CASE p \notin Parents(o)
      <4>1. Below(t, p) = Below(s.st, p)
        BY <1>2, <3>2 DEF Below
      <4> QED BY <3>2, <4>1 DEF Changed, One
    <3> QED BY <3>1, <3>2
  <2>5. /\ Cardinality(Below(s.st, p)) \in Nat
        /\ Cardinality(Below(t, p)) = Cardinality(Below(s.st, p)) + One(p \in Parents(o))
    BY <2>1, <2>2, CountChanged
  <2>3. /\ s.locks[p] = Cardinality(Below(s.st, p)) + oth[p]
        /\ s.st[p] # "live" => Cardinality(Below(s.st, p)) + oth[p] = 0
        /\ oth[p] \in Nat
    BY DEF Fits
  <2>4. t[p] # "live" => s.st[p] # "live" /\ p \notin Parents(o)
    BY <1>2
  <2> QED BY <1>2, <2>5, <2>3, <2>4 DEF One
<1> QED BY <1>3, <1>4 DEF Fits, t

LEMMA FreeOneFits ==
    ASSUME NEW oth \in [Object -> Nat], NEW s \in Objects, Fits(s, oth), NEW o \in Object
    PROVE  /\ FreeOne(s, o) \in Objects /\ Fits(FreeOne(s, o), oth)
           /\ \A p \in Object : p # o => FreeOne(s, o).st[p] = s.st[p]
<1> DEFINE t == [s.st EXCEPT ![o] = "freed"]
           l == Unlocked(s.locks, Parents(o))
<1>1. s.st \in [Object -> {"none", "live", "freed"}] /\ s.locks \in [Object -> Nat]
  BY DEF Objects
<1>2. CASE ~ (s.st[o] = "live" /\ s.locks[o] = 0)
  BY <1>2 DEF FreeOne
<1>3. CASE s.st[o] = "live" /\ s.locks[o] = 0
  <2>1. FreeOne(s, o) = [st |-> t, locks |-> l]
    BY <1>3 DEF FreeOne
  <2>2. /\ t \in [Object -> {"none", "live", "freed"}]
        /\ \A p \in Object : t[p] = IF p = o THEN "freed" ELSE s.st[p]
        /\ \A p \in Object : l[p] = s.locks[p] - One(p \in Parents(o))
        /\ l = [p \in Object |-> l[p]]
    BY <1>1 DEF Unlocked, One
  <2>3. FreeOne(s, o).st = t /\ FreeOne(s, o).locks = l
    BY <2>1
  <2> HIDE DEF t, l
  <2>4. ASSUME NEW p \in Object
        PROVE  /\ l[p] = Cardinality(Below(t, p)) + oth[p]
               /\ l[p] \in Nat
               /\ t[p] # "live" => Cardinality(Below(t, p)) + oth[p] = 0
    <3>1. IsFiniteSet(Below(s.st, p))
      BY BelowFinite
    <3>5. Changed(Below(s.st, p), Below(t, p), 0 - One(p \in Parents(o)))
      <4>1. CASE p \in Parents(o)
        <5>1. o \in Below(s.st, p) /\ Below(t, p) = Below(s.st, p) \ {o}
          BY <1>3, <2>2, <4>1 DEF Below
        <5> QED BY <4>1, <5>1 DEF Changed, One
      <4>2. CASE p \notin Parents(o)
        <5>1. Below(t, p) = Below(s.st, p)
          BY <2>2, <4>2 DEF Below
        <5>2. One(p \in Parents(o)) = 0
          BY <4>2 DEF One
        <5> QED BY <5>1, <5>2 DEF Changed
      <4> QED BY <4>1, <4>2
    <3>2. /\ Cardinality(Below(s.st, p)) \in Nat /\ Cardinality(Below(t, p)) \in Nat
          /\ Cardinality(Below(t, p)) = Cardinality(Below(s.st, p)) + (0 - One(p \in Parents(o)))
      BY <3>1, <3>5, CountChanged
    <3>3. /\ s.locks[p] = Cardinality(Below(s.st, p)) + oth[p]
          /\ s.st[p] # "live" => Cardinality(Below(s.st, p)) + oth[p] = 0
          /\ oth[p] \in Nat
      BY DEF Fits
    <3>4. t[p] # "live" => s.st[p] # "live" \/ (p = o /\ p \notin Parents(o))
      BY <2>2, ParentsAre
    <3>6. /\ l[p] = s.locks[p] - One(p \in Parents(o))
          /\ One(p \in Parents(o)) = IF p \in Parents(o) THEN 1 ELSE 0
      BY <2>2 DEF One
    <3>7. l[p] = Cardinality(Below(t, p)) + oth[p] /\ l[p] \in Nat
      <4>1. CASE p \in Parents(o)
        BY <3>2, <3>3, <3>6, <4>1
      <4>2. CASE p \notin Parents(o)
        BY <3>2, <3>3, <3>6, <4>2
      <4> QED BY <4>1, <4>2
    <3>8. ASSUME t[p] # "live" PROVE Cardinality(Below(t, p)) + oth[p] = 0
      <4>1. CASE s.st[p] # "live"
        <5>1. Cardinality(Below(s.st, p)) = 0 /\ oth[p] = 0
          BY <3>2, <3>3, <4>1
        <5> QED BY <3>2, <3>6, <5>1
      <4>2. CASE p = o /\ p \notin Parents(o)
        <5>1. s.locks[p] = 0 /\ l[p] = s.locks[p] - 0
          BY <1>3, <3>6, <4>2
        <5> QED BY <3>7, <5>1
      <4> QED BY <3>4, <3>8, <4>1, <4>2
    <3> QED BY <3>7, <3>8
  <2>5. l \in [Object -> Nat]
    BY <2>2, <2>4
  <2>6. FreeOne(s, o) \in Objects
    BY <2>1, <2>2, <2>5 DEF Objects
  <2> QED BY <2>2, <2>3, <2>4, <2>6 DEF Fits
<1> QED BY <1>2, <1>3

-----------------------------------------------------------------------------
(* Exact, object by object *)

LEMMA FiniteSets ==
    ASSUME Kinds, NEW o
    PROVE  /\ IsFiniteSet(Children(o)) /\ IsFiniteSet(Requests(o)) /\ IsFiniteSet(Holders(o))
           /\ IsFiniteSet(Claimers(o)) /\ IsFiniteSet(DriverNodes) /\ IsFiniteSet(aborts)
           /\ IsFiniteSet(InHCD)
<1>1. /\ Children(o) \subseteq Object /\ Requests(o) \subseteq Request
      /\ Holders(o) \subseteq Client /\ Claimers(o) \subseteq Client
      /\ DriverNodes \subseteq Client /\ aborts \subseteq Request /\ InHCD \subseteq Request
  BY DEF Children, Requests, Holders, Claimers, DriverNodes, InHCD, Kinds, Client
<1> QED BY <1>1, FiniteKinds, FS_Subset

LEMMA Counts ==
    ASSUME Kinds, NEW o
    PROVE  /\ Cardinality(Children(o)) \in Nat /\ Cardinality(Requests(o)) \in Nat
           /\ Cardinality(Holders(o)) \in Nat /\ Cardinality(Claimers(o)) \in Nat
           /\ Cardinality(DriverNodes) \in Nat /\ Cardinality(aborts) \in Nat
           /\ One(o = "fn" /\ own) \in Nat /\ One(o = "fn" /\ message) \in Nat
           /\ Others(o) \in Nat /\ Others(o) <= References(o) /\ References(o) \in Nat
           /\ References(o) = Cardinality(Below(st, o)) + Others(o)
<1>1. /\ Cardinality(Children(o)) \in Nat /\ Cardinality(Requests(o)) \in Nat
      /\ Cardinality(Holders(o)) \in Nat /\ Cardinality(Claimers(o)) \in Nat
      /\ Cardinality(DriverNodes) \in Nat /\ Cardinality(aborts) \in Nat
  BY FiniteSets, FS_CardinalityType
<1>2. One(o = "fn" /\ own) \in Nat /\ One(o = "fn" /\ message) \in Nat
  BY DEF One
<1>3. Children(o) = Below(st, o)
  BY DEF Children, Below, Valid
<1> QED BY <1>1, <1>2, <1>3 DEF Others, References

\* What refers to an object proves that it is in use.
LEMMA InUse ==
    ASSUME Kinds, Exact
    PROVE  /\ \A o \in Object :
                 \/ Children(o) # {} \/ Requests(o) # {} \/ Holders(o) # {} \/ Claimers(o) # {}
                 => Valid(o)
           /\ DriverNodes # {} \/ aborts # {} => Valid("fn") /\ Valid("hn")
           /\ own \/ message => Valid("fn")
<1>1. ASSUME NEW o \in Object, ~ Valid(o)
      PROVE  /\ Cardinality(Children(o)) = 0 /\ Cardinality(Requests(o)) = 0
             /\ Cardinality(Holders(o)) = 0 /\ Cardinality(Claimers(o)) = 0
             /\ o \in {"fn", "hn"} => Cardinality(DriverNodes) = 0 /\ Cardinality(aborts) = 0
             /\ One(o = "fn" /\ own) = 0 /\ One(o = "fn" /\ message) = 0
  <2>1. References(o) = 0
    BY <1>1 DEF Exact
  <2>2. PICK n1 \in Nat, n2 \in Nat, n3 \in Nat, n4 \in Nat, n5 \in Nat, n6 \in Nat :
           /\ n1 = Cardinality(Children(o)) /\ n2 = Cardinality(Requests(o))
           /\ n3 = Cardinality(Holders(o)) /\ n4 = Cardinality(Claimers(o))
           /\ n5 = Cardinality(DriverNodes) /\ n6 = Cardinality(aborts)
    BY Counts
  <2>3. PICK w \in Nat, m \in Nat : w = One(o = "fn" /\ own) /\ m = One(o = "fn" /\ message)
    BY DEF One
  <2>4. CASE o \in {"fn", "hn"}
    <3>1. n1 + n2 + n3 + n4 + (n5 + n6) + w + m = 0
      BY <2>1, <2>2, <2>3, <2>4 DEF References
    <3>2. n1 = 0 /\ n2 = 0 /\ n3 = 0 /\ n4 = 0 /\ n5 = 0 /\ n6 = 0 /\ w = 0 /\ m = 0
      BY <3>1
    <3> QED BY <2>2, <2>3, <3>2
  <2>5. CASE o \notin {"fn", "hn"}
    <3>1. n1 + n2 + n3 + n4 + 0 + w + m = 0
      BY <2>1, <2>2, <2>3, <2>5 DEF References
    <3>2. n1 = 0 /\ n2 = 0 /\ n3 = 0 /\ n4 = 0 /\ w = 0 /\ m = 0
      BY <3>1
    <3> QED BY <2>2, <2>3, <2>5, <3>2
  <2> QED BY <2>4, <2>5
<1>2. ASSUME NEW o \in Object, ~ Valid(o)
      PROVE  /\ Children(o) = {} /\ Requests(o) = {} /\ Holders(o) = {} /\ Claimers(o) = {}
             /\ o \in {"fn", "hn"} => DriverNodes = {} /\ aborts = {}
             /\ o = "fn" => ~ own /\ ~ message
  <2>1. o \in {"fn", "hn"} => DriverNodes = {} /\ aborts = {}
    BY <1>1, <1>2, FiniteSets, FS_EmptySet
  <2>2. Children(o) = {} /\ Requests(o) = {} /\ Holders(o) = {} /\ Claimers(o) = {}
    BY <1>1, <1>2, FiniteSets, FS_EmptySet
  <2>3. o = "fn" => ~ own /\ ~ message
    BY <1>1, <1>2 DEF One
  <2> QED BY <2>1, <2>2, <2>3
<1> QED BY <1>2 DEF Object

LEMMA ExactFits ==
    ASSUME Kinds, locks \in [Object -> Nat]
    PROVE  /\ [st |-> st, locks |-> locks] \in Objects
           /\ [o \in Object |-> Others(o)] \in [Object -> Nat]
           /\ Exact <=> Fits([st |-> st, locks |-> locks], [o \in Object |-> Others(o)])
<1>1. [st |-> st, locks |-> locks] \in Objects
  BY DEF Objects, Kinds
<1>2. [o \in Object |-> Others(o)] \in [Object -> Nat]
  BY Counts
<1>3. Exact <=> Fits([st |-> st, locks |-> locks], [o \in Object |-> Others(o)])
  BY Counts DEF Exact, Fits, Valid
<1> QED BY <1>1, <1>2, <1>3

-----------------------------------------------------------------------------
(* What a step does to the references to an object *)

ExactAt(o) == locks[o] = References(o) /\ (~ Valid(o) => References(o) = 0)

\* A step that neither makes nor frees an object, and takes of an object as many locks as there
\* are more references to it: to an object that is in use, if any.
LEMMA Moves ==
    ASSUME Kinds, Exact, NEW o \in Object, st' = st,
           NEW r, Changed(Requests(o), Requests(o)', r),
           NEW h, Changed(Holders(o), Holders(o)', h),
           NEW k, Changed(Claimers(o), Claimers(o)', k),
           NEW d, Changed(DriverNodes, DriverNodes', d),
           NEW a, Changed(aborts, aborts', a),
           NEW w \in Int, One(own)' + One(message)' = One(own) + One(message) + w,
           locks'[o] = locks[o] + (r + h + k + (IF o \in {"fn", "hn"} THEN d + a ELSE 0)
                                   + (IF o = "fn" THEN w ELSE 0)),
           locks'[o] > locks[o] => Valid(o)
    PROVE  ExactAt(o)'
<1>1. PICK n0 \in Nat, n1 \in Nat, n2 \in Nat, n3 \in Nat, n4 \in Nat, n5 \in Nat :
         /\ n0 = Cardinality(Children(o)) /\ n1 = Cardinality(Requests(o))
         /\ n2 = Cardinality(Holders(o)) /\ n3 = Cardinality(Claimers(o))
         /\ n4 = Cardinality(DriverNodes) /\ n5 = Cardinality(aborts)
  BY Counts
<1>2. PICK r1 \in Int, h1 \in Int, k1 \in Int, d1 \in Int, a1 \in Int :
         /\ r = r1 /\ h = h1 /\ k = k1 /\ d = d1 /\ a = a1
         /\ n1 + r1 \in Nat /\ Cardinality(Requests(o)') = n1 + r1
         /\ n2 + h1 \in Nat /\ Cardinality(Holders(o)') = n2 + h1
         /\ n3 + k1 \in Nat /\ Cardinality(Claimers(o)') = n3 + k1
         /\ n4 + d1 \in Nat /\ Cardinality(DriverNodes') = n4 + d1
         /\ n5 + a1 \in Nat /\ Cardinality(aborts') = n5 + a1
  <2>1. /\ r \in Int /\ Cardinality(Requests(o)') \in Nat /\ Cardinality(Requests(o)') = n1 + r
        /\ h \in Int /\ Cardinality(Holders(o)') \in Nat /\ Cardinality(Holders(o)') = n2 + h
        /\ k \in Int /\ Cardinality(Claimers(o)') \in Nat /\ Cardinality(Claimers(o)') = n3 + k
    BY <1>1, CountChanged, FiniteSets
  <2>2. /\ d \in Int /\ Cardinality(DriverNodes') \in Nat /\ Cardinality(DriverNodes') = n4 + d
        /\ a \in Int /\ Cardinality(aborts') \in Nat /\ Cardinality(aborts') = n5 + a
    BY <1>1, CountChanged, FiniteSets
  <2> QED BY <2>1, <2>2
<1>3. PICK u \in Int, v \in Int, u1 \in Int, v1 \in Int :
         /\ u = One(own) /\ v = One(message) /\ u1 = One(own)' /\ v1 = One(message)'
         /\ u1 >= 0 /\ v1 >= 0 /\ u1 + v1 = u + v + w
  BY DEF One
<1>4. Cardinality(Children(o)') = n0
  BY <1>1 DEF Children, Valid
<1>5. PICK l \in Int : l = locks[o] /\ l = References(o) /\ (~ Valid(o) => l = 0)
  BY Counts DEF Exact
<1>6. Valid(o)' = Valid(o)
  BY DEF Valid
<1>7. CASE o = "fn"
  <2>1. l = n0 + n1 + n2 + n3 + (n4 + n5) + u + v
    BY <1>1, <1>3, <1>5, <1>7 DEF References, One
  <2>2. References(o)' = n0 + (n1 + r1) + (n2 + h1) + (n3 + k1) + ((n4 + d1) + (n5 + a1)) + u1 + v1
    BY <1>2, <1>3, <1>4, <1>7 DEF References, One
  <2>3. locks'[o] = l + (r1 + h1 + k1 + (d1 + a1) + w)
    BY <1>2, <1>5, <1>7
  <2>4. PICK x \in Nat : x = References(o)' /\ x = locks'[o]
    BY <1>2, <1>3, <2>1, <2>2, <2>3
  <2> QED BY <1>5, <1>6, <2>4 DEF ExactAt
<1>8. CASE o = "hn"
  <2>1. l = n0 + n1 + n2 + n3 + (n4 + n5) + 0 + 0
    BY <1>1, <1>3, <1>5, <1>8 DEF References, One
  <2>2. References(o)' = n0 + (n1 + r1) + (n2 + h1) + (n3 + k1) + ((n4 + d1) + (n5 + a1)) + 0 + 0
    BY <1>2, <1>3, <1>4, <1>8 DEF References, One
  <2>3. locks'[o] = l + (r1 + h1 + k1 + (d1 + a1) + 0)
    BY <1>2, <1>5, <1>8
  <2>4. PICK x \in Nat : x = References(o)' /\ x = locks'[o]
    BY <1>2, <1>3, <2>1, <2>2, <2>3
  <2> QED BY <1>5, <1>6, <2>4 DEF ExactAt
<1>9. CASE o \notin {"fn", "hn"}
  <2>1. l = n0 + n1 + n2 + n3 + 0 + 0 + 0
    BY <1>1, <1>3, <1>5, <1>9 DEF References, One
  <2>2. References(o)' = n0 + (n1 + r1) + (n2 + h1) + (n3 + k1) + 0 + 0 + 0
    BY <1>2, <1>3, <1>4, <1>9 DEF References, One
  <2>3. locks'[o] = l + (r1 + h1 + k1 + 0 + 0)
    BY <1>2, <1>5, <1>9
  <2>4. PICK x \in Nat : x = References(o)' /\ x = locks'[o]
    BY <1>2, <2>1, <2>2, <2>3
  <2> QED BY <1>5, <1>6, <2>4 DEF ExactAt
<1> QED BY <1>7, <1>8, <1>9

LEMMA Still ==
    /\ req' = req => InHCD' = InHCD /\ \A o : Requests(o)' = Requests(o)
    /\ has' = has => \A o : Holders(o)' = Holders(o) /\ Claimers(o)' = Claimers(o)
    /\ pc' = pc => DriverNodes' = DriverNodes
<1>1. req' = req => InHCD' = InHCD /\ \A o : Requests(o)' = Requests(o)
  BY DEF Requests, Alive, InHCD
<1>2. has' = has => \A o : Holders(o)' = Holders(o) /\ Claimers(o)' = Claimers(o)
  BY DEF Holders, Claimers
<1>3. pc' = pc => DriverNodes' = DriverNodes
  BY DEF DriverNodes
<1> QED BY <1>1, <1>2, <1>3

LEMMA StepNodes ==
    ASSUME Kinds, NEW c \in Client, NEW l, Step(c, l),
           c = init \/ (pc[c] \notin {"none", "gone"} /\ l \notin {"none", "gone"})
    PROVE  DriverNodes' = DriverNodes
BY ObjectLocksAssumption DEF Kinds, Step, DriverNodes, Client

\* The hub's port and the message have w more references to the function.
PortTakes(o, w) ==
    /\ One(own)' + One(message)' = One(own) + One(message) + w
    /\ locks'[o] = locks[o] + (IF o = "fn" THEN w ELSE 0)

\* What else stays is named by each: the locks of the hub's port and of a message ...
LEMMA PortMoves ==
    ASSUME Kinds, Exact, NEW o \in Object, st' = st, DriverNodes' = DriverNodes, aborts' = aborts,
           Requests(o)' = Requests(o), Holders(o)' = Holders(o), Claimers(o)' = Claimers(o),
           NEW w \in Int, PortTakes(o, w), w > 0 => Valid("fn")
    PROVE  ExactAt(o)'
<1>1. /\ Changed(Requests(o), Requests(o)', 0) /\ Changed(Holders(o), Holders(o)', 0)
      /\ Changed(Claimers(o), Claimers(o)', 0) /\ Changed(DriverNodes, DriverNodes', 0)
      /\ Changed(aborts, aborts', 0)
  BY DEF Changed
<1>2. PICK n \in Nat : n = locks[o]
  BY Counts DEF Exact
<1>3. /\ locks'[o] = locks[o] + (0 + 0 + 0 + (IF o \in {"fn", "hn"} THEN 0 + 0 ELSE 0)
                                 + (IF o = "fn" THEN w ELSE 0))
      /\ locks'[o] > locks[o] => Valid(o)
  BY <1>2 DEF PortTakes
<1>4. One(own)' + One(message)' = One(own) + One(message) + w
  BY DEF PortTakes
<1> QED BY <1>1, <1>3, <1>4, Moves

\* ... those of DriverNodes and of the messages of aborts ...
LEMMA NodeMoves ==
    ASSUME Kinds, Exact, NEW o \in Object, st' = st, own' = own, message' = message,
           Requests(o)' = Requests(o), Holders(o)' = Holders(o), Claimers(o)' = Claimers(o),
           NEW d \in Int, Changed(DriverNodes, DriverNodes', d),
           NEW a \in Int, Changed(aborts, aborts', a),
           locks'[o] = locks[o] + (IF o \in {"fn", "hn"} THEN d + a ELSE 0),
           d + a > 0 => Valid("fn") /\ Valid("hn")
    PROVE  ExactAt(o)'
<1>1. /\ Changed(Requests(o), Requests(o)', 0) /\ Changed(Holders(o), Holders(o)', 0)
      /\ Changed(Claimers(o), Claimers(o)', 0)
  BY DEF Changed
<1>2. PICK n \in Nat : n = locks[o]
  BY Counts DEF Exact
<1>3. /\ locks'[o] = locks[o] + (0 + 0 + 0 + (IF o \in {"fn", "hn"} THEN d + a ELSE 0)
                                 + (IF o = "fn" THEN 0 ELSE 0))
      /\ locks'[o] > locks[o] => Valid(o)
  BY <1>2
<1>4. One(own)' + One(message)' = One(own) + One(message) + 0
  BY DEF One
<1> QED BY <1>1, <1>3, <1>4, Moves

\* ... and those of requests, of registers and of claims.
LEMMA UserMoves ==
    ASSUME Kinds, Exact, NEW o \in Object, st' = st, own' = own, message' = message,
           DriverNodes' = DriverNodes, aborts' = aborts,
           NEW r \in Int, Changed(Requests(o), Requests(o)', r),
           NEW h \in Int, Changed(Holders(o), Holders(o)', h),
           NEW k \in Int, Changed(Claimers(o), Claimers(o)', k),
           locks'[o] = locks[o] + (r + h + k),
           r + h + k > 0 => Valid(o)
    PROVE  ExactAt(o)'
<1>1. Changed(DriverNodes, DriverNodes', 0) /\ Changed(aborts, aborts', 0)
  BY DEF Changed
<1>2. PICK n \in Nat : n = locks[o]
  BY Counts DEF Exact
<1>3. /\ locks'[o] = locks[o] + (r + h + k + (IF o \in {"fn", "hn"} THEN 0 + 0 ELSE 0)
                                 + (IF o = "fn" THEN 0 ELSE 0))
      /\ locks'[o] > locks[o] => Valid(o)
  BY <1>2
<1>4. One(own)' + One(message)' = One(own) + One(message) + 0
  BY DEF One
<1> QED BY <1>1, <1>3, <1>4, Moves

\* Nothing that counts has changed.
LEMMA NothingMoves ==
    ASSUME Kinds, Exact, NEW o \in Object, st' = st, locks' = locks, own' = own, message' = message,
           DriverNodes' = DriverNodes, aborts' = aborts,
           Requests(o)' = Requests(o), Holders(o)' = Holders(o), Claimers(o)' = Claimers(o)
    PROVE  ExactAt(o)'
<1>1. One(own)' + One(message)' = One(own) + One(message) + 0
  BY DEF One
<1>2. PICK n \in Nat : n = locks[o]
  BY Counts DEF Exact
<1>3. PortTakes(o, 0)
  BY <1>1, <1>2 DEF PortTakes
<1> QED BY <1>3, PortMoves

-----------------------------------------------------------------------------
(* Every step keeps the locks exact *)

\* LocksInvariant, where the counters' types follow from the rest.
Core ==
    /\ Kinds /\ locks = [o \in Object |-> locks[o]]
    /\ Exact /\ ClaimsAgree /\ HubPlace /\ ClientPlace
    /\ activeIO = Cardinality(InHCD)

LEMMA CoreSuffices == Core => LocksInvariant
<1> SUFFICES ASSUME Core PROVE TypeOK
  BY DEF Core, LocksInvariant
<1>1. \A o \in Object : locks[o] \in Nat
  BY Counts DEF Core, Exact
<1>2. claims \in 0 .. 1
  BY DEF Core, ClaimsAgree, One
<1>3. InHCD \subseteq Request
  BY DEF InHCD
<1>4. activeIO \in 0 .. Cardinality(Request)
  BY <1>3, FiniteKinds, FS_Subset, FS_CardinalityType DEF Core
<1> QED BY <1>1, <1>2, <1>4 DEF Core, TypeOK

LEMMA InvariantParts ==
    LocksInvariant => Kinds /\ Exact /\ ClaimsAgree /\ HubPlace /\ ClientPlace /\ locks \in [Object -> Nat]
BY DEF LocksInvariant, TypeOK

LEMMA SameIO ==
    ASSUME LocksInvariant, req' = req, activeIO' = activeIO
    PROVE  activeIO' = Cardinality(InHCD')
BY Still DEF LocksInvariant

LEMMA InitialisedKeeps == ASSUME LocksInvariant, Initialised PROVE Core'
<1> USE InvariantParts
<1>1. Kinds' /\ HubPlace' /\ ClientPlace' /\ ClaimsAgree'
  <2>1. Kinds'
    BY DEF Kinds, Initialised, clientVars, ioVars, claimVars
  <2>2. HubPlace'
    BY DEF Kinds, Initialised, clientVars, HubPlace, Valid
  <2>3. ClientPlace'
    BY DEF Initialised, clientVars, ioVars, claimVars, ClientPlace, ClientAt
  <2>4. ClaimsAgree'
    BY DEF Initialised, clientVars, claimVars, ClaimsAgree
  <2> QED BY <2>1, <2>2, <2>3, <2>4
<1>2. locks' = [o \in Object |-> locks'[o]]
  BY DEF Initialised
<1>3. ASSUME NEW o \in Object PROVE ExactAt(o)'
  <2>1. Valid("fn") /\ own = FALSE /\ message = FALSE /\ st' = st /\ locks[o] \in Nat
    BY DEF Initialised, HubPlace, Kinds
  <2>2. /\ Requests(o)' = Requests(o) /\ Holders(o)' = Holders(o) /\ Claimers(o)' = Claimers(o)
        /\ DriverNodes' = DriverNodes /\ aborts' = aborts
    BY Still DEF Initialised, clientVars, ioVars
  <2>3. CASE own' = TRUE /\ locks' = [locks EXCEPT !["fn"] = @ + 1]
    <3>1. PortTakes(o, 1)
      BY <2>1, <2>3 DEF One, Initialised, PortTakes
    <3> QED BY <2>1, <2>2, <3>1, PortMoves
  <2>4. CASE own' = own /\ locks' = locks
    BY <2>1, <2>2, <2>4, NothingMoves DEF Initialised
  <2> QED BY <2>3, <2>4 DEF Initialised
<1>4. activeIO' = Cardinality(InHCD')
  BY SameIO DEF Initialised, ioVars
<1> QED BY <1>1, <1>2, <1>3, <1>4 DEF Core, Exact, ExactAt

LEMMA UnplugKeeps == ASSUME LocksInvariant, Unplug PROVE Core'
<1> USE InvariantParts
<1>1. Kinds' /\ HubPlace' /\ ClientPlace' /\ ClaimsAgree'
  <2>1. Kinds'
    BY DEF Kinds, Unplug, clientVars, ioVars, claimVars
  <2>2. HubPlace'
    BY DEF Kinds, Unplug, clientVars, HubPlace, Valid
  <2>3. ClientPlace' /\ ClaimsAgree'
    BY DEF Unplug, clientVars, ioVars, claimVars, ClientPlace, ClientAt, ClaimsAgree
  <2> QED BY <2>1, <2>2, <2>3
<1>2. locks' = [o \in Object |-> locks'[o]]
  BY DEF Unplug
<1>3. ASSUME NEW o \in Object PROVE ExactAt(o)'
  <2>1. own = TRUE /\ message = FALSE /\ own' = FALSE /\ st' = st /\ locks[o] \in Nat
    BY DEF Unplug, HubPlace, Kinds
  <2>2. /\ Requests(o)' = Requests(o) /\ Holders(o)' = Holders(o) /\ Claimers(o)' = Claimers(o)
        /\ DriverNodes' = DriverNodes /\ aborts' = aborts
    BY Still DEF Unplug, clientVars, ioVars
  <2>3. CASE message' = TRUE /\ locks' = locks
    <3>1. PortTakes(o, 0)
      BY <2>1, <2>3 DEF One, PortTakes
    <3> QED BY <2>1, <2>2, <3>1, PortMoves
  <2>4. CASE message' = FALSE /\ locks' = [locks EXCEPT !["fn"] = @ - 1]
    <3>1. PortTakes(o, 0 - 1)
      BY <2>1, <2>4 DEF One, PortTakes
    <3> QED BY <2>1, <2>2, <3>1, PortMoves
  <2> QED BY <2>3, <2>4 DEF Unplug
<1>4. activeIO' = Cardinality(InHCD')
  BY SameIO DEF Unplug, ioVars
<1> QED BY <1>1, <1>2, <1>3, <1>4 DEF Core, Exact, ExactAt

LEMMA StopHubKeeps == ASSUME LocksInvariant, StopHub PROVE Core'
<1> USE InvariantParts
<1>1. Kinds' /\ HubPlace' /\ ClientPlace' /\ ClaimsAgree'
  <2>1. Kinds'
    BY DEF Kinds, StopHub, clientVars, ioVars, claimVars
  <2>2. HubPlace'
    BY DEF Kinds, StopHub, clientVars, HubPlace, Valid
  <2>3. ClientPlace' /\ ClaimsAgree'
    BY DEF StopHub, clientVars, ioVars, claimVars, ClientPlace, ClientAt, ClaimsAgree
  <2> QED BY <2>1, <2>2, <2>3
<1>2. locks' = [o \in Object |-> locks'[o]]
  BY DEF StopHub
<1>3. ASSUME NEW o \in Object PROVE ExactAt(o)'
  <2>1. own = TRUE /\ own' = FALSE /\ message' = message /\ st' = st /\ locks[o] \in Nat
    BY DEF StopHub, HubPlace, Kinds
  <2>2. /\ Requests(o)' = Requests(o) /\ Holders(o)' = Holders(o) /\ Claimers(o)' = Claimers(o)
        /\ DriverNodes' = DriverNodes /\ aborts' = aborts
    BY Still DEF StopHub, clientVars, ioVars
  <2>3. PortTakes(o, 0 - 1)
    BY <2>1 DEF One, PortTakes, StopHub
  <2> QED BY <2>1, <2>2, <2>3, PortMoves
<1>4. activeIO' = Cardinality(InHCD')
  BY SameIO DEF StopHub, ioVars
<1> QED BY <1>1, <1>2, <1>3, <1>4 DEF Core, Exact, ExactAt

LEMMA MasterDetachKeeps == ASSUME LocksInvariant, MasterDetach PROVE Core'
<1> USE InvariantParts
<1>1. Kinds' /\ HubPlace' /\ ClientPlace' /\ ClaimsAgree'
  <2>1. Kinds'
    BY DEF Kinds, MasterDetach, clientVars, ioVars, claimVars
  <2>2. HubPlace'
    BY DEF Kinds, MasterDetach, clientVars, HubPlace, Valid
  <2>3. ClientPlace' /\ ClaimsAgree'
    BY DEF MasterDetach, clientVars, ioVars, claimVars, ClientPlace, ClientAt, ClaimsAgree
  <2> QED BY <2>1, <2>2, <2>3
<1>2. locks' = [o \in Object |-> locks'[o]]
  BY DEF MasterDetach
<1>3. ASSUME NEW o \in Object PROVE ExactAt(o)'
  <2>1. message /\ own' = own /\ message' = FALSE /\ st' = st /\ locks[o] \in Nat
    BY DEF MasterDetach
  <2>2. /\ Requests(o)' = Requests(o) /\ Holders(o)' = Holders(o) /\ Claimers(o)' = Claimers(o)
        /\ DriverNodes' = DriverNodes /\ aborts' = aborts
    BY Still DEF MasterDetach, clientVars, ioVars
  <2>3. PortTakes(o, 0 - 1)
    BY <2>1 DEF One, PortTakes, MasterDetach
  <2> QED BY <2>1, <2>2, <2>3, PortMoves
<1>4. activeIO' = Cardinality(InHCD')
  BY SameIO DEF MasterDetach, ioVars
<1> QED BY <1>1, <1>2, <1>3, <1>4 DEF Core, Exact, ExactAt

\* A request that is given another state v.
LEMMA RequestTurns ==
    ASSUME LocksInvariant, NEW q \in Request, NEW v, req' = [req EXCEPT ![q] = v],
           Alive(q) <=> v \in {"user", "tested", "port", "hcd", "lost"}
    PROVE  \A o : Requests(o)' = Requests(o)
<1>1. req \in [Request -> {"none", "user", "tested", "port", "hcd", "freed", "dangling", "lost"}]
  BY InvariantParts DEF Kinds
<1>2. req'[q] = v /\ \A p \in Request : p # q => req'[p] = req[p]
  BY <1>1
<1>3. \A p \in Request : (Alive(p))' <=> Alive(p)
  BY <1>2 DEF Alive
<1> QED BY <1>3 DEF Requests

LEMMA HCDTurns ==
    ASSUME LocksInvariant, NEW q \in Request, NEW v, req' = [req EXCEPT ![q] = v],
           \/ v # "hcd" /\ req[q] # "hcd" /\ activeIO' = activeIO
           \/ v = "hcd" /\ req[q] # "hcd" /\ activeIO' = activeIO + 1
           \/ v # "hcd" /\ req[q] = "hcd" /\ activeIO' = activeIO - 1
    PROVE  activeIO' = Cardinality(InHCD')
<1>1. /\ req \in [Request -> {"none", "user", "tested", "port", "hcd", "freed", "dangling", "lost"}]
      /\ IsFiniteSet(InHCD) /\ activeIO = Cardinality(InHCD)
  BY InvariantParts, FiniteSets DEF Kinds, LocksInvariant
<1>2. req'[q] = v /\ \A p \in Request : p # q => req'[p] = req[p]
  BY <1>1
<1>3. CASE v # "hcd" /\ req[q] # "hcd" /\ activeIO' = activeIO
  <2>1. InHCD' = InHCD
    BY <1>2, <1>3 DEF InHCD
  <2> QED BY <1>1, <1>3, <2>1
<1>4. CASE v = "hcd" /\ req[q] # "hcd" /\ activeIO' = activeIO + 1
  <2>1. q \notin InHCD /\ InHCD' = InHCD \cup {q}
    BY <1>2, <1>4 DEF InHCD
  <2> QED BY <1>1, <1>4, <2>1, FS_AddElement
<1>5. CASE v # "hcd" /\ req[q] = "hcd" /\ activeIO' = activeIO - 1
  <2>1. q \in InHCD /\ InHCD' = InHCD \ {q}
    BY <1>2, <1>5 DEF InHCD
  <2> QED BY <1>1, <1>5, <2>1, FS_RemoveElement
<1> QED BY <1>3, <1>4, <1>5

LEMMA BindDriverKeeps == ASSUME LocksInvariant, NEW c \in Driver, BindDriver(c) PROVE Core'
<1> USE InvariantParts
<1>1. Kinds' /\ HubPlace' /\ ClientPlace' /\ ClaimsAgree'
  <2>1. Kinds'
    BY DEF Kinds, BindDriver, Step, hubVars, ioVars, claimVars, Client
  <2>2. HubPlace'
    BY DEF BindDriver, hubVars, HubPlace, Valid
  <2>3. ClientPlace' /\ ClaimsAgree'
    BY DEF Kinds, BindDriver, Step, ioVars, claimVars, ClientPlace, ClientAt, ClaimsAgree
  <2> QED BY <2>1, <2>2, <2>3
<1>2. locks' = [o \in Object |-> locks'[o]]
  BY DEF BindDriver, Locked
<1>3. ASSUME NEW o \in Object PROVE ExactAt(o)'
  <2>1. Valid("fn") /\ Valid("hn")
    BY InUse DEF BindDriver, HubPlace, Kinds
  <2>2. c \notin DriverNodes /\ DriverNodes' = DriverNodes \cup {c}
    BY DEF BindDriver, Step, DriverNodes, Kinds, Client
  <2>3. Changed(DriverNodes, DriverNodes', 1) /\ Changed(aborts, aborts', 0)
    BY <2>2 DEF Changed, BindDriver, ioVars
  <2>4. Requests(o)' = Requests(o) /\ Holders(o)' = Holders(o) /\ Claimers(o)' = Claimers(o)
    BY Still DEF BindDriver, ioVars
  <2>5. locks'[o] = locks[o] + (IF o \in {"fn", "hn"} THEN 1 + 0 ELSE 0)
    BY DEF BindDriver, Locked
  <2> QED BY <2>1, <2>3, <2>4, <2>5, NodeMoves DEF BindDriver, hubVars
<1>4. activeIO' = Cardinality(InHCD')
  BY SameIO DEF BindDriver, ioVars
<1> QED BY <1>1, <1>2, <1>3, <1>4 DEF Core, Exact, ExactAt

LEMMA FreeDriverKeeps == ASSUME LocksInvariant, NEW c \in Client, FreeDriver(c) PROVE Core'
<1> USE InvariantParts
<1>1. Kinds' /\ HubPlace' /\ ClientPlace' /\ ClaimsAgree'
  <2>1. Kinds'
    BY DEF Kinds, FreeDriver, Step, hubVars, ioVars, claimVars
  <2>2. HubPlace'
    BY DEF FreeDriver, hubVars, HubPlace, Valid
  <2>3. ClientPlace' /\ ClaimsAgree'
    BY DEF Kinds, FreeDriver, Step, ioVars, claimVars, ClientPlace, ClientAt, ClaimsAgree
  <2> QED BY <2>1, <2>2, <2>3
<1>2. locks' = [o \in Object |-> locks'[o]]
  BY DEF FreeDriver, Unlocked
<1>3. ASSUME NEW o \in Object PROVE ExactAt(o)'
  <2>1. c \in DriverNodes /\ DriverNodes' = DriverNodes \ {c}
    BY DEF FreeDriver, Step, DriverNodes, Kinds, Client, ClientPlace, ClientAt
  <2>2. Changed(DriverNodes, DriverNodes', 0 - 1) /\ Changed(aborts, aborts', 0)
    BY <2>1 DEF Changed, FreeDriver, ioVars
  <2>3. Requests(o)' = Requests(o) /\ Holders(o)' = Holders(o) /\ Claimers(o)' = Claimers(o)
    BY Still DEF FreeDriver, ioVars
  <2>4. locks'[o] = locks[o] + (IF o \in {"fn", "hn"} THEN (0 - 1) + 0 ELSE 0)
    BY DEF FreeDriver, Unlocked
  <2> QED BY <2>2, <2>3, <2>4, NodeMoves DEF FreeDriver, hubVars
<1>4. activeIO' = Cardinality(InHCD')
  BY SameIO DEF FreeDriver, ioVars
<1> QED BY <1>1, <1>2, <1>3, <1>4 DEF Core, Exact, ExactAt

LEMMA HandleAbortKeeps == ASSUME LocksInvariant, NEW q \in Request, HandleAbort(q) PROVE Core'
<1> USE InvariantParts
<1>1. Kinds' /\ HubPlace' /\ ClientPlace' /\ ClaimsAgree'
  <2>1. Kinds'
    BY DEF Kinds, HandleAbort, Replied, hubVars, clientVars, claimVars
  <2>2. HubPlace'
    BY DEF HandleAbort, hubVars, clientVars, HubPlace, Valid
  <2>3. \A p \in Request : /\ req[p] = "none" => req'[p] = "none"
                           /\ req'[p] = "tested" => req[p] = "tested"
    BY DEF Kinds, HandleAbort, Replied
  <2>4. ClientPlace'
    BY <2>3 DEF HandleAbort, clientVars, claimVars, ClientPlace, ClientAt, Request
  <2>5. ClaimsAgree'
    BY DEF HandleAbort, clientVars, claimVars, ClaimsAgree
  <2> QED BY <2>1, <2>2, <2>4, <2>5
<1>2. locks' = [o \in Object |-> locks'[o]]
  BY DEF HandleAbort, Unlocked
<1>3. ASSUME NEW o \in Object PROVE ExactAt(o)'
  <2>1. Requests(o)' = Requests(o)
    <3>1. CASE req[q] = "hcd"
      BY <3>1, RequestTurns DEF HandleAbort, Replied, Alive
    <3>2. CASE req[q] # "hcd"
      BY <3>2, Still DEF HandleAbort
    <3> QED BY <3>1, <3>2
  <2>2. Changed(DriverNodes, DriverNodes', 0) /\ Changed(aborts, aborts', 0 - 1)
    BY Still DEF Changed, HandleAbort, clientVars
  <2>3. Holders(o)' = Holders(o) /\ Claimers(o)' = Claimers(o)
    BY Still DEF HandleAbort, clientVars
  <2>4. locks'[o] = locks[o] + (IF o \in {"fn", "hn"} THEN 0 + (0 - 1) ELSE 0)
    BY DEF HandleAbort, Unlocked
  <2> QED BY <2>1, <2>2, <2>3, <2>4, NodeMoves DEF HandleAbort, hubVars
<1>4. activeIO' = Cardinality(InHCD')
  BY SameIO, HCDTurns DEF HandleAbort, Replied
<1> QED BY <1>1, <1>2, <1>3, <1>4 DEF Core, Exact, ExactAt

LEMMA StopKeeps ==
    ASSUME LocksInvariant, NEW c \in Client, NEW e \in {"cep", "ep"}, Stop(c, e)
    PROVE  Core'
<1> USE InvariantParts
<1>0. <<c, e>> \in Request /\ <<c, e>> \in Requests("fn")
  BY DEF Stop, Request, Requests, Alive
<1>1. Kinds' /\ HubPlace' /\ ClientPlace' /\ ClaimsAgree'
  <2>1. Kinds'
    BY <1>0 DEF Kinds, Stop, hubVars, clientVars, claimVars
  <2>2. HubPlace'
    BY DEF Stop, hubVars, clientVars, HubPlace, Valid
  <2>3. ClientPlace' /\ ClaimsAgree'
    BY DEF Stop, clientVars, claimVars, ClientPlace, ClientAt, ClaimsAgree
  <2> QED BY <2>1, <2>2, <2>3
<1>2. locks' = [o \in Object |-> locks'[o]]
  BY DEF Stop, Locked
<1>3. ASSUME NEW o \in Object PROVE ExactAt(o)'
  <2>1. Valid("fn") /\ Valid("hn")
    BY <1>0, InUse DEF HubPlace, Object
  <2>2. Changed(DriverNodes, DriverNodes', 0) /\ Changed(aborts, aborts', 1)
    BY Still DEF Changed, Stop, clientVars
  <2>3. Requests(o)' = Requests(o) /\ Holders(o)' = Holders(o) /\ Claimers(o)' = Claimers(o)
    BY Still DEF Stop, clientVars
  <2>4. locks'[o] = locks[o] + (IF o \in {"fn", "hn"} THEN 0 + 1 ELSE 0)
    BY DEF Stop, Locked
  <2>5. st' = st /\ own' = own /\ message' = message
    BY DEF Stop, hubVars
  <2> QED BY <2>1, <2>2, <2>3, <2>4, <2>5, NodeMoves
<1>4. activeIO' = Cardinality(InHCD')
  BY SameIO DEF Stop
<1> QED BY <1>1, <1>2, <1>3, <1>4 DEF Core, Exact, ExactAt

LEMMA StopServedKeeps == ASSUME LocksInvariant, NEW q \in Request, StopServed(q) PROVE Core'
<1> USE InvariantParts
<1>1. Kinds' /\ HubPlace' /\ ClientPlace' /\ ClaimsAgree'
  <2>1. Kinds'
    BY DEF Kinds, StopServed, hubVars, clientVars, claimVars
  <2>2. HubPlace'
    BY DEF StopServed, hubVars, clientVars, HubPlace, Valid
  <2>3. ClientPlace' /\ ClaimsAgree'
    BY DEF StopServed, clientVars, claimVars, ClientPlace, ClientAt, ClaimsAgree
  <2> QED BY <2>1, <2>2, <2>3
<1>2. locks' = [o \in Object |-> locks'[o]]
  BY DEF StopServed, Locked
<1>3. ASSUME NEW o \in Object PROVE ExactAt(o)'
  <2>0. q \in Requests("fn")
    BY DEF StopServed, Requests, Alive
  <2>1. Valid("fn") /\ Valid("hn")
    BY <2>0, InUse DEF HubPlace, Object
  <2>2. Changed(DriverNodes, DriverNodes', 0) /\ Changed(aborts, aborts', 1)
    BY Still DEF Changed, StopServed, clientVars
  <2>3. Requests(o)' = Requests(o) /\ Holders(o)' = Holders(o) /\ Claimers(o)' = Claimers(o)
    BY Still DEF StopServed, clientVars
  <2>4. locks'[o] = locks[o] + (IF o \in {"fn", "hn"} THEN 0 + 1 ELSE 0)
    BY DEF StopServed, Locked
  <2>5. st' = st /\ own' = own /\ message' = message
    BY DEF StopServed, hubVars
  <2> QED BY <2>1, <2>2, <2>3, <2>4, <2>5, NodeMoves
<1>4. activeIO' = Cardinality(InHCD')
  BY SameIO DEF StopServed
<1> QED BY <1>1, <1>2, <1>3, <1>4 DEF Core, Exact, ExactAt

LEMMA FreeFunctionKeeps == ASSUME LocksInvariant, FreeFunction PROVE Core'
<1> USE InvariantParts
<1>1. Kinds' /\ HubPlace' /\ ClientPlace' /\ ClaimsAgree'
  <2>1. Kinds'
    BY DEF Kinds, FreeFunction, clientVars, ioVars, claimVars
  <2>2. HubPlace'
    BY DEF Kinds, FreeFunction, clientVars, HubPlace, Valid
  <2>3. ClientPlace' /\ ClaimsAgree'
    BY DEF FreeFunction, clientVars, ioVars, claimVars, ClientPlace, ClientAt, ClaimsAgree
  <2> QED BY <2>1, <2>2, <2>3
<1>2. locks' = [o \in Object |-> locks'[o]]
  BY DEF FreeFunction
<1>3. ASSUME NEW o \in Object PROVE ExactAt(o)'
  BY Still, NothingMoves DEF FreeFunction, clientVars, ioVars
<1>4. activeIO' = Cardinality(InHCD')
  BY SameIO DEF FreeFunction, ioVars
<1> QED BY <1>1, <1>2, <1>3, <1>4 DEF Core, Exact, ExactAt

LEMMA SetConfigKeeps == ASSUME LocksInvariant, SetConfig PROVE Core'
<1> USE InvariantParts
<1>0. ihOwner = none /\ Target(init) = "fn"
  <2>1. Target(init) = "fn" /\ init \in Client
    BY ObjectLocksAssumption DEF Target, Client
  <2>2. init \in {owner, ihOwner} /\ init # none
    BY <2>1, ObjectLocksAssumption DEF SetConfig, ClientPlace, ClientAt, ClaimsAgree
  <2>3. ihOwner # none => Target(ihOwner) = "ih" /\ (owner # none => owner = ihOwner)
    BY DEF ClientPlace, ClientAt, ClaimsAgree
  <2> QED BY <2>1, <2>2, <2>3
<1>1. Kinds' /\ HubPlace' /\ ClientPlace' /\ ClaimsAgree'
  <2>1. Kinds'
    BY DEF Kinds, SetConfig, Step, hubVars, ioVars
  <2>2. HubPlace'
    BY DEF Kinds, SetConfig, hubVars, HubPlace, Valid, Client
  <2>3. ClientPlace'
    BY <1>0 DEF Kinds, SetConfig, Step, ioVars, ClientPlace, ClientAt
  <2>4. ClaimsAgree'
    BY <1>0 DEF SetConfig, ClaimsAgree
  <2> QED BY <2>1, <2>2, <2>3, <2>4
<1>2. locks' = [o \in Object |-> locks'[o]]
  BY DEF SetConfig
<1>3. ASSUME NEW o \in Object PROVE ExactAt(o)'
  <2>1. DriverNodes' = DriverNodes
    BY StepNodes DEF SetConfig, Client
  <2> QED BY <2>1, Still, NothingMoves DEF SetConfig, hubVars, ioVars
<1>4. activeIO' = Cardinality(InHCD')
  BY SameIO DEF SetConfig, ioVars
<1> QED BY <1>1, <1>2, <1>3, <1>4 DEF Core, Exact, ExactAt

LEMMA ReleaseKeeps == ASSUME LocksInvariant, NEW c \in Client, Release(c) PROVE Core'
<1> USE InvariantParts
<1>1. Kinds' /\ HubPlace' /\ ClientPlace' /\ ClaimsAgree'
  <2>1. Kinds'
    BY DEF Kinds, Release, Step, fnVars, hubVars, ioVars, claimVars
  <2>2. HubPlace'
    BY DEF Kinds, Release, fnVars, hubVars, HubPlace, Valid
  <2>3. ClientPlace' /\ ClaimsAgree'
    BY DEF Kinds, Release, Step, ioVars, claimVars, ClientPlace, ClientAt, ClaimsAgree
  <2> QED BY <2>1, <2>2, <2>3
<1>2. locks' = [o \in Object |-> locks'[o]]
  BY DEF Release, fnVars
<1>3. ASSUME NEW o \in Object PROVE ExactAt(o)'
  <2>1. DriverNodes' = DriverNodes
    BY StepNodes DEF Release
  <2> QED BY <2>1, Still, NothingMoves DEF Release, fnVars, hubVars, ioVars
<1>4. activeIO' = Cardinality(InHCD')
  BY SameIO DEF Release, ioVars
<1> QED BY <1>1, <1>2, <1>3, <1>4 DEF Core, Exact, ExactAt

LEMMA QuitKeeps == ASSUME LocksInvariant, NEW c \in Client, Quit(c) PROVE Core'
<1> USE InvariantParts
<1>1. Kinds' /\ HubPlace' /\ ClientPlace' /\ ClaimsAgree'
  <2>1. Kinds'
    BY DEF Kinds, Quit, Step, fnVars, hubVars, ioVars, claimVars
  <2>2. HubPlace'
    BY DEF Kinds, Quit, fnVars, hubVars, HubPlace, Valid
  <2>3. ClientPlace' /\ ClaimsAgree'
    BY DEF Kinds, Quit, Step, ioVars, claimVars, ClientPlace, ClientAt, ClaimsAgree
  <2> QED BY <2>1, <2>2, <2>3
<1>2. locks' = [o \in Object |-> locks'[o]]
  BY DEF Quit, fnVars
<1>3. ASSUME NEW o \in Object PROVE ExactAt(o)'
  <2>1. DriverNodes' = DriverNodes
    BY StepNodes DEF Quit
  <2> QED BY <2>1, Still, NothingMoves DEF Quit, fnVars, hubVars, ioVars
<1>4. activeIO' = Cardinality(InHCD')
  BY SameIO DEF Quit, ioVars
<1> QED BY <1>1, <1>2, <1>3, <1>4 DEF Core, Exact, ExactAt

\* Only a request changes, and it stays one that counts, or one that does not.
LEMMA RequestKeeps ==
    ASSUME LocksInvariant, UNCHANGED <<fnVars, claimVars, hubVars, clientVars, aborts, overtaken, prompt>>,
           NEW q \in Request, req[q] # "none",
           NEW v \in {"user", "port", "hcd", "freed", "dangling", "lost"}, req' = [req EXCEPT ![q] = v],
           Alive(q) <=> v \in {"user", "tested", "port", "hcd", "lost"},
           \/ v # "hcd" /\ req[q] # "hcd" /\ activeIO' = activeIO
           \/ v = "hcd" /\ req[q] # "hcd" /\ activeIO' = activeIO + 1
           \/ v # "hcd" /\ req[q] = "hcd" /\ activeIO' = activeIO - 1
    PROVE  Core'
<1> USE InvariantParts
<1>1. Kinds' /\ HubPlace' /\ ClientPlace' /\ ClaimsAgree'
  <2>1. Kinds'
    BY DEF Kinds, fnVars, hubVars, clientVars, claimVars
  <2>2. HubPlace'
    BY DEF fnVars, hubVars, clientVars, HubPlace, Valid
  <2>3. \A p \in Request : /\ req[p] = "none" => req'[p] = "none"
                           /\ req'[p] = "tested" => req[p] = "tested"
    BY DEF Kinds
  <2>4. ClientPlace'
    BY <2>3 DEF clientVars, claimVars, ClientPlace, ClientAt, Request
  <2>5. ClaimsAgree'
    BY DEF clientVars, claimVars, ClaimsAgree
  <2> QED BY <2>1, <2>2, <2>4, <2>5
<1>2. locks' = [o \in Object |-> locks'[o]]
  BY DEF fnVars
<1>3. ASSUME NEW o \in Object PROVE ExactAt(o)'
  <2>1. Requests(o)' = Requests(o)
    BY RequestTurns
  <2> QED BY <2>1, Still, NothingMoves DEF fnVars, hubVars, clientVars
<1>4. activeIO' = Cardinality(InHCD')
  BY HCDTurns
<1> QED BY <1>1, <1>2, <1>3, <1>4 DEF Core, Exact, ExactAt

\* BeginIO()'s two steps: the request stays one that counts, and its client stays where it has all.
LEMMA BeginKeeps ==
    ASSUME LocksInvariant, UNCHANGED <<fnVars, claimVars, hubVars, has, activeIO, aborts, prompt>>,
           NEW c \in Client, NEW e \in {"cep", "ep"}, NEW l, NEW v, Step(c, l),
           req' = [req EXCEPT ![<<c, e>>] = v], overtaken' \subseteq Request,
           \/ pc[c] = "use" /\ l = "begin" /\ req[<<c, e>>] = "user" /\ v = "tested"
           \/ pc[c] = "begin" /\ l = "use" /\ req[<<c, e>>] = "tested" /\ v = "port",
           \A x \in {"cep", "ep"} : req[<<c, x>>] = "tested" => x = e
    PROVE  Core'
<1> USE InvariantParts
<1>1. <<c, e>> \in Request /\ v \notin {"none", "hcd"} /\ req[<<c, e>>] # "hcd"
  BY DEF Request
<1>2. /\ pc'[c] = l /\ \A p \in Client : p # c => pc'[p] = pc[p]
      /\ req'[<<c, e>>] = v /\ \A q \in Request : q # <<c, e>> => req'[q] = req[q]
  BY <1>1 DEF Kinds, Step
<1>3. Kinds'
  BY <1>1 DEF Kinds, Step, fnVars, hubVars, claimVars
<1>4. HubPlace'
  BY DEF Kinds, fnVars, hubVars, HubPlace, Valid
<1>5. ClientPlace'
  <2>1. ASSUME NEW p \in Client PROVE ClientAt(p)'
    <3>1. CASE p = c
      <4>1. \A x \in {"cep", "ep"} : x # e => req'[<<c, x>>] = req[<<c, x>>]
        BY <1>2 DEF Request
      <4>2. /\ pc'[c] \in {"use", "begin"} /\ "claim" \in has'[c]
            /\ pc'[c] = "use" => v = "port"
        BY <1>2 DEF ClientPlace, ClientAt
      <4> QED BY <1>2, <3>1, <4>1, <4>2 DEF ClientAt
    <3>2. CASE p # c
      <4>1. \A x \in {"cep", "ep"} : req'[<<p, x>>] = req[<<p, x>>]
        BY <1>2, <3>2 DEF Request
      <4> QED BY <1>2, <3>2, <4>1 DEF ClientPlace, ClientAt
    <3> QED BY <3>1, <3>2
  <2>2. pc'[init] # "ended" /\ \A p \in Driver : pc'[p] # "parsed"
    BY <1>2 DEF ClientPlace, Client
  <2> QED BY <2>1, <2>2 DEF claimVars, ClientPlace
<1>6. ClaimsAgree'
  BY DEF claimVars, ClaimsAgree
<1>7. ASSUME NEW o \in Object PROVE ExactAt(o)'
  <2>1. DriverNodes' = DriverNodes
    BY StepNodes
  <2>2. Alive(<<c, e>>) <=> v \in {"user", "tested", "port", "hcd", "lost"}
    BY DEF Alive
  <2>3. Requests(o)' = Requests(o)
    BY <1>1, <2>2, RequestTurns
  <2> QED BY <2>1, <2>3, Still, NothingMoves DEF fnVars, hubVars
<1>8. activeIO' = Cardinality(InHCD')
  BY <1>1, HCDTurns
<1>9. locks' = [o \in Object |-> locks'[o]]
  BY DEF fnVars
<1> QED BY <1>3, <1>4, <1>5, <1>6, <1>7, <1>8, <1>9 DEF Core, Exact, ExactAt

LEMMA SendKeeps ==
    ASSUME LocksInvariant, NEW c \in Client, NEW e \in {"cep", "ep"}, Send(c, e)
    PROVE  Core'
<1>1. \A x \in {"cep", "ep"} : req[<<c, x>>] # "tested"
  BY InvariantParts DEF Send, ClientPlace, ClientAt
<1>2. overtaken' \subseteq Request
  BY InvariantParts DEF Send, Kinds
<1> QED BY <1>1, <1>2, BeginKeeps DEF Send

LEMMA PutKeeps ==
    ASSUME LocksInvariant, NEW c \in Client, NEW e \in {"cep", "ep"}, Put(c, e)
    PROVE  Core'
<1>1. overtaken' \subseteq Request
  BY InvariantParts DEF Put, Kinds, Request
<1>2. \A x \in {"cep", "ep"} : req[<<c, x>>] = "tested" => x = e
  BY InvariantParts DEF Put, ClientPlace, ClientAt
<1> QED BY <1>1, <1>2, BeginKeeps DEF Put

LEMMA HandleBeginKeeps == ASSUME LocksInvariant, NEW q \in Request, HandleBegin(q) PROVE Core'
BY RequestKeeps DEF HandleBegin, Alive

LEMMA FinishKeeps == ASSUME LocksInvariant, NEW q \in Request, Finish(q) PROVE Core'
BY RequestKeeps DEF Finish, Replied, Alive

LEMMA TargetIs == Target(init) = "fn" /\ \A c : Target(c) \in {"fn", "ih"}
BY ObjectLocksAssumption DEF Target

LEMMA LockTargetKeeps == ASSUME LocksInvariant, NEW c \in Client, LockTarget(c) PROVE Core'
<1> USE InvariantParts
<1>1. Kinds' /\ HubPlace' /\ ClientPlace' /\ ClaimsAgree'
  <2>1. Kinds'
    BY TargetIs DEF Kinds, LockTarget, Step, hubVars, ioVars, claimVars
  <2>2. HubPlace'
    BY DEF Kinds, LockTarget, hubVars, HubPlace, Valid
  <2>3. has[c] = {} /\ \A p \in Client : p # c => has'[p] = has[p] /\ pc'[p] = pc[p]
    BY DEF Kinds, LockTarget, Step, ClientPlace, ClientAt
  <2>4. \/ pc'[c] = "claim" /\ has'[c] = {"fn", Target(c)}
        \/ pc'[c] = "close" /\ has'[c] = {}
    BY <2>3 DEF Kinds, LockTarget, Step
  <2>5. ClientPlace'
    <3>1. ASSUME NEW p \in Client PROVE ClientAt(p)'
      <4>1. CASE p = c
        BY <2>4, <4>1 DEF ClientAt, LockTarget, ioVars, ClientPlace
      <4>2. CASE p # c
        BY <2>3, <4>2 DEF LockTarget, ioVars, ClientPlace, ClientAt
      <4> QED BY <4>1, <4>2
    <3>2. pc'[init] # "ended" /\ \A p \in Driver : pc'[p] # "parsed"
      BY <2>3, <2>4 DEF ClientPlace, Client
    <3> QED BY <3>1, <3>2 DEF LockTarget, claimVars, ClientPlace
  <2>6. \A p \in Client : ("claim" \in has'[p]) = ("claim" \in has[p])
    BY <2>3, <2>4, TargetIs
  <2>7. ClaimsAgree'
    BY <2>6 DEF LockTarget, claimVars, ClaimsAgree
  <2> QED BY <2>1, <2>2, <2>5, <2>7
<1>2. locks' = [o \in Object |-> locks'[o]]
  BY DEF LockTarget, Locked
<1>3. ASSUME NEW o \in Object PROVE ExactAt(o)'
  <2>1. /\ DriverNodes' = DriverNodes /\ Requests(o)' = Requests(o)
        /\ st' = st /\ own' = own /\ message' = message /\ aborts' = aborts
    BY StepNodes, Still DEF LockTarget, hubVars, ioVars
  <2>2. CASE has' = has /\ locks' = locks
    BY <2>1, <2>2, Still, NothingMoves
  <2>3. CASE /\ Valid("fn") /\ Valid(Target(c)) /\ locks' = Locked(locks, {"fn", Target(c)})
             /\ has' = [has EXCEPT ![c] = {"fn", Target(c)}]
    <3>1. has[c] = {} /\ has'[c] = {"fn", Target(c)} /\ \A p \in Client : p # c => has'[p] = has[p]
      BY <2>3 DEF Kinds, LockTarget, ClientPlace, ClientAt
    <3>2. Changed(Requests(o), Requests(o)', 0) /\ Changed(Claimers(o), Claimers(o)', 0)
      <4>1. Claimers(o)' = Claimers(o)
        BY <3>1, TargetIs DEF Claimers
      <4> QED BY <2>1, <4>1 DEF Changed
    <3>3. CASE o \in {"fn", Target(c)}
      <4>1. c \notin Holders(o) /\ Holders(o)' = Holders(o) \cup {c}
        BY <3>1, <3>3, TargetIs DEF Holders
      <4>2. Changed(Holders(o), Holders(o)', 1) /\ locks'[o] = locks[o] + (0 + 1 + 0) /\ Valid(o)
        BY <2>3, <3>3, <4>1 DEF Changed, Locked
      <4> QED BY <2>1, <3>2, <4>2, UserMoves
    <3>4. CASE o \notin {"fn", Target(c)}
      <4>1. Holders(o)' = Holders(o)
        BY <3>1, <3>4 DEF Holders
      <4>2. Changed(Holders(o), Holders(o)', 0) /\ locks'[o] = locks[o] + (0 + 0 + 0)
        BY <2>3, <3>4, <4>1 DEF Changed, Locked
      <4> QED BY <2>1, <3>2, <4>2, UserMoves
    <3> QED BY <3>3, <3>4
  <2> QED BY <2>2, <2>3, TargetIs DEF LockTarget
<1>4. activeIO' = Cardinality(InHCD')
  BY SameIO DEF LockTarget, ioVars
<1> QED BY <1>1, <1>2, <1>3, <1>4 DEF Core, Exact, ExactAt

\* A claim of c is one more lock, or one less, of what its register is for.
LEMMA ClaimMoves ==
    ASSUME LocksInvariant, NEW c \in Client, NEW o \in Object, "claim" \notin has[c], Valid(Target(c)),
           has' = [has EXCEPT ![c] = @ \cup {"claim"}],
           locks' = [locks EXCEPT ![Target(c)] = @ + 1],
           st' = st, UNCHANGED <<hubVars, req, aborts>>, DriverNodes' = DriverNodes
    PROVE  ExactAt(o)'
<1> USE InvariantParts
<1>1. has'[c] = has[c] \cup {"claim"} /\ \A p \in Client : p # c => has'[p] = has[p]
  BY DEF Kinds
<1>2. Changed(Requests(o), Requests(o)', 0) /\ Changed(Holders(o), Holders(o)', 0)
  <2>1. Holders(o)' = Holders(o)
    BY <1>1 DEF Holders
  <2> QED BY <2>1, Still DEF Changed
<1>3. own' = own /\ message' = message /\ aborts' = aborts
  BY DEF hubVars
<1>4. CASE o = Target(c)
  <2>1. c \notin Claimers(o) /\ Claimers(o)' = Claimers(o) \cup {c}
    BY <1>1, <1>4 DEF Claimers
  <2>2. Changed(Claimers(o), Claimers(o)', 1) /\ locks'[o] = locks[o] + (0 + 0 + 1) /\ Valid(o)
    BY <1>4, <2>1 DEF Changed
  <2> QED BY <1>2, <1>3, <2>2, UserMoves
<1>5. CASE o # Target(c)
  <2>1. Claimers(o)' = Claimers(o)
    BY <1>1, <1>5 DEF Claimers
  <2>2. Changed(Claimers(o), Claimers(o)', 0) /\ locks'[o] = locks[o] + (0 + 0 + 0)
    BY <1>5, <2>1 DEF Changed
  <2> QED BY <1>2, <1>3, <2>2, UserMoves
<1> QED BY <1>4, <1>5

LEMMA ClaimFunctionKeeps == ASSUME LocksInvariant, NEW c \in Client, ClaimFunction(c) PROVE Core'
<1> USE InvariantParts
<1>0. has[c] = {"fn"} /\ c # none
  BY ObjectLocksAssumption DEF ClaimFunction, ClientPlace, ClientAt, Client
<1>1. Kinds' /\ HubPlace' /\ ClientPlace' /\ ClaimsAgree'
  <2>1. Kinds'
    BY DEF Kinds, ClaimFunction, Step, hubVars, ioVars
  <2>2. HubPlace'
    BY DEF Kinds, ClaimFunction, hubVars, HubPlace, Valid
  <2>3. \A p \in Client : p # c => has'[p] = has[p] /\ pc'[p] = pc[p]
    BY DEF Kinds, ClaimFunction, Step
  <2>4. CASE owner' = owner /\ has' = has /\ Step(c, "close")
    <3>1. ClientPlace'
      BY <2>3, <2>4 DEF Kinds, Step, ClaimFunction, ioVars, ClientPlace, ClientAt
    <3>2. ClaimsAgree'
      BY <2>4 DEF ClaimFunction, ClaimsAgree
    <3> QED BY <2>1, <2>2, <3>1, <3>2
  <2>5. CASE /\ FunctionFree /\ owner' = c /\ has' = [has EXCEPT ![c] = @ \cup {"claim"}]
             /\ Step(c, "obtain")
    <3>1. pc'[c] = "obtain" /\ has'[c] = {"fn", "claim"} /\ ihOwner = none
      BY <1>0, <2>5 DEF Kinds, Step, FunctionFree, ClaimsAgree, One
    <3>2. ClientPlace'
      <4>1. ASSUME NEW p \in Client PROVE ClientAt(p)'
        <5>1. CASE p = c
          BY <3>1, <5>1 DEF ClaimFunction, ioVars, ClientPlace, ClientAt
        <5>2. CASE p # c
          BY <2>3, <5>2 DEF ClaimFunction, ioVars, ClientPlace, ClientAt
        <5> QED BY <5>1, <5>2
      <4>2. pc'[init] # "ended" /\ \A p \in Driver : pc'[p] # "parsed"
        BY <2>3, <3>1 DEF ClientPlace, Client
      <4> QED BY <2>5, <4>1, <4>2 DEF ClaimFunction, ClientPlace
    <3>3. ClaimsAgree'
      <4>1. \A p \in Client : ("claim" \in has'[p]) = (p = c)
        <5>1. \A p \in Client : ("claim" \in has[p]) = (p \in {owner, ihOwner})
          BY DEF ClaimsAgree
        <5>2. \A p \in Client : "claim" \notin has[p]
          BY <2>5, <3>1, <5>1, ObjectLocksAssumption DEF FunctionFree, Client
        <5> QED BY <2>3, <3>1, <5>2
      <4> QED BY <2>5, <3>1, <4>1, ObjectLocksAssumption DEF ClaimFunction, ClaimsAgree, Client
    <3> QED BY <2>1, <2>2, <3>2, <3>3
  <2> QED BY <2>1, <2>2, <2>4, <2>5 DEF ClaimFunction
<1>2. locks' = [o \in Object |-> locks'[o]]
  BY DEF ClaimFunction
<1>3. ASSUME NEW o \in Object PROVE ExactAt(o)'
  <2>1. DriverNodes' = DriverNodes /\ Valid("fn") => ExactAt(o)'
    BY <1>0, ClaimMoves, Still, NothingMoves DEF ClaimFunction, hubVars, ioVars
  <2>2. DriverNodes' = DriverNodes
    BY StepNodes DEF ClaimFunction
  <2>3. c \in Holders("fn")
    BY <1>0 DEF Holders
  <2> QED BY <2>1, <2>2, <2>3, InUse DEF Object
<1>4. activeIO' = Cardinality(InHCD')
  BY SameIO DEF ClaimFunction, ioVars
<1> QED BY <1>1, <1>2, <1>3, <1>4 DEF Core, Exact, ExactAt

LEMMA ClaimInterfaceKeeps == ASSUME LocksInvariant, NEW c \in Client, ClaimInterface(c) PROVE Core'
<1> USE InvariantParts
<1>0. has[c] = {"fn", "ih"} /\ c # none
  BY ObjectLocksAssumption DEF ClaimInterface, ClientPlace, ClientAt, Client
<1>1. Kinds' /\ HubPlace' /\ ClientPlace' /\ ClaimsAgree'
  <2>1. Kinds'
    BY DEF Kinds, ClaimInterface, Step, hubVars, ioVars
  <2>2. HubPlace'
    BY DEF Kinds, ClaimInterface, hubVars, HubPlace, Valid
  <2>3. \A p \in Client : p # c => has'[p] = has[p] /\ pc'[p] = pc[p]
    BY DEF Kinds, ClaimInterface, Step
  <2>4. CASE ihOwner' = ihOwner /\ claims' = claims /\ has' = has /\ Step(c, "close")
    <3>1. ClientPlace'
      BY <2>3, <2>4 DEF Kinds, Step, ClaimInterface, ioVars, ClientPlace, ClientAt
    <3>2. ClaimsAgree'
      BY <2>4 DEF ClaimInterface, ClaimsAgree
    <3> QED BY <2>1, <2>2, <3>1, <3>2
  <2>5. CASE /\ owner \in {none, c} /\ ihOwner = none /\ ihOwner' = c /\ claims' = claims + 1
             /\ has' = [has EXCEPT ![c] = @ \cup {"claim"}] /\ Step(c, "obtain")
    <3>1. pc'[c] = "obtain" /\ has'[c] = {"fn", "ih", "claim"} /\ owner = none
      BY <1>0, <2>5 DEF Kinds, Step, ClaimInterface, ClientPlace, ClientAt
    <3>2. ClientPlace'
      <4>1. ASSUME NEW p \in Client PROVE ClientAt(p)'
        <5>1. CASE p = c
          BY <3>1, <5>1 DEF ClaimInterface, ioVars, ClientPlace, ClientAt
        <5>2. CASE p # c
          BY <2>3, <5>2 DEF ClaimInterface, ioVars, ClientPlace, ClientAt
        <5> QED BY <5>1, <5>2
      <4>2. pc'[init] # "ended" /\ \A p \in Driver : pc'[p] # "parsed"
        BY <2>3, <3>1 DEF ClientPlace, Client
      <4> QED BY <2>5, <4>1, <4>2 DEF ClaimInterface, ClientPlace
    <3>3. ClaimsAgree'
      <4>1. \A p \in Client : ("claim" \in has'[p]) = (p = c)
        <5>1. \A p \in Client : ("claim" \in has[p]) = (p \in {owner, ihOwner})
          BY DEF ClaimsAgree
        <5>2. \A p \in Client : "claim" \notin has[p]
          BY <2>5, <3>1, <5>1, ObjectLocksAssumption DEF Client
        <5> QED BY <2>3, <3>1, <5>2
      <4>2. claims' = 1
        BY <2>5 DEF ClaimsAgree, One
      <4> QED BY <1>0, <2>5, <3>1, <4>1, <4>2, ObjectLocksAssumption
              DEF ClaimInterface, ClaimsAgree, Client, One
    <3> QED BY <2>1, <2>2, <3>2, <3>3
  <2> QED BY <2>1, <2>2, <2>4, <2>5 DEF ClaimInterface
<1>2. locks' = [o \in Object |-> locks'[o]]
  BY DEF ClaimInterface
<1>3. ASSUME NEW o \in Object PROVE ExactAt(o)'
  <2>1. DriverNodes' = DriverNodes /\ Valid("ih") => ExactAt(o)'
    BY <1>0, ClaimMoves, Still, NothingMoves DEF ClaimInterface, hubVars, ioVars
  <2>2. DriverNodes' = DriverNodes
    BY StepNodes DEF ClaimInterface
  <2>3. c \in Holders("ih")
    BY <1>0 DEF Holders
  <2> QED BY <2>1, <2>2, <2>3, InUse DEF Object
<1>4. activeIO' = Cardinality(InHCD')
  BY SameIO DEF ClaimInterface, ioVars
<1> QED BY <1>1, <1>2, <1>3, <1>4 DEF Core, Exact, ExactAt

\* A request of c that is alive from now on, or no more: with the locks it has.
LEMMA RequestMoves ==
    ASSUME LocksInvariant, NEW c \in Client, NEW e \in {"cep", "ep"}, NEW o \in Object,
           NEW v \in {"user", "freed", "dangling"}, req' = [req EXCEPT ![<<c, e>>] = v],
           \/ ~ Alive(<<c, e>>) /\ v = "user" /\ locks' = Locked(locks, {e, "fn"}) /\ Valid(e) /\ Valid("fn")
           \/ Alive(<<c, e>>) /\ v # "user" /\ locks' = Unlocked(locks, {e, "fn"}),
           Holders(o)' = Holders(o), Claimers(o)' = Claimers(o),
           st' = st, UNCHANGED <<hubVars, aborts>>, DriverNodes' = DriverNodes
    PROVE  ExactAt(o)'
<1> USE InvariantParts
<1> DEFINE q == <<c, e>>
<1>1. /\ q \in Request /\ EndPoint(q) = e
      /\ req'[q] = v /\ \A p \in Request : p # q => req'[p] = req[p]
  BY DEF Kinds, Request, EndPoint
<1>2. Changed(Holders(o), Holders(o)', 0) /\ Changed(Claimers(o), Claimers(o)', 0)
  BY DEF Changed
<1>3. own' = own /\ message' = message /\ aborts' = aborts
  BY DEF hubVars
<1> HIDE DEF q
<1>4. CASE o \notin {e, "fn"}
  <2>1. Requests(o)' = Requests(o)
    BY <1>1, <1>4 DEF Requests, Alive
  <2>2. Changed(Requests(o), Requests(o)', 0) /\ locks'[o] = locks[o] + (0 + 0 + 0)
    BY <1>4, <2>1 DEF Changed, Locked, Unlocked
  <2> QED BY <1>2, <1>3, <2>2, UserMoves
<1>5. CASE o \in {e, "fn"} /\ ~ Alive(q) /\ v = "user"
  <2>1. q \notin Requests(o) /\ Requests(o)' = Requests(o) \cup {q}
    BY <1>1, <1>5 DEF Requests, Alive
  <2>2. Changed(Requests(o), Requests(o)', 1)
    BY <2>1 DEF Changed
  <2>3. locks'[o] = locks[o] + (1 + 0 + 0) /\ Valid(o)
    BY <1>5 DEF Locked, q
  <2> QED BY <1>2, <1>3, <2>2, <2>3, UserMoves
<1>6. CASE o \in {e, "fn"} /\ Alive(q) /\ v # "user"
  <2>1. q \in Requests(o) /\ Requests(o)' = Requests(o) \ {q}
    BY <1>1, <1>6 DEF Requests, Alive
  <2>2. Changed(Requests(o), Requests(o)', 0 - 1)
    BY <2>1 DEF Changed
  <2>3. locks'[o] = locks[o] + ((0 - 1) + 0 + 0)
    BY <1>6 DEF Unlocked, q
  <2> QED BY <1>2, <1>3, <2>2, <2>3, UserMoves
<1> QED BY <1>4, <1>5, <1>6 DEF q

\* What a client has loses or gains a resource, which neither holds nor claims anything.
LEMMA ResourceOnly ==
    ASSUME Kinds, NEW c \in Client, NEW e \in {"cep", "ep"},
           has' = [has EXCEPT ![c] = @ \cup {e}] \/ has' = [has EXCEPT ![c] = @ \ {e}]
    PROVE  /\ \A o : Holders(o)' = Holders(o) /\ Claimers(o)' = Claimers(o)
           /\ \A p \in Client : ("claim" \in has'[p]) <=> ("claim" \in has[p])
           /\ \A p \in Client : p # c => has'[p] = has[p]
           /\ has'[c] \in SUBSET {"fn", "ih", "claim", "cep", "ep"}
           /\ has' = [p \in Client |-> has'[p]]
<1>1. /\ has'[c] = has[c] \cup {e} \/ has'[c] = has[c] \ {e}
      /\ \A p \in Client : p # c => has'[p] = has[p]
      /\ has[c] \in SUBSET {"fn", "ih", "claim", "cep", "ep"}
      /\ has' = [p \in Client |-> has'[p]]
  BY DEF Kinds
<1>2. \A p \in Client, x \in {"fn", "ih", "claim"} : (x \in has'[p]) <=> (x \in has[p])
  BY <1>1
<1>3. \A o : Holders(o)' = Holders(o) /\ Claimers(o)' = Claimers(o)
  BY <1>2 DEF Holders, Claimers
<1> QED BY <1>1, <1>2, <1>3

LEMMA ObtainKeeps ==
    ASSUME LocksInvariant, NEW c \in Client, NEW e \in {"cep", "ep"}, pc[c] \in {"obtain", "use"},
           req[<<c, e>>] = "none", Obtain(c, e, "use"),
           UNCHANGED <<st, freeMe, detach, address, config, claimVars, hubVars, activeIO, aborts, overtaken, prompt>>
    PROVE  Core'
<1> USE InvariantParts
<1>1. <<c, e>> \in Request /\ ~ Alive(<<c, e>>)
  BY DEF Request, Alive
<1>2. CASE /\ Valid(e) /\ Valid("fn") /\ locks' = Locked(locks, {e, "fn"}) /\ Step(c, "use")
           /\ has' = [has EXCEPT ![c] = @ \cup {e}] /\ req' = [req EXCEPT ![<<c, e>>] = "user"]
  <2>1. /\ \A o : Holders(o)' = Holders(o) /\ Claimers(o)' = Claimers(o)
        /\ \A p \in Client : ("claim" \in has'[p]) <=> ("claim" \in has[p])
        /\ \A p \in Client : p # c => has'[p] = has[p]
        /\ has' \in [Client -> SUBSET {"fn", "ih", "claim", "cep", "ep"}]
    <3>1. \A p \in Client : has[p] \in SUBSET {"fn", "ih", "claim", "cep", "ep"}
      BY DEF Kinds
    <3> QED BY <1>2, <3>1, ResourceOnly
  <2>2. /\ pc'[c] = "use" /\ \A p \in Client : p # c => pc'[p] = pc[p]
        /\ \A p \in Request : p # <<c, e>> => req'[p] = req[p]
        /\ pc[c] # "none"
    BY <1>2 DEF Step, Kinds
  <2>3. Kinds'
    BY <1>1, <1>2, <2>1 DEF Kinds, Step, hubVars, claimVars
  <2>4. HubPlace'
    BY DEF HubPlace, Valid, hubVars
  <2>5. ClientPlace'
    <3>1. ASSUME NEW p \in Client PROVE ClientAt(p)'
      <4>1. CASE p = c
        <5>1. \A x \in {"cep", "ep"} : req'[<<c, x>>] # "tested"
          BY <1>1, <1>2, <2>2 DEF Request, Kinds, ClientPlace, ClientAt
        <5> QED BY <2>1, <2>2, <4>1, <5>1 DEF ClientPlace, ClientAt
      <4>2. CASE p # c
        <5>1. \A x \in {"cep", "ep"} : req'[<<p, x>>] = req[<<p, x>>]
          BY <2>2, <4>2 DEF Request
        <5> QED BY <2>1, <2>2, <4>2, <5>1 DEF ClientPlace, ClientAt
      <4> QED BY <4>1, <4>2
    <3>2. pc'[init] # "ended" /\ \A p \in Driver : pc'[p] # "parsed"
      BY <2>2 DEF ClientPlace, Client
    <3> QED BY <3>1, <3>2 DEF claimVars, ClientPlace
  <2>6. ClaimsAgree'
    BY <2>1 DEF claimVars, ClaimsAgree
  <2>7. DriverNodes' = DriverNodes
    BY <1>2, StepNodes
  <2>8. \A o \in Object : ExactAt(o)'
    BY <1>1, <1>2, <2>1, <2>7, RequestMoves
  <2>9. activeIO' = Cardinality(InHCD')
    BY <1>1, <1>2, HCDTurns
  <2> QED BY <1>2, <2>3, <2>4, <2>5, <2>6, <2>8, <2>9 DEF Core, Exact, ExactAt, Locked
<1>3. CASE locks' = locks /\ has' = has /\ req' = req /\ Step(c, "close")
  <2>1. Kinds' /\ HubPlace'
    <3>1. Kinds'
      BY <1>3 DEF Kinds, Step, hubVars, claimVars
    <3>2. HubPlace'
      BY DEF HubPlace, Valid, hubVars, Kinds
    <3> QED BY <3>1, <3>2
  <2>2. ClientPlace'
    BY <1>3 DEF Kinds, Step, claimVars, ClientPlace, ClientAt
  <2>3. ClaimsAgree'
    BY <1>3 DEF claimVars, ClaimsAgree
  <2>4. DriverNodes' = DriverNodes
    BY <1>3, StepNodes
  <2>5. \A o \in Object : ExactAt(o)'
    BY <1>3, <2>4, Still, NothingMoves DEF hubVars
  <2>6. activeIO' = Cardinality(InHCD')
    BY <1>3, SameIO
  <2> QED BY <1>3, <2>1, <2>2, <2>3, <2>5, <2>6 DEF Core, Exact, ExactAt
<1> QED BY <1>2, <1>3 DEF Obtain, Usable

LEMMA ObtainControlKeeps == ASSUME LocksInvariant, NEW c \in Client, ObtainControl(c) PROVE Core'
<1>1. req[<<c, "cep">>] = "none"
  BY InvariantParts DEF ObtainControl, ClientPlace, ClientAt
<1> QED BY <1>1, ObtainKeeps DEF ObtainControl

LEMMA ObtainEndPointKeeps == ASSUME LocksInvariant, NEW c \in Client, ObtainEndPoint(c) PROVE Core'
BY ObtainKeeps DEF ObtainEndPoint

LEMMA FreedKeeps ==
    ASSUME LocksInvariant, NEW c \in Client, NEW e \in {"cep", "ep"}, Freed(c, e),
           \/ pc[c] = "close" /\ pc' = pc
           \/ pc[c] = "release" /\ Step(c, "use"),
           UNCHANGED <<st, freeMe, detach, address, config, claimVars, hubVars, activeIO, aborts, overtaken, prompt>>
    PROVE  Core'
<1> USE InvariantParts
<1>1. <<c, e>> \in Request /\ Alive(<<c, e>>)
  BY DEF Request, Alive, Freed, UsersState
<1>2. /\ \A o : Holders(o)' = Holders(o) /\ Claimers(o)' = Claimers(o)
      /\ \A p \in Client : ("claim" \in has'[p]) <=> ("claim" \in has[p])
      /\ \A p \in Client : p # c => has'[p] = has[p]
      /\ has' \in [Client -> SUBSET {"fn", "ih", "claim", "cep", "ep"}]
  <2>1. \A p \in Client : has[p] \in SUBSET {"fn", "ih", "claim", "cep", "ep"}
    BY DEF Kinds
  <2> QED BY <2>1, ResourceOnly DEF Freed
<1>3. PICK v \in {"lost", "freed", "dangling"} :
         /\ req' = [req EXCEPT ![<<c, e>>] = v] /\ req[<<c, e>>] \in {"user", "port"}
         /\ \/ v = "lost" /\ locks' = locks
            \/ v # "lost" /\ locks' = Unlocked(locks, {e, "fn"})
  <2>1. CASE <<c, e>> \in aborts
    BY <2>1 DEF Freed, UsersState
  <2>2. CASE <<c, e>> \notin aborts /\ req[<<c, e>>] = "user"
    BY <2>2, <1>1 DEF Freed, UsersState, Pointed
  <2>3. CASE <<c, e>> \notin aborts /\ req[<<c, e>>] = "port"
    BY <2>3, <1>1 DEF Freed, UsersState, Pointed
  <2> QED BY <2>1, <2>2, <2>3 DEF Freed, UsersState
<1>4. /\ pc'[c] \in {"close", "use"} /\ \A p \in Client : p # c => pc'[p] = pc[p]
      /\ \A p \in Request : p # <<c, e>> => req'[p] = req[p]
      /\ pc'[c] = "use" => "claim" \in has[c]
  BY <1>3 DEF Step, Kinds, ClientPlace, ClientAt
<1>5. Kinds'
  BY <1>2, <1>3 DEF Kinds, Step, hubVars, claimVars
<1>6. HubPlace'
  BY <1>4 DEF HubPlace, Valid, hubVars, Kinds
<1>7. ClientPlace'
  <2>1. ASSUME NEW p \in Client PROVE ClientAt(p)'
    <3>1. CASE p = c
      <4>1. \A x \in {"cep", "ep"} : req'[<<c, x>>] # "tested"
        BY <1>1, <1>3, <1>4 DEF Request, Kinds, ClientPlace, ClientAt
      <4> QED BY <1>2, <1>4, <3>1, <4>1 DEF ClientAt
    <3>2. CASE p # c
      <4>1. \A x \in {"cep", "ep"} : req'[<<p, x>>] = req[<<p, x>>]
        BY <1>4, <3>2 DEF Request
      <4> QED BY <1>2, <1>4, <3>2, <4>1 DEF ClientPlace, ClientAt
    <3> QED BY <3>1, <3>2
  <2>2. pc'[init] # "ended" /\ \A p \in Driver : pc'[p] # "parsed"
    BY <1>4 DEF ClientPlace, Client
  <2> QED BY <2>1, <2>2 DEF claimVars, ClientPlace
<1>8. ClaimsAgree'
  BY <1>2 DEF claimVars, ClaimsAgree
<1>9. \A o \in Object : ExactAt(o)'
  <2>1. DriverNodes' = DriverNodes
    BY Still, StepNodes
  <2>2. CASE v = "lost" /\ locks' = locks
    <3>1. \A o : Requests(o)' = Requests(o)
      BY <1>1, <1>3, <2>2, RequestTurns
    <3> QED BY <1>2, <2>1, <2>2, <3>1, NothingMoves DEF hubVars
  <2>3. CASE v # "lost" /\ locks' = Unlocked(locks, {e, "fn"})
    BY <1>1, <1>2, <1>3, <2>1, <2>3, RequestMoves
  <2> QED BY <1>3, <2>2, <2>3
<1>10. activeIO' = Cardinality(InHCD')
  BY <1>1, <1>3, HCDTurns
<1> QED BY <1>3, <1>5, <1>6, <1>7, <1>8, <1>9, <1>10 DEF Core, Exact, ExactAt, Unlocked

LEMMA ReleasedKeeps == ASSUME LocksInvariant, NEW c \in Client, Released(c) PROVE Core'
BY FreedKeeps DEF Released

LEMMA CloseResourceKeeps ==
    ASSUME LocksInvariant, NEW c \in Client, NEW e \in {"cep", "ep"}, CloseResource(c, e)
    PROVE  Core'
<1>1. /\ Freed(c, e) /\ pc[c] = "close" /\ pc' = pc
      /\ UNCHANGED <<st, freeMe, detach, address, config, claimVars, hubVars, activeIO, aborts, overtaken, prompt>>
  BY DEF CloseResource
<1> QED BY <1>1, FreedKeeps

LEMMA UnregisterKeeps == ASSUME LocksInvariant, NEW c \in Client, Unregister(c) PROVE Core'
<1> USE InvariantParts
<1>1. /\ pc'[c] \in {"ended", "gone"} /\ (c = init => pc'[c] = "gone") /\ has'[c] = {}
      /\ \A p \in Client : p # c => has'[p] = has[p] /\ pc'[p] = pc[p]
  BY DEF Kinds, Unregister, Step
<1>2. "claim" \in has[c] => /\ Target(c) = "fn" => c = owner /\ ihOwner = none
                            /\ Target(c) = "ih" => c = ihOwner /\ owner = none
  <2>1. "claim" \in has[c] => c \in {owner, ihOwner} /\ c # none
    BY ObjectLocksAssumption DEF ClaimsAgree, Client
  <2> QED BY <2>1 DEF ClientPlace, ClaimsAgree
<1>3. Kinds' /\ HubPlace' /\ ClientPlace' /\ ClaimsAgree'
  <2>1. Kinds'
    BY DEF Kinds, Unregister, ClaimBack, Step, hubVars, ioVars, claimVars
  <2>2. HubPlace'
    BY DEF Kinds, Unregister, hubVars, HubPlace, Valid
  <2>3. ClientPlace'
    <3>1. ASSUME NEW p \in Client PROVE ClientAt(p)'
      BY <1>1 DEF Unregister, ioVars, ClientPlace, ClientAt
    <3>2. pc'[init] # "ended" /\ \A p \in Driver : pc'[p] # "parsed"
      BY <1>1 DEF ClientPlace, Client
    <3> QED BY <3>1, <3>2 DEF Unregister, ClaimBack, claimVars, ClientPlace
  <2>4. ClaimsAgree'
    <3>1. CASE "claim" \notin has[c]
      <4>1. \A p \in Client : ("claim" \in has'[p]) <=> ("claim" \in has[p])
        BY <1>1, <3>1
      <4> QED BY <3>1, <4>1 DEF Unregister, claimVars, ClaimsAgree
    <3>2. CASE "claim" \in has[c] /\ Target(c) = "fn"
      <4>1. owner' = none /\ ihOwner' = none /\ claims' = claims
        BY <1>2, <3>2 DEF Unregister, ClaimBack
      <4>2. \A p \in Client : "claim" \in has'[p] => FALSE
        BY <1>1, <1>2, <3>2, ObjectLocksAssumption DEF ClaimsAgree, Client
      <4> QED BY <1>2, <3>2, <4>1, <4>2, ObjectLocksAssumption DEF ClaimsAgree, Client
    <3>3. CASE "claim" \in has[c] /\ Target(c) = "ih"
      <4>1. owner' = none /\ ihOwner' = none /\ claims' = claims - 1
        BY <1>2, <3>3 DEF Unregister, ClaimBack
      <4>2. \A p \in Client : "claim" \in has'[p] => FALSE
        BY <1>1, <1>2, <3>3, ObjectLocksAssumption DEF ClaimsAgree, Client
      <4>3. claims' = 0
        BY <1>2, <3>3, <4>1, ObjectLocksAssumption DEF ClaimsAgree, Client, One
      <4> QED BY <4>1, <4>2, <4>3, ObjectLocksAssumption DEF ClaimsAgree, Client, One
    <3> QED BY <3>1, <3>2, <3>3, TargetIs
  <2> QED BY <2>1, <2>2, <2>3, <2>4
<1>4. locks' = [o \in Object |-> locks'[o]]
  BY DEF Unregister, Unlocked
<1>5. ASSUME NEW o \in Object PROVE ExactAt(o)'
  <2>1. /\ DriverNodes' = DriverNodes /\ st' = st /\ own' = own /\ message' = message
        /\ aborts' = aborts /\ Changed(Requests(o), Requests(o)', 0)
    <3>1. DriverNodes' = DriverNodes
      BY <1>1, StepNodes DEF Unregister
    <3> QED BY <3>1, Still DEF Unregister, hubVars, ioVars, Changed
  <2>2. PICK h \in {0, 0 - 1} :
           /\ Changed(Holders(o), Holders(o)', h)
           /\ h = IF o \in has[c] \cap {"fn", "ih"} THEN 0 - 1 ELSE 0
    <3>1. CASE o \in has[c] \cap {"fn", "ih"}
      <4>1. c \in Holders(o) /\ Holders(o)' = Holders(o) \ {c}
        BY <1>1, <3>1 DEF Holders
      <4>2. Changed(Holders(o), Holders(o)', 0 - 1)
        BY <4>1 DEF Changed
      <4> QED BY <3>1, <4>2
    <3>2. CASE o \notin has[c] \cap {"fn", "ih"}
      <4>1. Holders(o)' = Holders(o)
        BY <1>1, <3>2 DEF Holders
      <4>2. Changed(Holders(o), Holders(o)', 0)
        BY <4>1 DEF Changed
      <4> QED BY <3>2, <4>2
    <3> QED BY <3>1, <3>2
  <2>3. PICK k \in {0, 0 - 1} :
           /\ Changed(Claimers(o), Claimers(o)', k)
           /\ k = IF "claim" \in has[c] /\ o = Target(c) THEN 0 - 1 ELSE 0
    <3>1. CASE "claim" \in has[c] /\ o = Target(c)
      <4>1. c \in Claimers(o) /\ Claimers(o)' = Claimers(o) \ {c}
        BY <1>1, <3>1 DEF Claimers
      <4>2. Changed(Claimers(o), Claimers(o)', 0 - 1)
        BY <4>1 DEF Changed
      <4> QED BY <3>1, <4>2
    <3>2. CASE ~ ("claim" \in has[c] /\ o = Target(c))
      <4>1. Claimers(o)' = Claimers(o)
        BY <1>1, <3>2 DEF Claimers
      <4>2. Changed(Claimers(o), Claimers(o)', 0)
        BY <4>1 DEF Changed
      <4> QED BY <3>2, <4>2
    <3> QED BY <3>1, <3>2
  <2>4. locks'[o] = locks[o] + (0 + h + k)
    <3>1. PICK n \in Nat : n = locks[o]
      BY Counts DEF Exact
    <3> QED BY <2>2, <2>3, <3>1 DEF Unregister, Unlocked
  <2>5. ~ (0 + h + k > 0)
    BY <2>2, <2>3
  <2> QED BY <2>1, <2>2, <2>3, <2>4, <2>5, UserMoves
<1>6. activeIO' = Cardinality(InHCD')
  BY SameIO DEF Unregister, ioVars
<1> QED BY <1>3, <1>4, <1>5, <1>6 DEF Core, Exact, ExactAt

-----------------------------------------------------------------------------
(* The steps that make and free objects *)

\* From the objects s, others that fit as s does, with hn as it was.
Fitting(s, t, oth) == t \in Objects /\ Fits(t, oth) /\ t.st["hn"] = s.st["hn"]

LEMMA FreeOneFitting ==
    ASSUME NEW oth \in [Object -> Nat], NEW s, NEW t, Fitting(s, t, oth), NEW o \in Object, o # "hn"
    PROVE  Fitting(s, FreeOne(t, o), oth)
BY FreeOneFits DEF Fitting, Object

LEMMA ReleasedFits ==
    ASSUME NEW oth \in [Object -> Nat], NEW s \in Objects, Fits(s, oth)
    PROVE  Fitting(s, FreeControl(FreeConfig(s)), oth)
<1>0. {"ep", "in", "ih", "ig", "cn", "cep"} \subseteq Object /\ Fitting(s, s, oth)
  BY DEF Object, Fitting
<1>1. Fitting(s, FreeEndPoint(s), oth)
  BY <1>0, FreeOneFitting DEF FreeEndPoint
<1>2. Fitting(s, FreeInterface(s), oth)
  BY <1>0, <1>1, FreeOneFitting DEF FreeInterface
<1>3. Fitting(s, FreeHeader(s), oth)
  BY <1>0, <1>2, FreeOneFitting DEF FreeHeader
<1>4. Fitting(s, FreeGroup(s), oth)
  BY <1>0, <1>3, FreeOneFitting DEF FreeGroup
<1>5. Fitting(s, FreeConfig(s), oth)
  BY <1>0, <1>4, FreeOneFitting DEF FreeConfig
<1> QED BY <1>0, <1>5, FreeOneFitting DEF FreeControl

\* Each object of the configuration is made below the one before.
Chain(s, t, oth, made) ==
    /\ Fitting(s, t, oth)
    /\ \A o \in Object : t.st[o] = IF o \in made THEN "live" ELSE s.st[o]

LEMMA MadeChain ==
    ASSUME NEW oth \in [Object -> Nat], NEW s, NEW t, NEW made, Chain(s, t, oth, made),
           NEW o \in Object, o # "hn", o \notin made, s.st[o] # "live",
           \A p \in Parents(o) : p \in made \/ s.st[p] = "live"
    PROVE  Chain(s, Made(t, o), oth, made \cup {o})
<1>1. /\ t \in Objects /\ Fits(t, oth) /\ t.st["hn"] = s.st["hn"] /\ "hn" \in Object
      /\ \A p \in Object : t.st[p] = IF p \in made THEN "live" ELSE s.st[p]
  BY DEF Chain, Fitting, Object
<1>2. t.st[o] # "live" /\ \A p \in Parents(o) : t.st[p] = "live"
  BY <1>1, ParentsAre
<1>3. /\ Made(t, o) \in Objects /\ Fits(Made(t, o), oth)
      /\ Made(t, o).st = [t.st EXCEPT ![o] = "live"]
  BY <1>1, <1>2, MadeFits
<1>4. \A p \in Object : Made(t, o).st[p] = IF p = o THEN "live" ELSE t.st[p]
  BY <1>1, <1>3 DEF Objects
<1> QED BY <1>1, <1>3, <1>4 DEF Chain, Fitting

LEMMA ParsedFits ==
    ASSUME NEW oth \in [Object -> Nat], NEW s \in Objects, Fits(s, oth), s.st["fn"] = "live",
           \A o \in {"cn", "ig", "ih", "in", "ep"} : s.st[o] # "live",
           NEW c, c = AllocConfig(s), NEW g, g = AllocGroup(c), NEW h, h = AllocHeader(g),
           NEW n, n = AllocInterface(h), NEW e, e = AllocEndPoint(n)
    PROVE  \A t \in {s, c, g, h, n, e} : Fitting(s, t, oth) /\ t.st["fn"] = "live"
<1>0. /\ {"fn", "cn", "ig", "ih", "in", "ep"} \subseteq Object
      /\ Parents("cn") = {"fn"} /\ Parents("ig") = {"fn", "cn"} /\ Parents("ih") = {"fn", "ig"}
      /\ Parents("in") = {"fn", "ih"} /\ Parents("ep") = {"fn", "in"}
  BY ParentsAre DEF ParentsOf, Object
<1>1. Chain(s, s, oth, {})
  BY DEF Chain, Fitting
<1>2. Chain(s, c, oth, {} \cup {"cn"})
  BY <1>0, <1>1, MadeChain DEF AllocConfig
<1>3. Chain(s, g, oth, ({} \cup {"cn"}) \cup {"ig"})
  BY <1>0, <1>2, MadeChain DEF AllocGroup
<1>4. Chain(s, h, oth, (({} \cup {"cn"}) \cup {"ig"}) \cup {"ih"})
  BY <1>0, <1>3, MadeChain DEF AllocHeader
<1>5. Chain(s, n, oth, ((({} \cup {"cn"}) \cup {"ig"}) \cup {"ih"}) \cup {"in"})
  BY <1>0, <1>4, MadeChain DEF AllocInterface
<1>6. Chain(s, e, oth, (((({} \cup {"cn"}) \cup {"ig"}) \cup {"ih"}) \cup {"in"}) \cup {"ep"})
  BY <1>0, <1>5, MadeChain DEF AllocEndPoint
<1> QED BY <1>0, <1>1, <1>2, <1>3, <1>4, <1>5, <1>6 DEF Chain

LEMMA AddedFits ==
    ASSUME NEW oth \in [Object -> Nat], NEW s \in Objects, Fits(s, oth), s.st["hn"] = "live",
           s.st["fn"] # "live", s.st["cep"] # "live"
    PROVE  /\ Fitting(s, AllocControl(AllocFunction(s)), oth)
           /\ AllocControl(AllocFunction(s)).st["fn"] = "live"
<1>0. /\ {"fn", "cep"} \subseteq Object /\ Parents("fn") = {"hn"} /\ Parents("cep") = {"fn"}
  BY ParentsAre DEF ParentsOf, Object
<1>1. Chain(s, s, oth, {})
  BY DEF Chain, Fitting
<1>2. Chain(s, AllocFunction(s), oth, {} \cup {"fn"})
  BY <1>0, <1>1, MadeChain DEF AllocFunction
<1>3. Chain(s, AllocControl(AllocFunction(s)), oth, ({} \cup {"fn"}) \cup {"cep"})
  BY <1>0, <1>2, MadeChain DEF AllocControl
<1> QED BY <1>0, <1>3 DEF Chain

\* What the objects are before and after such a step, where all else that refers to one stays.
LEMMA FitsKeep ==
    ASSUME LocksInvariant, NEW s \in Objects, st' = s.st, locks' = s.locks,
           Fits(s, [o \in Object |-> Others(o)]),
           UNCHANGED <<req, has, aborts, own, message>>, DriverNodes' = DriverNodes
    PROVE  /\ \A o \in Object : ExactAt(o)'
           /\ locks' = [o \in Object |-> locks'[o]] /\ st' \in [Object -> {"none", "live", "freed"}]
<1> USE InvariantParts
<1>1. ASSUME NEW o \in Object PROVE ExactAt(o)'
  <2>1. Others(o) = Others(o)'
    BY Still DEF Others
  <2>2. /\ Cardinality(Children(o)') = Cardinality(Below(s.st, o))
        /\ Valid(o)' <=> s.st[o] = "live"
    BY DEF Children, Below, Valid
  <2>3. /\ s.locks[o] = Cardinality(Below(s.st, o)) + Others(o)
        /\ s.st[o] # "live" => Cardinality(Below(s.st, o)) + Others(o) = 0
    BY DEF Fits
  <2>4. PICK n0 \in Nat, n1 \in Nat, n2 \in Nat, n3 \in Nat, n4 \in Nat, n5 \in Nat, w \in Nat, m \in Nat :
           /\ n0 = Cardinality(Below(s.st, o)) /\ n1 = Cardinality(Requests(o))
           /\ n2 = Cardinality(Holders(o)) /\ n3 = Cardinality(Claimers(o))
           /\ n4 = Cardinality(DriverNodes) /\ n5 = Cardinality(aborts)
           /\ w = One(o = "fn" /\ own) /\ m = One(o = "fn" /\ message)
    BY Counts, BelowFinite, FS_CardinalityType
  <2>5. /\ Cardinality(Requests(o)') = n1 /\ Cardinality(Holders(o)') = n2
        /\ Cardinality(Claimers(o)') = n3 /\ Cardinality(DriverNodes') = n4
        /\ Cardinality(aborts') = n5
        /\ w = One(o = "fn" /\ own)' /\ m = One(o = "fn" /\ message)'
    BY <2>4, Still
  <2>6. CASE o \in {"fn", "hn"}
    <3>1. References(o)' = n0 + n1 + n2 + n3 + (n4 + n5) + w + m
      BY <2>2, <2>4, <2>5, <2>6 DEF References
    <3>2. Others(o) = n1 + n2 + n3 + (n4 + n5) + w + m
      BY <2>4, <2>6 DEF Others
    <3>3. PICK x \in Nat : x = References(o)' /\ x = Cardinality(Below(s.st, o)) + Others(o)
      BY <2>4, <3>1, <3>2
    <3> QED BY <2>2, <2>3, <3>3 DEF ExactAt
  <2>7. CASE o \notin {"fn", "hn"}
    <3>1. References(o)' = n0 + n1 + n2 + n3 + 0 + w + m
      BY <2>2, <2>4, <2>5, <2>7 DEF References
    <3>2. Others(o) = n1 + n2 + n3 + 0 + w + m
      BY <2>4, <2>7 DEF Others
    <3>3. PICK x \in Nat : x = References(o)' /\ x = Cardinality(Below(s.st, o)) + Others(o)
      BY <2>4, <3>1, <3>2
    <3> QED BY <2>2, <2>3, <3>3 DEF ExactAt
  <2> QED BY <2>6, <2>7
<1>2. s.st \in [Object -> {"none", "live", "freed"}] /\ s.locks \in [Object -> Nat]
  BY DEF Objects
<1> QED BY <1>1, <1>2

LEMMA Now ==
    ASSUME LocksInvariant
    PROVE  /\ [st |-> st, locks |-> locks] \in Objects
           /\ Fits([st |-> st, locks |-> locks], [o \in Object |-> Others(o)])
           /\ [o \in Object |-> Others(o)] \in [Object -> Nat]
BY InvariantParts, ExactFits

\* What is below something that is not in use is not in use.
LEMMA NoneBelow ==
    ASSUME LocksInvariant, NEW o \in Object, ~ Valid(o), NEW p \in Object, o \in Parents(p)
    PROVE  st[p] # "live"
<1>1. Children(o) = {}
  BY InvariantParts, InUse
<1> QED BY <1>1 DEF Children, Valid

LEMMA AddFunctionKeeps == ASSUME LocksInvariant, AddFunction PROVE Core'
<1> USE InvariantParts
<1>1. PICK s : s = AllocControl(AllocFunction([st |-> st, locks |-> locks])) /\ st' = s.st /\ locks' = s.locks
  BY DEF AddFunction
<1>2. PICK oth \in [Object -> Nat] : oth = [o \in Object |-> Others(o)]
  BY Now
<1>3. /\ st["fn"] # "live" /\ st["cep"] # "live" /\ st["hn"] = "live" /\ freeMe = FALSE
      /\ message = FALSE /\ own = FALSE /\ hub = "add"
  <2>1. Parents("cep") = {"fn"} /\ {"fn", "cep"} \subseteq Object
    BY ParentsAre DEF ParentsOf, Object
  <2>2. ~ Valid("fn") /\ Valid("hn") /\ freeMe = FALSE /\ message = FALSE /\ own = FALSE /\ hub = "add"
    BY DEF AddFunction, HubPlace, Kinds
  <2> QED BY <2>1, <2>2, NoneBelow DEF Valid
<1>4. s \in Objects /\ Fits(s, oth) /\ s.st["hn"] = "live" /\ s.st["fn"] = "live"
  BY <1>1, <1>2, <1>3, Now, AddedFits DEF Fitting
<1>8. DriverNodes' = DriverNodes
  <2>1. CASE UNCHANGED pc
    BY <2>1, Still
  <2>2. CASE Step(init, "start")
    BY <2>2, StepNodes DEF Client
  <2> QED BY <2>1, <2>2 DEF AddFunction, Step
<1>9. /\ \A o \in Object : ExactAt(o)'
      /\ locks' = [o \in Object |-> locks'[o]] /\ st' \in [Object -> {"none", "live", "freed"}]
  BY <1>1, <1>2, <1>4, <1>8, FitsKeep DEF AddFunction, ioVars
<1>10. Kinds'
  BY <1>9 DEF Kinds, AddFunction, claimVars, ioVars, Client
<1>11. HubPlace'
  <2>1. st'["fn"] = "live" /\ st'["hn"] = "live"
    BY <1>1, <1>4
  <2> QED BY <1>3, <2>1 DEF HubPlace, AddFunction, Valid
<1>12. ClientPlace' /\ ClaimsAgree'
  <2>1. ClientPlace'
    BY <1>3 DEF Kinds, AddFunction, claimVars, ioVars, ClientPlace, ClientAt, HubPlace, Client
  <2>2. ClaimsAgree'
    BY DEF AddFunction, claimVars, ClaimsAgree
  <2> QED BY <2>1, <2>2
<1>13. activeIO' = Cardinality(InHCD')
  BY SameIO DEF AddFunction, ioVars
<1> QED BY <1>9, <1>10, <1>11, <1>12, <1>13 DEF Core, Exact, ExactAt

LEMMA CheckFunctionKeeps == ASSUME LocksInvariant, CheckFunction PROVE Core'
<1> USE InvariantParts
<1>1. PICK s : s = FreeOne([st |-> st, locks |-> locks], "fn") /\ st' = s.st /\ locks' = s.locks
  BY DEF CheckFunction
<1>2. PICK oth \in [Object -> Nat] : oth = [o \in Object |-> Others(o)]
  BY Now
<1>4. s \in Objects /\ Fits(s, oth) /\ s.st["hn"] = st["hn"]
  BY <1>1, <1>2, Now, FreeOneFits DEF Object
<1>5. /\ \A o \in Object : ExactAt(o)'
      /\ locks' = [o \in Object |-> locks'[o]] /\ st' \in [Object -> {"none", "live", "freed"}]
  BY <1>1, <1>2, <1>4, Still, FitsKeep DEF CheckFunction, ioVars, clientVars
<1>6. Kinds'
  BY <1>5 DEF Kinds, CheckFunction, claimVars, ioVars, clientVars
<1>7. HubPlace'
  <2>1. hub' \in {"gone", "free"} /\ hub \in {"check", "dropCheck"} /\ own' = own
    BY DEF CheckFunction
  <2> QED BY <1>1, <1>4, <2>1 DEF HubPlace, Valid
<1>8. ClientPlace' /\ ClaimsAgree'
  BY DEF CheckFunction, claimVars, clientVars, ioVars, ClientPlace, ClientAt, ClaimsAgree
<1>9. activeIO' = Cardinality(InHCD')
  BY SameIO DEF CheckFunction, ioVars
<1> QED BY <1>5, <1>6, <1>7, <1>8, <1>9 DEF Core, Exact, ExactAt

LEMMA ReleaseFunctionKeeps == ASSUME LocksInvariant, ReleaseFunction PROVE Core'
<1> USE InvariantParts
<1>1. PICK s : s = FreeControl(FreeConfig([st |-> st, locks |-> locks])) /\ st' = s.st /\ locks' = s.locks
  BY DEF ReleaseFunction
<1>2. PICK oth \in [Object -> Nat] : oth = [o \in Object |-> Others(o)]
  BY Now
<1>10. s \in Objects /\ Fits(s, oth) /\ s.st["hn"] = st["hn"]
  BY <1>1, <1>2, Now, ReleasedFits DEF Fitting
<1>11. /\ \A o \in Object : ExactAt(o)'
       /\ locks' = [o \in Object |-> locks'[o]] /\ st' \in [Object -> {"none", "live", "freed"}]
  BY <1>1, <1>2, <1>10, Still, FitsKeep DEF ReleaseFunction, ioVars, clientVars
<1>12. Kinds'
  <2>1. config' \in BOOLEAN /\ address' \in BOOLEAN
    BY DEF ReleaseFunction
  <2> QED BY <1>11, <2>1 DEF Kinds, ReleaseFunction, claimVars, ioVars, clientVars
<1>13. HubPlace'
  <2>1. hub' \in {"check", "dropCheck"} /\ hub \in {"release", "dropRelease"} /\ own' = own
    BY DEF ReleaseFunction
  <2> QED BY <1>1, <1>10, <2>1 DEF HubPlace, Valid
<1>14. ClientPlace' /\ ClaimsAgree'
  BY DEF ReleaseFunction, claimVars, clientVars, ioVars, ClientPlace, ClientAt, ClaimsAgree
<1>15. activeIO' = Cardinality(InHCD')
  BY SameIO DEF ReleaseFunction, ioVars
<1> QED BY <1>11, <1>12, <1>13, <1>14, <1>15 DEF Core, Exact, ExactAt

LEMMA ParseKeeps == ASSUME LocksInvariant, Parse PROVE Core'
<1> USE InvariantParts
<1>1. PICK s0, c, g, h, n, e :
         /\ s0 = [st |-> st, locks |-> locks] /\ c = AllocConfig(s0) /\ g = AllocGroup(c)
         /\ h = AllocHeader(g) /\ n = AllocInterface(h) /\ e = AllocEndPoint(n)
         /\ \E s \in {s0, c, g, h, n, e} : st' = s.st /\ locks' = s.locks
  BY DEF Parse
<1>2. PICK oth \in [Object -> Nat] : oth = [o \in Object |-> Others(o)]
  BY Now
<1>3. {"cn", "ig", "ih", "in", "ep"} \subseteq Object /\ "cn" \in Parents("ig") /\ "ig" \in Parents("ih")
      /\ "ih" \in Parents("in") /\ "in" \in Parents("ep")
  BY ParentsAre DEF ParentsOf, Object
<1>4. st["fn"] = "live" /\ \A o \in {"cn", "ig", "ih", "in", "ep"} : st[o] # "live"
  <2>1. st["fn"] = "live" /\ st["cn"] # "live"
    BY DEF Parse, Usable, Valid
  <2>2. st["ig"] # "live"
    BY <1>3, <2>1, NoneBelow DEF Valid
  <2>3. st["ih"] # "live"
    BY <1>3, <2>2, NoneBelow DEF Valid
  <2>4. st["in"] # "live"
    BY <1>3, <2>3, NoneBelow DEF Valid
  <2>5. st["ep"] # "live"
    BY <1>3, <2>4, NoneBelow DEF Valid
  <2> QED BY <2>1, <2>2, <2>3, <2>4, <2>5
<1>5. s0 \in Objects /\ Fits(s0, oth) /\ s0.st = st
  BY <1>1, <1>2, Now
<1>6. \A s \in {s0, c, g, h, n, e} : Fitting(s0, s, oth) /\ s.st["fn"] = "live"
  BY <1>1, <1>4, <1>5, ParsedFits
<1>11. PICK s \in Objects : /\ st' = s.st /\ locks' = s.locks /\ Fits(s, oth)
                            /\ s.st["hn"] = st["hn"] /\ s.st["fn"] = "live"
  BY <1>1, <1>5, <1>6 DEF Fitting
<1>12. PICK l \in {"parsed", "close"} : Step(init, l)
  BY DEF Parse
<1>13. DriverNodes' = DriverNodes
  BY <1>12, StepNodes DEF Client
<1>14. /\ \A o \in Object : ExactAt(o)'
       /\ locks' = [o \in Object |-> locks'[o]] /\ st' \in [Object -> {"none", "live", "freed"}]
  BY <1>2, <1>11, <1>13, FitsKeep DEF Parse, ioVars, hubVars
<1>15. pc'[init] = l /\ pc[init] = "use" /\ init \notin Driver /\ \A p \in Client : p # init => pc'[p] = pc[p]
  BY <1>12, ObjectLocksAssumption DEF Kinds, Step, Client, Parse
<1>16. Kinds'
  BY <1>12, <1>14 DEF Kinds, Parse, Step, claimVars, ioVars, hubVars
<1>17. HubPlace'
  <2>1. hub \notin {"add"}
    BY <1>15 DEF HubPlace, Client
  <2> QED BY <1>11, <2>1 DEF HubPlace, Valid, Parse, hubVars
<1>18. ClientPlace' /\ ClaimsAgree'
  <2>1. ASSUME NEW p \in Client PROVE ClientAt(p)'
    BY <1>15 DEF Parse, ioVars, ClientPlace, ClientAt
  <2>2. pc'[init] # "ended" /\ \A p \in Driver : pc'[p] # "parsed"
    BY <1>15 DEF ClientPlace, Client
  <2>3. ClaimsAgree'
    BY DEF Parse, claimVars, ClaimsAgree
  <2> QED BY <2>1, <2>2, <2>3 DEF Parse, claimVars, ClientPlace
<1>19. activeIO' = Cardinality(InHCD')
  BY SameIO DEF Parse, ioVars
<1> QED BY <1>14, <1>16, <1>17, <1>18, <1>19 DEF Core, Exact, ExactAt

-----------------------------------------------------------------------------
(* LocksInvariant is inductive *)

LEMMA LocksInit == Init => LocksInvariant
<1> SUFFICES ASSUME Init PROVE Core
  BY CoreSuffices
<1>1. Kinds
  BY DEF Init, Kinds, Object
<1>2. InHCD = {} /\ DriverNodes = {} /\ \A o : Requests(o) = {} /\ Holders(o) = {} /\ Claimers(o) = {}
  BY DEF Init, InHCD, DriverNodes, Requests, Holders, Claimers, Alive, Client
<1>3. \A o \in Object : Children(o) = {}
  BY ParentsAre DEF Init, Children, Valid, ParentsOf
<1>4. Cardinality({}) = 0
  BY FS_EmptySet
<1>5. \A o \in Object : References(o) = 0
  BY <1>2, <1>3, <1>4 DEF References, Init, One
<1>6. Exact /\ locks = [o \in Object |-> locks[o]]
  BY <1>5 DEF Init, Exact
<1>7. ClaimsAgree
  BY ObjectLocksAssumption DEF Init, ClaimsAgree, One, Client
<1>8. HubPlace /\ ClientPlace
  BY DEF Init, HubPlace, ClientPlace, ClientAt, Valid, Object, Client, Request
<1> QED BY <1>1, <1>2, <1>4, <1>6, <1>7, <1>8 DEF Core, Init

LEMMA LocksStuttered == ASSUME LocksInvariant, UNCHANGED vars PROVE LocksInvariant'
<1> USE DEF vars, fnVars, claimVars, hubVars, clientVars, ioVars
<1>1. /\ \A o : Requests(o)' = Requests(o) /\ Holders(o)' = Holders(o) /\ Claimers(o)' = Claimers(o)
      /\ InHCD' = InHCD /\ DriverNodes' = DriverNodes
  BY Still
<1>2. Exact'
  <2>1. \A o : Children(o)' = Children(o)
    BY DEF Children, Valid
  <2>2. \A o : References(o)' = References(o)
    BY <1>1, <2>1 DEF References, One
  <2> QED BY <2>2 DEF LocksInvariant, Exact, Valid
<1>3. TypeOK' /\ ClaimsAgree' /\ HubPlace' /\ ClientPlace'
  BY DEF LocksInvariant, TypeOK, Kinds, ClaimsAgree, HubPlace, ClientPlace, ClientAt, Valid
<1> QED BY <1>1, <1>2, <1>3 DEF LocksInvariant

LEMMA LocksStep == LocksInvariant /\ [Next]_vars => LocksInvariant'
<1> SUFFICES ASSUME LocksInvariant, [Next]_vars PROVE LocksInvariant'
  OBVIOUS
<1>0. Core' => LocksInvariant'
  BY CoreSuffices, PTL
<1>1. CASE HubNext
  BY <1>0, <1>1, AddFunctionKeeps, InitialisedKeeps, BindDriverKeeps, UnplugKeeps, StopHubKeeps,
     FreeFunctionKeeps, StopServedKeeps, ReleaseFunctionKeeps, CheckFunctionKeeps DEF HubNext
<1>2. CASE MasterDetach
  BY <1>0, <1>2, MasterDetachKeeps
<1>3. CASE HCDNext
  BY <1>0, <1>3, HandleBeginKeeps, HandleAbortKeeps DEF HCDNext
<1>4. ASSUME NEW q \in Request, Finish(q) PROVE LocksInvariant'
  BY <1>0, <1>4, FinishKeeps
<1>5. ASSUME NEW c \in Client, ClientNext(c) PROVE LocksInvariant'
  <2>1. CASE Opening(c)
    BY <1>0, <2>1, LockTargetKeeps, ClaimFunctionKeeps, ClaimInterfaceKeeps, ObtainControlKeeps DEF Opening
  <2>2. CASE Closing(c)
    BY <1>0, <2>2, StopKeeps, CloseResourceKeeps, ReleasedKeeps, UnregisterKeeps, FreeDriverKeeps,
       QuitKeeps DEF Closing
  <2>3. CASE ObtainEndPoint(c) \/ Release(c)
    BY <1>0, <2>3, ObtainEndPointKeeps, ReleaseKeeps
  <2>4. ASSUME NEW e \in {"cep", "ep"}, Send(c, e) \/ Put(c, e) PROVE LocksInvariant'
    BY <1>0, <2>4, SendKeeps, PutKeeps
  <2> QED BY <1>5, <2>1, <2>2, <2>3, <2>4 DEF ClientNext
<1>6. CASE Parse \/ SetConfig
  BY <1>0, <1>6, ParseKeeps, SetConfigKeeps
<1>7. CASE UNCHANGED vars
  BY <1>7, LocksStuttered
<1> QED BY <1>1, <1>2, <1>3, <1>4, <1>5, <1>6, <1>7 DEF Next

LEMMA LocksInductive == Spec => []LocksInvariant
<1>1. Init => LocksInvariant
  BY LocksInit
<1>2. LocksInvariant /\ [Next]_vars => LocksInvariant'
  BY LocksStep
<1> QED BY <1>1, <1>2, PTL DEF Spec

\* However many drivers there are, an object is locked exactly as often as something refers to it,
\* and claims are known to those that hold them (the Lock.c, Unlock.c and Free.c of each kind).
THEOREM LocksAgreeAlways == Spec => []LocksAgree
<1>1. LocksInvariant => LocksAgree
  <2>1. LocksInvariant => LocksExact
    BY DEF LocksInvariant, Exact, LocksExact
  <2> QED BY <2>1 DEF LocksInvariant, LocksAgree
<1> QED BY <1>1, LocksInductive, PTL

-----------------------------------------------------------------------------
(* What a served request needs is kept *)

\* A step of a client, or of the Master, that lets the hub and the requests alone.
LEMMA ClientsServed ==
    ASSUME LocksInvariant, ServedInvariant,
           UNCHANGED <<address, freeMe, detach, hub, prompt, req, overtaken>>,
           NEW c \in Client, NEW l, pc' = pc \/ (Step(c, l) /\ pc[c] # "none")
    PROVE  ServedInvariant'
<1>1. pc \in [Client -> {"none", "start", "claim", "obtain", "use", "begin", "parsed", "release",
                         "close", "ended", "gone"}]
  BY InvariantParts DEF Kinds
<1>2. (\A p \in Client : pc[p] = "none") => (\A p \in Client : pc'[p] = "none")
  BY <1>1 DEF Step
<1> QED BY <1>2 DEF ServedInvariant

\* A request that goes on to v, which needs nothing that it did not need before.
LEMMA RequestServed ==
    ASSUME LocksInvariant, ServedInvariant,
           UNCHANGED <<address, freeMe, detach, hub, prompt, overtaken>>,
           NEW q \in Request, NEW v, req' = [req EXCEPT ![q] = v],
           prompt => v \notin {"dangling", "lost"},
           v \in {"port", "hcd"} => req[q] \in {"port", "hcd"},
           v = "hcd" => req[q] = "hcd" \/ ~ detach,
           NEW c \in Client, NEW l, pc' = pc \/ (Step(c, l) /\ pc[c] # "none")
    PROVE  ServedInvariant'
<1>1. /\ pc \in [Client -> {"none", "start", "claim", "obtain", "use", "begin", "parsed", "release",
                            "close", "ended", "gone"}]
      /\ req \in [Request -> {"none", "user", "tested", "port", "hcd", "freed", "dangling", "lost"}]
  BY InvariantParts DEF Kinds
<1>2. (\A p \in Client : pc[p] = "none") => (\A p \in Client : pc'[p] = "none")
  BY <1>1 DEF Step
<1>3. req'[q] = v /\ \A p \in Request : p # q => req'[p] = req[p]
  BY <1>1
<1> QED BY <1>2, <1>3 DEF ServedInvariant

LEMMA HubServed == ASSUME LocksInvariant, ServedInvariant, HubNext PROVE ServedInvariant'
<1> USE InvariantParts
<1>1. CASE AddFunction
  <2>1. \A q \in Request : req[q] = "none"
    <3>1. ASSUME NEW c \in Client, NEW e \in {"cep", "ep"} PROVE req[<<c, e>>] = "none"
      BY <1>1 DEF AddFunction, HubPlace, ClientPlace, ClientAt
    <3>2. \A q \in Request : \E c \in Client, e \in {"cep", "ep"} : q = <<c, e>>
      BY DEF Request
    <3> QED BY <3>1, <3>2
  <2>2. /\ (hub' = "init" /\ address' = TRUE) \/ (hub' = "drop" /\ pc' = pc)
        /\ freeMe' = freeMe /\ req' = req /\ prompt' = prompt
        /\ detach' = detach /\ overtaken' = overtaken
        /\ ~ freeMe /\ ~ detach /\ overtaken = {}
        /\ \A c \in Client : pc[c] = "none"
    BY <1>1 DEF AddFunction, HubPlace, ioVars, ServedInvariant
  <2> QED BY <2>1, <2>2 DEF ServedInvariant
<1>2. CASE Initialised
  BY <1>2 DEF Initialised, clientVars, ioVars, ServedInvariant
<1>3. ASSUME NEW c \in Driver, BindDriver(c) PROVE ServedInvariant'
  BY <1>3 DEF BindDriver, hubVars, ioVars, ServedInvariant
<1>4. CASE Unplug \/ StopHub
  <2>1. /\ overtaken = {} /\ hub = "up" /\ hub' = "free"
        /\ UNCHANGED <<address, freeMe, pc, req, overtaken, prompt>>
    BY <1>4 DEF Unplug, StopHub, clientVars, ioVars, ServedInvariant
  <2> QED BY <2>1 DEF ServedInvariant
<1>5. CASE FreeFunction
  <2>1. /\ freeMe' = TRUE /\ UNCHANGED <<address, detach, pc, req, overtaken, prompt>>
        /\ hub' \notin {"add", "init", "up"}
    BY <1>5 DEF FreeFunction, clientVars, ioVars
  <2>2. ASSUME hub' \in {"release", "dropRelease"}, prompt, NEW q \in Request
        PROVE  req[q] \notin {"port", "hcd"}
    <3>1. activeIO = 0 /\ req[q] # "port"
      BY <1>5, <2>2 DEF FreeFunction, NothingActive, Turn
    <3>2. InHCD = {}
      BY <3>1, FiniteSets, FS_EmptySet DEF LocksInvariant
    <3> QED BY <3>1, <3>2 DEF InHCD
  <2> QED BY <2>1, <2>2 DEF ServedInvariant
<1>6. CASE ReleaseFunction
  BY <1>6 DEF ReleaseFunction, clientVars, ioVars, ServedInvariant
<1>7. CASE CheckFunction
  BY <1>7 DEF CheckFunction, clientVars, ioVars, ServedInvariant
<1>8. ASSUME NEW q \in Request, StopServed(q) PROVE ServedInvariant'
  BY <1>8 DEF StopServed, hubVars, clientVars, ServedInvariant
<1> QED BY <1>1, <1>2, <1>3, <1>4, <1>5, <1>6, <1>7, <1>8 DEF HubNext

LEMMA SendServed ==
    ASSUME LocksInvariant, ServedInvariant, NEW c \in Client, NEW e \in {"cep", "ep"}, Send(c, e)
    PROVE  ServedInvariant'
<1>1. /\ <<c, e>> \in Request /\ req' = [req EXCEPT ![<<c, e>>] = "tested"]
      /\ UNCHANGED <<address, freeMe, detach, hub, prompt, overtaken>>
      /\ Step(c, "begin") /\ pc[c] # "none"
  BY DEF Send, Request, fnVars, hubVars
<1> QED BY <1>1, RequestServed

\* What BeginIO() puts in the port is a request of a function that has its address, or overtaken.
LEMMA PutServed ==
    ASSUME LocksInvariant, ServedInvariant, NEW c \in Client, NEW e \in {"cep", "ep"}, Put(c, e)
    PROVE  ServedInvariant'
<1>1. /\ <<c, e>> \in Request /\ req' = [req EXCEPT ![<<c, e>>] = "port"]
      /\ req \in [Request -> {"none", "user", "tested", "port", "hcd", "freed", "dangling", "lost"}]
      /\ UNCHANGED <<address, freeMe, detach, hub, prompt>> /\ pc[c] = "begin"
      /\ req[<<c, e>>] = "tested"
  BY InvariantParts DEF Put, Request, Kinds, fnVars, hubVars
<1>2. req'[<<c, e>>] = "port" /\ \A p \in Request : p # <<c, e>> => req'[p] = req[p]
  BY <1>1
<1>3. CASE Usable /\ overtaken' = overtaken
  <2>1. address /\ hub \notin {"release", "dropRelease"}
    BY <1>1, <1>3, InvariantParts DEF Usable, ServedInvariant, Kinds
  <2> QED BY <1>1, <1>2, <1>3, <2>1 DEF ServedInvariant
<1>4. CASE ~ Usable /\ overtaken' = overtaken \cup {<<c, e>>}
  <2>1. hub \notin {"add", "init", "up"}
    <3>1. CASE freeMe \/ detach
      BY <3>1 DEF ServedInvariant
    <3>2. CASE ~ Valid("fn")
      <4>1. <<c, e>> \in Requests("fn")
        BY <1>1 DEF Requests, Alive
      <4> QED BY <3>2, <4>1, InUse, InvariantParts DEF Object
    <3> QED BY <1>4, <3>1, <3>2 DEF Usable
  <2> QED BY <1>1, <1>2, <1>4, <2>1 DEF ServedInvariant
<1> QED BY <1>3, <1>4 DEF Put

LEMMA FreedServed ==
    ASSUME LocksInvariant, ServedInvariant, NEW c \in Client, NEW e \in {"cep", "ep"}, Freed(c, e), Turn,
           UNCHANGED <<address, freeMe, detach, hub, prompt, overtaken>>, NEW l, pc' = pc \/ (Step(c, l) /\ pc[c] # "none")
    PROVE  ServedInvariant'
<1>1. <<c, e>> \in Request
  BY DEF Request
<1>2. CASE <<c, e>> \in aborts
  <2>1. req' = [req EXCEPT ![<<c, e>>] = "lost"] /\ ~ prompt
    BY <1>2 DEF Freed, Turn
  <2> QED BY <1>1, <2>1, RequestServed
<1>3. CASE <<c, e>> \notin aborts /\ req[<<c, e>>] = "user"
  <2>1. req' = [req EXCEPT ![<<c, e>>] = "freed"]
    BY <1>1, <1>3, InvariantParts DEF Freed, Kinds
  <2> QED BY <1>1, <2>1, RequestServed
<1>4. CASE <<c, e>> \notin aborts /\ req[<<c, e>>] = "port"
  <2>1. req' = [req EXCEPT ![<<c, e>>] = "dangling"] /\ ~ prompt
    BY <1>1, <1>4, InvariantParts DEF Freed, Turn, Kinds
  <2> QED BY <1>1, <2>1, RequestServed
<1> QED BY <1>2, <1>3, <1>4 DEF Freed, UsersState

LEMMA HCDServed ==
    ASSUME LocksInvariant, ServedInvariant, NEW q \in Request,
           HandleBegin(q) \/ HandleAbort(q) \/ Finish(q)
    PROVE  ServedInvariant'
<1>0. UNCHANGED <<address, freeMe, detach, hub, prompt, pc, overtaken>> /\ init \in Client
  BY DEF HandleBegin, HandleAbort, Finish, fnVars, hubVars, clientVars, Client
<1>1. CASE HandleBegin(q)
  <2>1. PICK v \in {"user", "hcd", "freed"} :
           req' = [req EXCEPT ![q] = v] /\ (v = "hcd" => req[q] = "port" /\ ~ detach)
    BY <1>1 DEF HandleBegin
  <2> QED BY <1>0, <2>1, RequestServed
<1>2. CASE (HandleAbort(q) \/ Finish(q)) /\ req[q] = "hcd"
  <2>1. req' = [req EXCEPT ![q] = "user"]
    BY <1>2 DEF HandleAbort, Finish, Replied
  <2> QED BY <1>0, <2>1, RequestServed
<1>3. CASE HandleAbort(q) /\ req[q] # "hcd"
  BY <1>0, <1>3, ClientsServed DEF HandleAbort
<1> QED BY <1>1, <1>2, <1>3 DEF Finish

LEMMA ClientServed ==
    ASSUME LocksInvariant, ServedInvariant, NEW c \in Client, ClientNext(c)
    PROVE  ServedInvariant'
<1>1. CASE \/ LockTarget(c) \/ ClaimFunction(c) \/ ClaimInterface(c) \/ Release(c) \/ Unregister(c)
           \/ FreeDriver(c) \/ Quit(c)
  <2>1. UNCHANGED <<address, freeMe, detach, hub, prompt, req, overtaken>>
    BY <1>1 DEF LockTarget, ClaimFunction, ClaimInterface, Release, Unregister, FreeDriver, Quit,
       fnVars, hubVars, ioVars
  <2>2. \E l : Step(c, l)
    BY <1>1 DEF LockTarget, ClaimFunction, ClaimInterface, Release, Unregister, FreeDriver, Quit
  <2>3. pc[c] # "none"
    BY <1>1 DEF LockTarget, ClaimFunction, ClaimInterface, Release, Unregister, FreeDriver, Quit
  <2> QED BY <2>1, <2>2, <2>3, ClientsServed
<1>2. CASE ObtainControl(c) \/ ObtainEndPoint(c)
  <2>1. PICK e \in {"cep", "ep"} : Obtain(c, e, "use")
    BY <1>2 DEF ObtainControl, ObtainEndPoint
  <2>2. UNCHANGED <<address, freeMe, detach, hub, prompt, overtaken>> /\ pc[c] # "none" /\ <<c, e>> \in Request
    BY <1>2 DEF ObtainControl, ObtainEndPoint, hubVars, Request
  <2>3. CASE req' = [req EXCEPT ![<<c, e>>] = "user"] /\ Step(c, "use")
    BY <2>2, <2>3, RequestServed
  <2>4. CASE req' = req /\ Step(c, "close")
    BY <2>2, <2>4, ClientsServed
  <2> QED BY <2>1, <2>3, <2>4 DEF Obtain
<1>3. ASSUME NEW e \in {"cep", "ep"}, Stop(c, e) PROVE ServedInvariant'
  BY <1>3, ClientsServed DEF Stop, hubVars, clientVars
<1>4. ASSUME NEW e \in {"cep", "ep"}, CloseResource(c, e) PROVE ServedInvariant'
  <2>1. Freed(c, e) /\ Turn /\ pc' = pc /\ UNCHANGED <<address, freeMe, detach, hub, prompt, overtaken>>
    BY <1>4 DEF CloseResource, hubVars
  <2> QED BY <2>1, FreedServed
<1>5. CASE Released(c)
  <2>1. /\ Freed(c, "ep") /\ Turn /\ Step(c, "use") /\ pc[c] # "none"
        /\ UNCHANGED <<address, freeMe, detach, hub, prompt, overtaken>>
    BY <1>5 DEF Released, hubVars
  <2> QED BY <2>1, FreedServed
<1>6. ASSUME NEW e \in {"cep", "ep"}, Send(c, e) \/ Put(c, e) PROVE ServedInvariant'
  BY <1>6, SendServed, PutServed
<1> QED BY <1>1, <1>2, <1>3, <1>4, <1>5, <1>6 DEF ClientNext, Opening, Closing

LEMMA ServedStep == LocksInvariant /\ ServedInvariant /\ [Next]_vars => ServedInvariant'
<1> SUFFICES ASSUME LocksInvariant, ServedInvariant, [Next]_vars PROVE ServedInvariant'
  OBVIOUS
<1>0. init \in Client
  BY DEF Client
<1>1. CASE MasterDetach
  BY <1>0, <1>1, ClientsServed DEF MasterDetach, clientVars, ioVars
<1>2. CASE Parse \/ SetConfig
  <2>1. /\ UNCHANGED <<address, freeMe, detach, hub, prompt, req, overtaken>> /\ pc[init] # "none"
        /\ \E l : Step(init, l)
    BY <1>2 DEF Parse, SetConfig, hubVars, ioVars
  <2> QED BY <1>0, <2>1, ClientsServed
<1>3. CASE UNCHANGED vars
  BY <1>3 DEF vars, fnVars, claimVars, hubVars, clientVars, ioVars, ServedInvariant
<1>4. CASE HCDNext \/ \E q \in Request : Finish(q)
  BY <1>4, HCDServed DEF HCDNext
<1> QED BY <1>1, <1>2, <1>3, <1>4, HubServed, ClientServed DEF Next

\* While the HCD task is prompt, a request that it serves keeps its memory and the device's
\* address, however many drivers send and close (EndPointRes/Free.c, Function/Free.c): the address
\* but for a request that BeginIO() puts in the port when its test of fkt_FreeMe is overtaken by
\* the hub's stop; one that an unplug overtakes is not served.
THEOREM KeptWhileServedAlways == Spec => []KeptWhileServed
<1>1. Init => ServedInvariant
  BY DEF Init, ServedInvariant
<1>2. LocksInvariant /\ ServedInvariant /\ [Next]_vars => ServedInvariant'
  BY ServedStep
<1>3. LocksInvariant /\ ServedInvariant => KeptWhileServed
  BY DEF ServedInvariant, KeptWhileServed, RequestsKept, AddressHeld
<1> QED BY <1>1, <1>2, <1>3, LocksInductive, PTL DEF Spec

=============================================================================
