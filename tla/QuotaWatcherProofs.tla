-------------------------- MODULE QuotaWatcherProofs --------------------------
(***************************************************************************)
(* The maps of the watcher follow the cluster, for all sets of namespaces, *)
(* quotas and reasons, and all bounds.                                     *)
(*                                                                         *)
(* A watch has the last word about an object: what it delivers last of it  *)
(* is how the cluster has it.  LastWords says so of what is under way, and *)
(* the parts of IInv carry it into the maps.                               *)
(***************************************************************************)
EXTENDS QuotaWatcher, FiniteSetTheorems, TLAPS

-----------------------------------------------------------------------------
(* Sequences of changes. *)

\* What a change of watch k is about.
Key(k, change) ==
  IF k = "quotas" THEN <<change.ns, change.object.name>> ELSE <<change.ns>>

\* Two changes are about different objects.
Apart(k, c, d) == Key(k, c) # Key(k, d)

\* The i-th change of s is the last about its object.
LastWord(k, s, i) == \A j \in DOMAIN s : j > i => Key(k, s[j]) # Key(k, s[i])

\* s has a change about key.
Told(k, s, key) == \E i \in DOMAIN s : Key(k, s[i]) = key

\* t is s with one more change e at its end.
Grown(s, e, t) ==
  \E n \in Nat : /\ DOMAIN s = 1..n /\ DOMAIN t = 1..(n + 1)
                 /\ \A i \in 1..n : t[i] = s[i]
                 /\ t[n + 1] = e

\* t is s without its first change h.
Shrunk(s, h, t) ==
  \E n \in Nat : /\ DOMAIN s = 1..(n + 1) /\ DOMAIN t = 1..n
                 /\ s[1] = h
                 /\ \A i \in 1..n : t[i] = s[i + 1]

\* Append adds a change at the end.
LEMMA AppendGrows ==
  ASSUME NEW S, NEW s \in Seq(S), NEW e \in S
  PROVE  Grown(s, e, Append(s, e)) /\ Append(s, e) \in Seq(S)
<1> DEFINE n == Len(s)
           t == Append(s, e)
<1>1. /\ n \in Nat /\ DOMAIN s = 1..n /\ DOMAIN t = 1..(n + 1)
      /\ \A i \in 1..n : t[i] = s[i]
      /\ t[n + 1] = e
      /\ t \in Seq(S)
  OBVIOUS
<1> HIDE DEF n, t
<1>2. Grown(s, e, t)
  BY <1>1 DEF Grown
<1> QED
  BY <1>1, <1>2 DEF t

\* Tail takes the first change away.
LEMMA TailShrinks ==
  ASSUME NEW S, NEW s \in Seq(S), s # <<>>
  PROVE  Shrunk(s, Head(s), Tail(s)) /\ Tail(s) \in Seq(S) /\ Head(s) \in S
<1> DEFINE n == Len(s) - 1
           t == Tail(s)
           h == Head(s)
<1>1. /\ n \in Nat /\ DOMAIN s = 1..(n + 1) /\ DOMAIN t = 1..n
      /\ s[1] = h
      /\ \A i \in 1..n : t[i] = s[i + 1]
      /\ t \in Seq(S) /\ h \in S
  OBVIOUS
<1> HIDE DEF n, t, h
<1>2. Shrunk(s, h, t)
  BY <1>1 DEF Shrunk
<1> QED
  BY <1>1, <1>2 DEF t, h

\* A change that is appended is the last about its object, and leaves those
\* about other objects as they were.
LEMMA AppendedWord ==
  ASSUME NEW k, NEW s, NEW e, NEW t, Grown(s, e, t), NEW i \in DOMAIN t, LastWord(k, t, i)
  PROVE  \/ t[i] = e
         \/ /\ i \in DOMAIN s /\ t[i] = s[i]
            /\ LastWord(k, s, i) /\ Apart(k, s[i], e)
<1>1. PICK n \in Nat : /\ DOMAIN s = 1..n /\ DOMAIN t = 1..(n + 1)
                       /\ \A m \in 1..n : t[m] = s[m]
                       /\ t[n + 1] = e
  BY DEF Grown
<1>2. ASSUME i # n + 1
      PROVE  /\ i \in DOMAIN s /\ t[i] = s[i]
             /\ LastWord(k, s, i) /\ Apart(k, s[i], e)
  <2>1. i \in DOMAIN s /\ t[i] = s[i]
    BY <1>1, <1>2
  <2>2. LastWord(k, s, i)
    BY <1>1, <1>2, <2>1 DEF LastWord
  <2>3. Key(k, t[n + 1]) # Key(k, t[i])
    BY <1>1, <1>2, <2>1 DEF LastWord
  <2> QED
    BY <1>1, <2>1, <2>2, <2>3 DEF Apart
<1> QED
  BY <1>1, <1>2

\* A longer stream tells of what it told before and of what was added.
LEMMA AppendedTold ==
  ASSUME NEW k, NEW s, NEW e, NEW t, Grown(s, e, t), NEW key
  PROVE  Told(k, t, key) <=> Told(k, s, key) \/ Key(k, e) = key
  BY DEF Grown, Told

\* Once the first change is delivered, it was the last about its object, or
\* there is a later one.
LEMMA Consumed ==
  ASSUME NEW k, NEW s, NEW h, NEW t, Shrunk(s, h, t)
  PROVE  /\ 1 \in DOMAIN s /\ s[1] = h
         /\ \A i \in DOMAIN t :
              /\ i + 1 \in DOMAIN s /\ t[i] = s[i + 1]
              /\ LastWord(k, t, i) => LastWord(k, s, i + 1)
         /\ \A key : Told(k, s, key) <=> Told(k, t, key) \/ Key(k, h) = key
         /\ ~Told(k, t, Key(k, h)) => LastWord(k, s, 1)
<1>1. PICK n \in Nat : /\ DOMAIN s = 1..(n + 1) /\ DOMAIN t = 1..n
                       /\ s[1] = h
                       /\ \A i \in 1..n : t[i] = s[i + 1]
  BY DEF Shrunk
<1>2. \A j \in DOMAIN s : j > 1 => j - 1 \in DOMAIN t /\ s[j] = t[j - 1]
  <2> SUFFICES ASSUME NEW j \in DOMAIN s, j > 1
               PROVE  j - 1 \in DOMAIN t /\ s[j] = t[j - 1]
    OBVIOUS
  <2>1. j - 1 \in 1..n /\ (j - 1) + 1 = j
    BY <1>1
  <2> QED
    BY <1>1, <2>1
<1>3. ASSUME NEW i \in DOMAIN t
      PROVE  /\ i + 1 \in DOMAIN s /\ t[i] = s[i + 1]
             /\ LastWord(k, t, i) => LastWord(k, s, i + 1)
  <2>1. i + 1 \in DOMAIN s /\ t[i] = s[i + 1]
    BY <1>1
  <2>2. ASSUME LastWord(k, t, i), NEW j \in DOMAIN s, j > i + 1
        PROVE  Key(k, s[j]) # Key(k, s[i + 1])
    <3>1. j - 1 \in DOMAIN t /\ s[j] = t[j - 1] /\ j - 1 > i
      BY <1>1, <1>2, <2>2
    <3> QED
      BY <2>1, <2>2, <3>1 DEF LastWord
  <2> QED
    BY <2>1, <2>2 DEF LastWord
<1>4. ASSUME NEW key
      PROVE  Told(k, s, key) <=> Told(k, t, key) \/ Key(k, h) = key
  <2>1. ASSUME NEW j \in DOMAIN s, Key(k, s[j]) = key
        PROVE  Told(k, t, key) \/ Key(k, h) = key
    <3>1. j = 1 \/ j > 1
      BY <1>1
    <3> QED
      BY <1>1, <1>2, <2>1, <3>1 DEF Told
  <2>2. Told(k, t, key) \/ Key(k, h) = key => Told(k, s, key)
    BY <1>1, <1>3 DEF Told
  <2> QED
    BY <2>1, <2>2 DEF Told
<1>5. ~Told(k, t, Key(k, h)) => LastWord(k, s, 1)
  BY <1>1, <1>2 DEF Told, LastWord
<1> QED
  BY <1>1, <1>3, <1>4, <1>5

\* A sequence of all elements of a finite set.
LEMMA Enumerated ==
  ASSUME NEW E, IsFiniteSet(E)
  PROVE  /\ \A s \in SetToSeqs(E) : s \in Seq(E) /\ \A e \in E : \E i \in DOMAIN s : s[i] = e
         /\ SetToSeq(E) \in Seq(E)
<1> DEFINE n == Cardinality(E)
<1>1. n \in Nat /\ ExistsBijection(1..n, E)
  BY FS_CardinalityType
<1>2. IsFiniteSet(1..n) /\ Cardinality(1..n) = n
  BY <1>1, FS_Interval
<1> HIDE DEF n
<1>3. \A f \in [1..n -> E] : f \in Seq(E) /\ DOMAIN f = 1..n
  BY <1>1
<1>4. ASSUME NEW s \in SetToSeqs(E)
      PROVE  s \in Seq(E) /\ \A e \in E : \E i \in DOMAIN s : s[i] = e
  <2>1. s \in [1..n -> E] /\ \A i, j \in 1..n : i # j => s[i] # s[j]
    BY DEF SetToSeqs, n
  <2>2. s \in Injection(1..n, E)
    BY <2>1 DEF Injection, IsInjective
  <2>3. s \in Surjection(1..n, E)
    BY <1>2, <2>2, FS_Injection DEF n
  <2>4. \A e \in E : \E i \in 1..n : s[i] = e
    BY <2>3 DEF Surjection
  <2> QED
    BY <1>3, <2>1, <2>4
<1>5. SetToSeq(E) \in Seq(E)
  <2>1. \E f \in [1..n -> E] : IsInjective(f)
    BY <1>1 DEF ExistsBijection, Bijection, Injection
  <2>2. SetToSeq(E) \in [1..n -> E]
    BY <2>1 DEF SetToSeq, n
  <2> QED
    BY <1>3, <2>2
<1> QED
  BY <1>4, <1>5

-----------------------------------------------------------------------------
(* Types. *)

\* The watches of scalers and quotas are none of those of Events, and deliver what
\* their names say.
LEMMA WatchesDistinct ==
  /\ "scalers" \in Watches /\ "quotas" \in Watches /\ Reasons \subseteq Watches
  /\ "scalers" \notin Reasons /\ "quotas" \notin Reasons
  /\ Object("scalers") = Scaler /\ Object("quotas") = Quota
  /\ \A r \in Reasons : Object(r) = Refusal
  BY ReasonsAssumption DEF Watches, Object

\* The image of a finite set is finite.
LEMMA Image ==
  ASSUME NEW S, IsFiniteSet(S), NEW f
  PROVE  IsFiniteSet({f[x] : x \in S})
<1> DEFINE T == {f[x] : x \in S}
           g == [x \in S |-> f[x]]
<1>1. g \in Surjection(S, T)
  BY DEF Surjection
<1> QED
  BY <1>1, FS_Surjection

\* What a watch begins with are finitely many changes of its kind.
LEMMA ExistingType ==
  ASSUME TypeOK, NEW k \in Watches
  PROVE  IsFiniteSet(Existing(k)) /\ Existing(k) \subseteq Changes(k)
<1>1. ASSUME k = "scalers"
      PROVE  IsFiniteSet(Existing(k)) /\ Existing(k) \subseteq Changes(k)
  <2> DEFINE N == {n \in Namespaces : scaler[n] # Absent}
             f == [ns \in N |-> Change("Set", ns, scaler[ns])]
  <2>1. Existing(k) = {f[ns] : ns \in N}
    BY <1>1 DEF Existing
  <2>2. IsFiniteSet(N)
    BY NamesAssumption, FS_Subset
  <2>3. \A ns \in N : f[ns] \in Changes(k)
    BY <1>1, WatchesDistinct DEF TypeOK, Changes, Change
  <2> HIDE DEF f, N
  <2> QED
    BY <2>1, <2>2, <2>3, Image
<1>2. ASSUME k = "quotas"
      PROVE  IsFiniteSet(Existing(k)) /\ Existing(k) \subseteq Changes(k)
  <2> DEFINE N == {p \in Namespaces \X QuotaNames : quota[p[1]][p[2]] # Absent}
             f == [p \in N |-> Change("Set", p[1], [name |-> p[2], version |-> quota[p[1]][p[2]]])]
  <2>1. Existing(k) = {f[p] : p \in N}
    BY <1>2 DEF Existing
  <2>2. IsFiniteSet(N)
    BY NamesAssumption, FS_Product, FS_Subset
  <2>3. \A p \in N : f[p] \in Changes(k)
    <3> SUFFICES ASSUME NEW ns \in Namespaces, NEW q \in QuotaNames, quota[ns][q] # Absent
                 PROVE  Change("Set", ns, [name |-> q, version |-> quota[ns][q]]) \in Changes(k)
      OBVIOUS
    <3>1. quota[ns][q] \in Version
      BY DEF TypeOK
    <3> QED
      BY <1>2, <3>1, WatchesDistinct DEF Changes, Change, Quota
  <2> HIDE DEF f, N
  <2> QED
    BY <2>1, <2>2, <2>3, Image
<1>3. ASSUME k \in Reasons
      PROVE  IsFiniteSet(Existing(k)) /\ Existing(k) \subseteq Changes(k)
  <2> DEFINE N == {n \in Namespaces : refusal[n][k] # Absent}
             f == [ns \in N |-> Change("Set", ns, [ns |-> ns, reason |-> k, version |-> refusal[ns][k]])]
  <2>1. Existing(k) = {f[ns] : ns \in N}
    BY <1>3, WatchesDistinct DEF Existing
  <2>2. IsFiniteSet(N)
    BY NamesAssumption, FS_Subset
  <2>3. \A ns \in N : f[ns] \in Changes(k)
    <3> SUFFICES ASSUME NEW ns \in Namespaces, refusal[ns][k] # Absent
                 PROVE  Change("Set", ns, [ns |-> ns, reason |-> k, version |-> refusal[ns][k]])
                          \in Changes(k)
      OBVIOUS
    <3>1. refusal[ns][k] \in Version
      BY <1>3 DEF TypeOK
    <3> QED
      BY <1>3, <3>1, WatchesDistinct DEF Changes, Change, Refusal
  <2> HIDE DEF f, N
  <2> QED
    BY <2>1, <2>2, <2>3, Image
<1> QED
  BY <1>1, <1>2, <1>3 DEF Watches

\* What a change of the cluster does to the streams.
LEMMA ChangeReported ==
  ASSUME TypeOK, NEW k \in Watches, NEW change \in Changes(k), Changed(k, change)
  PROVE  /\ changes + 1 \in Version /\ changes' \in 0..MaxChanges
         /\ DOMAIN stream' = Watches
         /\ \A j \in Watches :
              /\ stream'[j] = IF j = k /\ Watching(k) THEN Append(stream[j], change) ELSE stream[j]
              /\ stream'[j] \in Seq(Changes(j))
              /\ ~Watching(j)' => stream'[j] = <<>>
<1>1. changes \in Nat /\ changes < MaxChanges /\ changes' = changes + 1
  BY MaxChangesAssumption DEF TypeOK, Changed
<1>2. changes + 1 \in Version /\ changes' \in 0..MaxChanges
  BY <1>1, MaxChangesAssumption DEF Version
<1>3. DOMAIN stream' = Watches
  BY DEF TypeOK, Changed
<1>4. ASSUME NEW j \in Watches
      PROVE  /\ stream'[j] = IF j = k /\ Watching(k) THEN Append(stream[j], change) ELSE stream[j]
             /\ stream'[j] \in Seq(Changes(j))
             /\ ~Watching(j)' => stream'[j] = <<>>
  <2>1. stream'[j] = IF j = k /\ Watching(k) THEN Append(stream[j], change) ELSE stream[j]
    BY DEF TypeOK, Changed
  <2>2. stream[j] \in Seq(Changes(j)) /\ (~Watching(j) => stream[j] = <<>>)
    BY DEF TypeOK
  <2>3. stream'[j] \in Seq(Changes(j))
    BY <2>1, <2>2
  <2>4. Watching(j)' <=> Watching(j)
    BY DEF Watching, Changed
  <2> QED
    BY <2>1, <2>2, <2>3, <2>4
<1> QED
  BY <1>2, <1>3, <1>4

\* The rest of the watcher does not notice.
LEMMA ChangeTypes ==
  ASSUME TypeOK, NEW k \in Watches, NEW change \in Changes(k), Changed(k, change),
         (scaler \in [Namespaces -> Scaler \cup {Absent}])',
         (quota \in [Namespaces -> [QuotaNames -> Version \cup {Absent}]])',
         (refusal \in [Namespaces -> [Reasons -> Version \cup {Absent}]])',
         (missed \in SUBSET Namespaces)'
  PROVE  TypeOK'
<1>1. UNCHANGED <<failures, stage, Scalers, Quotas, Events, calls, considered, uncoupled>>
  BY DEF Changed, maps
<1> QED
  BY <1>1, ChangeReported DEF TypeOK

\* The cluster changes as the watch k says.
Reported(k, change) ==
  LET ns == change.ns
  IN  /\ Changed(k, change)
      /\ TypeOK'
      /\ k # "scalers" => UNCHANGED <<scaler, missed>>
      /\ k # "quotas" => UNCHANGED quota
      /\ k = "scalers" =>
           /\ scaler' = [scaler EXCEPT ![ns] = IF change.type = "Set" THEN change.object ELSE Absent]
           /\ missed' \subseteq missed \cup {ns}
           /\ IF change.type = "Set" THEN change.object # Absent
                                     ELSE stage = "watchScalers" => ns \in missed'
           /\ change.type # "Set" \/ missed' = missed \ {ns}
           /\ change.type = "Set" \/ missed \subseteq missed'
      /\ k = "quotas" =>
           \E v \in Version \cup {Absent} :
             /\ quota' = [quota EXCEPT ![ns][change.object.name] = v]
             /\ IF change.type = "Set" THEN v # Absent /\ v = change.object.version
                                       ELSE v = Absent

\* A change makes a version, which is not Absent.
LEMMA NextVersion ==
  ASSUME TypeOK, NEW k \in Watches, NEW change, Changed(k, change)
  PROVE  changes + 1 \in Version /\ changes + 1 # Absent
  BY MaxChangesAssumption, AbsentAssumption DEF TypeOK, Changed, Version

\* A QuotaAutoscaler that is set or deleted is reported as it then is.
LEMMA ScalerChanges ==
  ASSUME TypeOK, NEW ns \in Namespaces
  PROVE  /\ \A q \in QuotaNames : SetScaler(ns, q) =>
              \E change \in Changes("scalers") : Reported("scalers", change)
         /\ DeleteScaler(ns) => \E change \in Changes("scalers") : Reported("scalers", change)
<1>1. ASSUME NEW q \in QuotaNames, SetScaler(ns, q)
      PROVE  \E change \in Changes("scalers") : Reported("scalers", change)
  <2> DEFINE s == [quota |-> q, version |-> changes + 1]
             change == Change("Set", ns, s)
  <2>1. /\ Changed("scalers", change)
        /\ scaler' = [scaler EXCEPT ![ns] = s]
        /\ missed' = missed \ {ns}
        /\ UNCHANGED <<quota, refusal>>
    BY <1>1 DEF SetScaler
  <2>2. s \in Scaler /\ s # Absent
    BY <2>1, NextVersion, AbsentAssumption, WatchesDistinct DEF Scaler
  <2>3. /\ change \in Changes("scalers")
        /\ change.type = "Set" /\ change.ns = ns /\ change.object = s
    BY <2>2, WatchesDistinct DEF Changes, Change
  <2> HIDE DEF s, change
  <2>4. TypeOK'
    BY <2>1, <2>2, <2>3, ChangeTypes, WatchesDistinct DEF TypeOK
  <2> QED
    BY <2>1, <2>2, <2>3, <2>4 DEF Reported
<1>2. ASSUME DeleteScaler(ns)
      PROVE  \E change \in Changes("scalers") : Reported("scalers", change)
  <2> DEFINE change == Change("Deleted", ns, scaler[ns])
  <2>1. /\ scaler[ns] # Absent
        /\ Changed("scalers", change)
        /\ scaler' = [scaler EXCEPT ![ns] = Absent]
        /\ missed' = IF stage = "watchScalers" THEN missed \cup {ns} ELSE missed
        /\ UNCHANGED <<quota, refusal>>
    BY <1>2 DEF DeleteScaler
  <2>2. change \in Changes("scalers") /\ change.type = "Deleted" /\ change.ns = ns
    BY <2>1, WatchesDistinct DEF Changes, Change, TypeOK
  <2> HIDE DEF change
  <2>4. TypeOK'
    BY <2>1, <2>2, ChangeTypes, WatchesDistinct DEF TypeOK
  <2> QED
    BY <2>1, <2>2, <2>4 DEF Reported
<1> QED
  BY <1>1, <1>2

\* So is a ResourceQuota,
LEMMA QuotaChanges ==
  ASSUME TypeOK, NEW ns \in Namespaces, NEW q \in QuotaNames
  PROVE  /\ SetQuota(ns, q) => \E change \in Changes("quotas") : Reported("quotas", change)
         /\ DeleteQuota(ns, q) => \E change \in Changes("quotas") : Reported("quotas", change)
<1>1. ASSUME SetQuota(ns, q)
      PROVE  \E change \in Changes("quotas") : Reported("quotas", change)
  <2> DEFINE v == changes + 1
             change == Change("Set", ns, [name |-> q, version |-> v])
  <2>1. /\ Changed("quotas", change)
        /\ quota' = [quota EXCEPT ![ns][q] = v]
        /\ UNCHANGED <<scaler, refusal, missed>>
    BY <1>1 DEF SetQuota
  <2>2. v \in Version /\ v # Absent
    BY <2>1, NextVersion, WatchesDistinct
  <2> HIDE DEF v
  <2>3. /\ change \in Changes("quotas")
        /\ change.type = "Set" /\ change.ns = ns /\ change.object.name = q /\ change.object.version = v
    BY <2>2, WatchesDistinct DEF Changes, Change, Quota
  <2> HIDE DEF change
  <2>4. TypeOK'
    BY <2>1, <2>2, <2>3, ChangeTypes, WatchesDistinct DEF TypeOK
  <2> QED
    BY <2>1, <2>2, <2>3, <2>4 DEF Reported
<1>2. ASSUME DeleteQuota(ns, q)
      PROVE  \E change \in Changes("quotas") : Reported("quotas", change)
  <2> DEFINE change == Change("Deleted", ns, [name |-> q, version |-> quota[ns][q]])
  <2>1. /\ quota[ns][q] # Absent
        /\ Changed("quotas", change)
        /\ quota' = [quota EXCEPT ![ns][q] = Absent]
        /\ UNCHANGED <<scaler, refusal, missed>>
    BY <1>2 DEF DeleteQuota
  <2>2. quota[ns][q] \in Version
    BY <2>1 DEF TypeOK
  <2>3. /\ change \in Changes("quotas")
        /\ change.type = "Deleted" /\ change.ns = ns /\ change.object.name = q
    BY <2>2, WatchesDistinct DEF Changes, Change, Quota
  <2> HIDE DEF change
  <2>4. TypeOK'
    BY <2>1, <2>3, ChangeTypes, WatchesDistinct DEF TypeOK
  <2> QED
    BY <2>1, <2>3, <2>4 DEF Reported
<1> QED
  BY <1>1, <1>2

\* and the Event of a refused pod.
LEMMA EventChanges ==
  ASSUME TypeOK, NEW ns \in Namespaces, NEW r \in Reasons
  PROVE  /\ RefusePod(ns, r) => \E change \in Changes(r) : Reported(r, change)
         /\ ExpireEvent(ns, r) => \E change \in Changes(r) : Reported(r, change)
<1>1. ASSUME RefusePod(ns, r)
      PROVE  \E change \in Changes(r) : Reported(r, change)
  <2> DEFINE v == changes + 1
             e == [ns |-> ns, reason |-> r, version |-> v]
             change == Change("Set", ns, e)
  <2>1. /\ Changed(r, change)
        /\ refusal' = [refusal EXCEPT ![ns][r] = v]
        /\ UNCHANGED <<scaler, quota, missed>>
    BY <1>1 DEF RefusePod
  <2>2. v \in Version
    BY <2>1, NextVersion, WatchesDistinct
  <2> HIDE DEF v
  <2>3. change \in Changes(r)
    BY <2>2, WatchesDistinct DEF Changes, Change, Refusal
  <2> HIDE DEF change
  <2>4. TypeOK'
    BY <2>1, <2>2, <2>3, ChangeTypes, WatchesDistinct DEF TypeOK
  <2> QED
    BY <2>1, <2>3, <2>4, WatchesDistinct DEF Reported
<1>2. ASSUME ExpireEvent(ns, r)
      PROVE  \E change \in Changes(r) : Reported(r, change)
  <2> DEFINE change == Change("Deleted", ns, [ns |-> ns, reason |-> r, version |-> refusal[ns][r]])
  <2>1. /\ refusal[ns][r] # Absent
        /\ Changed(r, change)
        /\ refusal' = [refusal EXCEPT ![ns][r] = Absent]
        /\ UNCHANGED <<scaler, quota, missed>>
    BY <1>2 DEF ExpireEvent
  <2>2. refusal[ns][r] \in Version
    BY <2>1 DEF TypeOK
  <2>3. change \in Changes(r)
    BY <2>2, WatchesDistinct DEF Changes, Change, Refusal
  <2> HIDE DEF change
  <2>4. TypeOK'
    BY <2>1, <2>3, ChangeTypes, WatchesDistinct DEF TypeOK
  <2> QED
    BY <2>1, <2>3, <2>4, WatchesDistinct DEF Reported
<1> QED
  BY <1>1, <1>2

\* Every change of the cluster is the change of one object that its watch reports.
LEMMA ClusterChange ==
  ASSUME TypeOK, ClusterChanges
  PROVE  \E k \in Watches : \E change \in Changes(k) : Reported(k, change)
  BY ScalerChanges, QuotaChanges, EventChanges, WatchesDistinct DEF ClusterChanges

\* main and WatchQuotas.
LEMMA MainTypes ==
  ASSUME TypeOK,
         \/ ListScalers \/ Watch \/ StreamEnds \/ Crash
         \/ \E ok \in BOOLEAN : StartProcess(ok) \/ ListQuotas(ok)
         \/ \E c \in calls : EvaluationEnds(c)
  PROVE  TypeOK'
<1> USE MaxFailuresAssumption DEF TypeOK
<1>1. \A k \in Watches : <<>> \in Seq(Changes(k)) /\ NoStreams[k] = <<>>
  BY DEF NoStreams
<1>2. DOMAIN NoStreams = Watches
  BY DEF NoStreams
<1>3. NoMap \in [Namespaces -> {Absent}]
  BY DEF NoMap
<1>4. CASE ListScalers
  <2>1. stream' = stream /\ stage = "list" /\ stage' = "watchScalers"
    BY <1>4 DEF ListScalers
  <2>2. \A k \in Watches : ~Watching(k)
    BY <2>1, WatchesDistinct DEF Watching
  <2> QED
    BY <1>3, <1>4, <2>1, <2>2 DEF ListScalers, cluster, Stages
<1>5. CASE Watch
  <2>1. UNCHANGED <<scaler, quota, refusal, changes, failures, Scalers, Quotas, Events, calls,
                    considered, missed, uncoupled>>
    BY <1>5 DEF Watch, cluster, maps, history
  <2>2. CASE stage = "watchScalers"
    <3>1. PICK s \in SetToSeqs(Existing("scalers")) : stream' = [stream EXCEPT !["scalers"] = s]
      BY <1>5, <2>2 DEF Watch
    <3>2. s \in Seq(Changes("scalers"))
      BY <3>1, ExistingType, Enumerated, WatchesDistinct
    <3>3. stage' = "watchQuotas"
      BY <1>5, <2>2 DEF Watch
    <3>4. \A k \in Watches : ~Watching(k)' => k # "scalers" /\ ~Watching(k)
      BY <2>2, <3>3, WatchesDistinct DEF Watching
    <3> QED
      BY <2>1, <3>1, <3>2, <3>3, <3>4 DEF Stages
  <2>3. CASE stage = "watchQuotas"
    <3>1. PICK s \in SetToSeqs(Existing("quotas")) : stream' = [stream EXCEPT !["quotas"] = s]
      BY <1>5, <2>3 DEF Watch
    <3>2. s \in Seq(Changes("quotas"))
      BY <3>1, ExistingType, Enumerated, WatchesDistinct
    <3>3. stage' = "watchEvents"
      BY <1>5, <2>3 DEF Watch
    <3>4. \A k \in Watches : ~Watching(k)' => k # "quotas" /\ ~Watching(k)
      BY <2>3, <3>3, WatchesDistinct DEF Watching
    <3> QED
      BY <2>1, <3>1, <3>2, <3>3, <3>4 DEF Stages
  <2>4. CASE stage = "watchEvents"
    <3>1. stream' = [k \in Watches |-> IF k \in Reasons THEN SetToSeq(Existing(k)) ELSE stream[k]]
      BY <1>5, <2>4 DEF Watch
    <3>2. \A k \in Reasons : SetToSeq(Existing(k)) \in Seq(Changes(k))
      BY ExistingType, Enumerated, WatchesDistinct
    <3>3. stage' = "listQuotas"
      BY <1>5, <2>4 DEF Watch
    <3>4. \A k \in Watches : Watching(k)'
      BY <3>3 DEF Watching
    <3> QED
      BY <2>1, <3>1, <3>2, <3>3, <3>4 DEF Stages
  <2> QED
    BY <1>5, <2>2, <2>3, <2>4 DEF Watch
<1>6. CASE StreamEnds
  BY <1>1, <1>2, <1>6 DEF StreamEnds, cluster, maps, history, Stages
<1>7. CASE Crash
  <2>1. /\ UNCHANGED <<scaler, quota, refusal, changes, considered>>
        /\ stage' = "start" /\ stream' = NoStreams /\ calls' = {}
        /\ Scalers' = NoMap /\ Quotas' = NoMap /\ Events' = NoMap
        /\ missed' = {} /\ uncoupled' = {}
    BY <1>7 DEF Crash, cluster
  <2>2. failures' \in 0..MaxFailures
    BY <1>7 DEF Crash, Attempt
  <2>3. /\ Scalers' \in [Namespaces -> Scaler \cup {Absent}]
        /\ Quotas' \in [Namespaces -> Quota \cup {Absent}]
        /\ DOMAIN Events' = Namespaces /\ \A ns \in Namespaces : Events'[ns] = Absent
    BY <1>3, <2>1
  <2> QED
    BY <1>1, <1>2, <2>1, <2>2, <2>3 DEF Stages
<1>8. ASSUME NEW ok \in BOOLEAN, StartProcess(ok)
      PROVE  TypeOK'
  <2>1. /\ UNCHANGED <<cluster, stream, maps, calls, history>>
        /\ stage = "start" /\ stage' \in {"start", "list"}
    BY <1>8 DEF StartProcess
  <2>2. \A k \in Watches : ~Watching(k)
    BY <2>1, WatchesDistinct DEF Watching
  <2>3. failures' \in 0..MaxFailures
    BY <1>8 DEF StartProcess, GetKubernetesClient, Attempt
  <2> QED
    BY <2>1, <2>2, <2>3 DEF cluster, maps, history, Stages
<1>9. ASSUME NEW ok \in BOOLEAN, ListQuotas(ok)
      PROVE  TypeOK'
  <2>1. UNCHANGED <<cluster, stream, Scalers, Events, calls, history>> /\ stage' = "running"
    BY <1>9 DEF ListQuotas
  <2>2. \A k \in Watches : Watching(k)'
    BY <2>1 DEF Watching
  <2>3. failures' \in 0..MaxFailures
    BY <1>9 DEF ListQuotas, Attempt
  <2>4. Quotas' \in [Namespaces -> Quota \cup {Absent}]
    BY <1>9 DEF ListQuotas, Known, Scaler, Quota
  <2> QED
    BY <2>1, <2>2, <2>3, <2>4 DEF cluster, history, Stages
<1>10. ASSUME NEW c \in calls, EvaluationEnds(c)
       PROVE  TypeOK'
  <2>1. /\ UNCHANGED <<scaler, quota, refusal, changes, failures, stage, stream, Scalers, Quotas,
                       Events, considered, missed, uncoupled>>
        /\ calls' = calls \ {c}
    BY <1>10 DEF EvaluationEnds, cluster, maps, history
  <2>2. \A k \in Watches : Watching(k)' <=> Watching(k)
    BY <2>1 DEF Watching
  <2> QED
    BY <2>1, <2>2
<1> QED
  BY <1>4, <1>5, <1>6, <1>7, <1>8, <1>9, <1>10

\* The change that a branch of the select receives.
LEMMA Received ==
  ASSUME TypeOK, NEW k \in Watches, NEW change \in Delivered(k), Consume(k)
  PROVE  /\ stage = "running" /\ stage' = "running"
         /\ stream[k] # <<>> /\ change = Head(stream[k]) /\ change \in Changes(k)
         /\ DOMAIN stream' = Watches
         /\ \A j \in Watches : stream'[j] = IF j = k THEN Tail(stream[j]) ELSE stream[j]
         /\ \A j \in Watches : stream'[j] \in Seq(Changes(j)) /\ Watching(j)'
         /\ UNCHANGED <<scaler, quota, refusal, changes, missed>>
<1>1. /\ stage = "running" /\ stage' = "running"
      /\ stream[k] # <<>> /\ change = Head(stream[k])
      /\ stream' = [stream EXCEPT ![k] = Tail(@)]
      /\ UNCHANGED <<scaler, quota, refusal, changes, missed>>
  BY DEF Delivered, Consume, cluster
<1>2. DOMAIN stream = Watches /\ \A j \in Watches : stream[j] \in Seq(Changes(j))
  BY DEF TypeOK
<1>3. /\ change \in Changes(k)
      /\ \A j \in Watches : stream'[j] = IF j = k THEN Tail(stream[j]) ELSE stream[j]
      /\ \A j \in Watches : stream'[j] \in Seq(Changes(j))
  BY <1>1, <1>2
<1>4. \A j \in Watches : Watching(j)'
  BY <1>1 DEF Watching
<1> QED
  BY <1>1, <1>2, <1>3, <1>4

\* UpdateNs starts evaluations of scalers and quotas, or none.
LEMMA CallType ==
  ASSUME NEW ns \in Namespaces, NEW events \in SUBSET Refusal,
         (Scalers \in [Namespaces -> Scaler \cup {Absent}])',
         (Quotas \in [Namespaces -> Quota \cup {Absent}])'
  PROVE  UpdateNs(ns, events) \in SUBSET Call
<1>1. CASE Scalers'[ns] # Absent /\ Quotas'[ns] # Absent
  <2>1. Scalers'[ns] \in Scaler /\ Quotas'[ns] \in Quota
    BY <1>1
  <2> QED
    BY <1>1, <2>1 DEF UpdateNs, Call
<1>2. CASE ~(Scalers'[ns] # Absent /\ Quotas'[ns] # Absent)
  BY <1>2 DEF UpdateNs
<1> QED
  BY <1>1, <1>2

\* What RegisterScalerEvent leaves, but for the quota it may fetch.
LEMMA ServeTypes ==
  ASSUME TypeOK, Serve
  PROVE  TypeOK'
<1> USE MaxFailuresAssumption
<1>1. CASE ScalerEvent
  <2>1. PICK change \in Delivered("scalers") :
          Consume("scalers") /\ (ForgetScaler(change) \/ RegisterScaler(change))
    BY <1>1 DEF ScalerEvent
  <2>2. /\ change \in Changes("scalers")
        /\ stage' = "running" /\ DOMAIN stream' = Watches
        /\ \A j \in Watches : stream'[j] \in Seq(Changes(j)) /\ Watching(j)'
        /\ UNCHANGED <<scaler, quota, refusal, changes, missed>>
    BY <2>1, Received, WatchesDistinct
  <2>3. change.ns \in Namespaces /\ change.object \in Scaler
    BY <2>2, WatchesDistinct DEF Changes
  <2>4. CASE ForgetScaler(change)
    BY <2>2, <2>3, <2>4 DEF ForgetScaler, TypeOK, Stages
  <2>5. CASE RegisterScaler(change)
    <3>1. UNCHANGED <<Events, considered>> /\ Scalers' \in [Namespaces -> Scaler \cup {Absent}]
      BY <2>3, <2>5 DEF RegisterScaler, TypeOK
    <3>2. /\ Quotas' \in [Namespaces -> Quota \cup {Absent}]
          /\ failures' \in 0..MaxFailures
          /\ uncoupled' \in SUBSET Namespaces
      <4>1. ASSUME NEW ok \in BOOLEAN, FetchQuota(change.ns, change.object.quota, ok)
            PROVE  /\ Quotas' \in [Namespaces -> Quota \cup {Absent}]
                   /\ failures' \in 0..MaxFailures
                   /\ uncoupled' \in SUBSET Namespaces
        <5>1. change.object.quota \in QuotaNames
          BY <2>3 DEF Scaler
        <5>2. Known(change.ns, change.object.quota) \in Quota \cup {Absent}
          BY <2>3, <5>1 DEF Known, TypeOK, Quota
        <5> QED
          BY <2>3, <4>1, <5>2 DEF FetchQuota, Attempt, TypeOK
      <4>2. ASSUME KeepQuota(change.ns, change.object.quota)
            PROVE  /\ Quotas' \in [Namespaces -> Quota \cup {Absent}]
                   /\ failures' \in 0..MaxFailures
                   /\ uncoupled' \in SUBSET Namespaces
        BY <2>3, <4>2 DEF KeepQuota, TypeOK
      <4> QED
        BY <2>5, <4>1, <4>2 DEF RegisterScaler
    <3>3. calls' \in SUBSET Call
      <4>1. UpdateNs(change.ns, {}) \in SUBSET Call
        BY <2>3, <3>1, <3>2, CallType
      <4> QED
        BY <2>5, <4>1 DEF RegisterScaler, TypeOK
    <3> QED
      BY <2>2, <3>1, <3>2, <3>3 DEF TypeOK, Stages
  <2> QED
    BY <2>1, <2>4, <2>5
<1>2. CASE QuotaEvent
  <2>1. PICK change \in Delivered("quotas") :
          /\ Consume("quotas")
          /\ Quotas' \in {Quotas, [Quotas EXCEPT ![change.ns] = change.object],
                          [Quotas EXCEPT ![change.ns] = Absent]}
          /\ Events' \in {Events, [Events EXCEPT ![change.ns] = IF @ = Absent THEN {} ELSE @]}
          /\ UNCHANGED <<failures, Scalers, calls, considered, uncoupled>>
    BY <1>2 DEF QuotaEvent
  <2>2. /\ change \in Changes("quotas")
        /\ stage' = "running" /\ DOMAIN stream' = Watches
        /\ \A j \in Watches : stream'[j] \in Seq(Changes(j)) /\ Watching(j)'
        /\ UNCHANGED <<scaler, quota, refusal, changes, missed>>
    BY <2>1, Received, WatchesDistinct
  <2>3. change.ns \in Namespaces /\ change.object \in Quota
    BY <2>2, WatchesDistinct DEF Changes
  <2>4. Quotas' \in [Namespaces -> Quota \cup {Absent}]
    BY <2>1, <2>3 DEF TypeOK
  <2>5. DOMAIN Events' = Namespaces
        /\ \A ns \in Namespaces : Events'[ns] = Absent \/ Events'[ns] \in SUBSET Refusal
    BY <2>1, <2>3 DEF TypeOK
  <2> QED
    BY <2>1, <2>2, <2>4, <2>5 DEF TypeOK, Stages
<1>3. ASSUME NEW r \in Reasons, NamespacedEvent(r)
      PROVE  TypeOK'
  <2>1. PICK change \in Delivered(r) :
          /\ Consume(r)
          /\ Events' = [Events EXCEPT ![change.ns] =
                          (IF @ = Absent THEN {} ELSE @) \cup {change.object}]
          /\ UNCHANGED <<failures, Scalers, Quotas, calls, considered, uncoupled>>
    BY <1>3 DEF NamespacedEvent
  <2>2. /\ change \in Changes(r)
        /\ stage' = "running" /\ DOMAIN stream' = Watches
        /\ \A j \in Watches : stream'[j] \in Seq(Changes(j)) /\ Watching(j)'
        /\ UNCHANGED <<scaler, quota, refusal, changes, missed>>
    BY <2>1, Received, WatchesDistinct
  <2>3. change.ns \in Namespaces /\ change.object \in Refusal
    BY <2>2, WatchesDistinct DEF Changes
  <2>4. DOMAIN Events' = Namespaces
        /\ \A ns \in Namespaces : Events'[ns] = Absent \/ Events'[ns] \in SUBSET Refusal
    BY <2>1, <2>3 DEF TypeOK
  <2> QED
    BY <2>1, <2>2, <2>4 DEF TypeOK, Stages
<1>4. CASE Tick
  <2> DEFINE started ==
        UNION {UpdateNs(ns, Events[ns]) : ns \in {n \in Namespaces : Events[n] # Absent}}
  <2>1. /\ UNCHANGED <<scaler, quota, refusal, changes, failures, stage, stream, Scalers, Quotas,
                       missed, uncoupled>>
        /\ calls' = calls \cup started
        /\ considered' = considered \cup UNION {c.events : c \in started}
        /\ Events' = NoMap
    BY <1>4 DEF Tick, cluster
  <2>2. /\ (Scalers \in [Namespaces -> Scaler \cup {Absent}])'
        /\ (Quotas \in [Namespaces -> Quota \cup {Absent}])'
    BY <2>1 DEF TypeOK
  <2>3. \A ns \in Namespaces : Events[ns] # Absent => UpdateNs(ns, Events[ns]) \in SUBSET Call
    BY <2>2, CallType DEF TypeOK
  <2>4. started \in SUBSET Call
    BY <2>3
  <2> HIDE DEF started
  <2>5. \A c \in started : c.events \in SUBSET Refusal
    BY <2>4 DEF Call
  <2>6. considered' \in SUBSET Refusal
    BY <2>1, <2>5 DEF TypeOK
  <2>7. DOMAIN Events' = Namespaces /\ \A ns \in Namespaces : Events'[ns] = Absent
    BY <2>1 DEF NoMap
  <2>8. calls' \in SUBSET Call
    BY <2>1, <2>4 DEF TypeOK
  <2>9. \A k \in Watches : Watching(k)' <=> Watching(k)
    BY <2>1 DEF Watching
  <2> QED
    BY <2>1, <2>6, <2>7, <2>8, <2>9 DEF TypeOK
<1> QED
  BY <1>1, <1>2, <1>3, <1>4 DEF Serve

\* The process that has not started has nothing.
LEMMA InitTypes == Init => TypeOK
<1> SUFFICES ASSUME Init
             PROVE  TypeOK
  OBVIOUS
<1>1. \A k \in Watches : stream[k] = <<>> /\ <<>> \in Seq(Changes(k))
  BY DEF Init, NoStreams
<1>2. DOMAIN stream = Watches
  BY DEF Init, NoStreams
<1>3. /\ changes \in 0..MaxChanges /\ failures \in 0..MaxFailures /\ stage \in Stages
      /\ calls = {} /\ considered = {} /\ missed = {} /\ uncoupled = {}
  BY MaxChangesAssumption, MaxFailuresAssumption DEF Init, Stages
<1>4. /\ scaler \in [Namespaces -> Scaler \cup {Absent}]
      /\ Scalers \in [Namespaces -> Scaler \cup {Absent}]
      /\ Quotas \in [Namespaces -> Quota \cup {Absent}]
      /\ DOMAIN Events = Namespaces /\ \A ns \in Namespaces : Events[ns] = Absent
  BY DEF Init, NoMap
<1>5. /\ quota \in [Namespaces -> [QuotaNames -> Version \cup {Absent}]]
      /\ refusal \in [Namespaces -> [Reasons -> Version \cup {Absent}]]
  BY DEF Init
<1> QED
  BY <1>1, <1>2, <1>3, <1>4, <1>5 DEF TypeOK

\* Every step keeps the types: those of the cluster, of main and of the select.
LEMMA NextTypes == TypeOK /\ [Next]_vars => TypeOK'
<1> SUFFICES ASSUME TypeOK, [Next]_vars
             PROVE  TypeOK'
  OBVIOUS
<1>1. CASE ClusterChanges
  BY <1>1, ClusterChange DEF Reported
<1>2. CASE Serve
  BY <1>2, ServeTypes
<1>3. CASE UNCHANGED vars
  <2>1. UNCHANGED <<scaler, quota, refusal, changes, failures, stage, stream, Scalers, Quotas,
                    Events, calls, considered, missed, uncoupled>>
    BY <1>3 DEF vars, cluster, maps, history
  <2>2. \A k \in Watches : Watching(k)' <=> Watching(k)
    BY <2>1 DEF Watching
  <2> QED
    BY <2>1, <2>2 DEF TypeOK
<1> QED
  BY <1>1, <1>2, <1>3, MainTypes DEF Next

\* Whatever the cluster does, and wherever the process crashes, the maps and the
\* streams are what they should be, and nothing is left of a stream that ended.
THEOREM TypeCorrect == Spec => []TypeOK
  BY InitTypes, NextTypes, PTL DEF Spec

-----------------------------------------------------------------------------
(* The last word of a watch, and the maps. *)

\* The cluster has the object of the change as the change says.
Reflects(k, change) ==
  IF k = "scalers"
  THEN scaler[change.ns] = IF change.type = "Set" THEN change.object ELSE Absent
  ELSE Known(change.ns, change.object.name) = IF change.type = "Set" THEN change.object ELSE Absent

\* What the streams have as the last word about an object is how the cluster has it.
LastWords ==
  \A k \in {"scalers", "quotas"} : \A i \in DOMAIN stream[k] :
    LastWord(k, stream[k], i) => Reflects(k, stream[k][i])

\* The scaler map, when its watch has nothing to say of ns; and before the watch.
ScalersInv ==
  \A ns \in Namespaces \ missed :
    /\ Watching("scalers") /\ ~Told("scalers", stream["scalers"], <<ns>>) =>
         Scalers[ns] = scaler[ns]
    /\ stage = "watchScalers" /\ scaler[ns] = Absent => Scalers[ns] = Absent

\* The watch of the quotas tells of all that exist until one is delivered.
AllTold ==
  stage \in {"watchEvents", "listQuotas"} =>
    \A ns \in Namespaces, q \in QuotaNames :
      ~Told("quotas", stream["quotas"], <<ns, q>>) => quota[ns][q] = Absent

\* The quota map holds the quota that the scaler in the map asks for, and the
\* last one of it when the watch has nothing to say of it.
QuotaInv(ns) ==
  /\ Scalers[ns] = Absent => Quotas[ns] = Absent
  /\ Scalers[ns] # Absent =>
       /\ Quotas[ns] # Absent => Quotas[ns].name = Scalers[ns].quota
       /\ ~Told("quotas", stream["quotas"], <<ns, Scalers[ns].quota>>) =>
            Quotas[ns] = Known(ns, Scalers[ns].quota)

\* It does once main has come as far as the select.
QuotasInv == stage = "running" => \A ns \in Namespaces \ uncoupled : QuotaInv(ns)

\* The inductive invariant: ScalersFollow and QuotasFollow say nothing of the stages
\* before the select and of changes that are under way, the rest does.
IInv == TypeOK /\ LastWords /\ ScalersInv /\ AllTold /\ QuotasInv

\* What the changes of scalers and of quotas are about.
LEMMA ScalerKeys ==
  ASSUME NEW c \in Changes("scalers")
  PROVE  /\ Key("scalers", c) = <<c.ns>> /\ c.ns \in Namespaces
         /\ c.object \in Scaler /\ c.object.quota \in QuotaNames
<1>1. c \in [type : {"Set", "Deleted"}, ns : Namespaces, object : Scaler]
  BY WatchesDistinct DEF Changes
<1> QED
  BY <1>1 DEF Key, Scaler

\* A change of a quota is about the namespace and the name.
LEMMA QuotaKeys ==
  ASSUME NEW c \in Changes("quotas")
  PROVE  /\ Key("quotas", c) = <<c.ns, c.object.name>> /\ c.ns \in Namespaces
         /\ c.object.name \in QuotaNames
         /\ c.object = [name |-> c.object.name, version |-> c.object.version]
<1>1. c \in [type : {"Set", "Deleted"}, ns : Namespaces, object : Quota]
  BY WatchesDistinct DEF Changes
<1> QED
  BY <1>1 DEF Key, Quota

\* A change of the cluster disproves only what is about the same object.
LEMMA ReflectsStill ==
  ASSUME TypeOK, NEW k \in Watches, NEW change \in Changes(k), Reported(k, change),
         NEW j \in {"scalers", "quotas"}, NEW c \in Changes(j)
  PROVE  /\ Reflects(j, c) /\ (j = k => Apart(k, c, change)) => Reflects(j, c)'
         /\ j = k => Reflects(k, change)'
<1>1. CASE j = "scalers" /\ k = "scalers"
  <2>1. c.ns \in Namespaces /\ change.ns \in Namespaces
        /\ Key(k, c) = <<c.ns>> /\ Key(k, change) = <<change.ns>>
    BY <1>1, ScalerKeys
  <2>2. scaler' = [scaler EXCEPT ![change.ns] = IF change.type = "Set" THEN change.object ELSE Absent]
    BY <1>1 DEF Reported
  <2>3. DOMAIN scaler = Namespaces
    BY DEF TypeOK
  <2> QED
    BY <1>1, <2>1, <2>2, <2>3 DEF Reflects, Apart
<1>2. CASE j = "quotas" /\ k = "quotas"
  <2>1. /\ c.ns \in Namespaces /\ change.ns \in Namespaces
        /\ c.object.name \in QuotaNames /\ change.object.name \in QuotaNames
        /\ change.object = [name |-> change.object.name, version |-> change.object.version]
        /\ Key(k, c) = <<c.ns, c.object.name>> /\ Key(k, change) = <<change.ns, change.object.name>>
    BY <1>2, QuotaKeys
  <2>2. PICK v \in Version \cup {Absent} :
          /\ quota' = [quota EXCEPT ![change.ns][change.object.name] = v]
          /\ IF change.type = "Set" THEN v # Absent /\ v = change.object.version
                                    ELSE v = Absent
    BY <1>2 DEF Reported
  <2>3. quota \in [Namespaces -> [QuotaNames -> Version \cup {Absent}]]
    BY DEF TypeOK
  <2>5. <<c.ns, c.object.name>> # <<change.ns, change.object.name>> =>
          quota'[c.ns][c.object.name] = quota[c.ns][c.object.name]
    BY <2>1, <2>2, <2>3
  <2>6. quota'[change.ns][change.object.name] = v
    BY <2>1, <2>2, <2>3
  <2>8. Reflects(k, change)'
    BY <1>2, <2>1, <2>2, <2>6 DEF Reflects, Known
  <2>9. Apart(k, c, change) => (Reflects(k, c) => Reflects(k, c)')
    BY <1>2, <2>1, <2>5 DEF Reflects, Known, Apart
  <2> QED
    BY <1>2, <2>8, <2>9
<1>3. CASE j # k /\ j = "scalers"
  BY <1>3 DEF Reported, Reflects
<1>4. CASE j # k /\ j = "quotas"
  BY <1>4 DEF Reported, Reflects, Known
<1> QED
  BY <1>1, <1>2, <1>3, <1>4

\* It is enough to look at the changes one by one.
LEMMA WordsOf ==
  ASSUME \A j \in {"scalers", "quotas"} : \A i, c :
           /\ i \in DOMAIN stream'[j] /\ LastWord(j, stream'[j], i) /\ c = stream'[j][i]
           => Reflects(j, c)'
  PROVE  LastWords'
<1> SUFFICES ASSUME NEW j \in {"scalers", "quotas"}, NEW i \in DOMAIN stream'[j],
                    LastWord(j, stream'[j], i)
             PROVE  (Reflects(j, stream[j][i]))'
  BY DEF LastWords
<1> QED
  BY DEF Reflects, Known

\* A change of the cluster is the last word about its object, if it is watched,
LEMMA ChangesKeepWords ==
  ASSUME IInv, NEW k \in Watches, NEW change \in Changes(k), Reported(k, change)
  PROVE  LastWords'
<1> SUFFICES ASSUME NEW j \in {"scalers", "quotas"}, NEW i, NEW c,
                    i \in DOMAIN stream'[j], LastWord(j, stream'[j], i), c = stream'[j][i]
             PROVE  Reflects(j, c)'
  BY WordsOf
<1> DEFINE s == stream[j]
           t == stream'[j]
<1>1. j \in Watches /\ s \in Seq(Changes(j)) /\ TypeOK
  BY WatchesDistinct DEF IInv, TypeOK
<1>2. t = IF j = k /\ Watching(k) THEN Append(s, change) ELSE s
  BY <1>1, ChangeReported DEF Reported
<1>3. \A n \in DOMAIN s : LastWord(j, s, n) => Reflects(j, s[n])
  BY DEF IInv, LastWords
<1>4. i \in DOMAIN t /\ LastWord(j, t, i) /\ c = t[i]
  OBVIOUS
<1>5. ~Watching(j) => s = <<>>
  BY <1>1 DEF TypeOK
<1> HIDE DEF s, t
<1>6. ASSUME c \in Changes(j), i \in DOMAIN s, c = s[i], LastWord(j, s, i),
             j = k => Apart(k, c, change)
      PROVE  Reflects(j, c)'
  <2>1. Reflects(j, c)
    BY <1>3, <1>6
  <2> QED
    BY <1>1, <1>6, <2>1, ReflectsStill
<1>7. CASE j = k /\ Watching(k)
  <2>1. \/ t[i] = change
        \/ /\ i \in DOMAIN s /\ t[i] = s[i]
           /\ LastWord(j, s, i) /\ Apart(j, s[i], change)
    <3>1. Grown(s, change, t)
      BY <1>1, <1>2, <1>7, AppendGrows
    <3> QED
      BY ONLY <1>4, <3>1, AppendedWord
  <2>2. CASE c = change
    BY <1>1, <1>7, <2>2, ReflectsStill
  <2>3. CASE i \in DOMAIN s /\ t[i] = s[i] /\ LastWord(j, s, i) /\ Apart(j, s[i], change)
    <3>1. c = s[i] /\ s[i] \in Changes(j)
      BY <1>1, <1>4, <2>3
    <3> QED
      BY <1>6, <1>7, <2>3, <3>1
  <2> QED
    BY <1>4, <2>1, <2>2, <2>3
<1>8. CASE ~(j = k /\ Watching(k))
  <2>1. t = s
    BY <1>2, <1>8
  <2>2. j # k
    BY <1>4, <1>5, <1>8, <2>1
  <2>3. c \in Changes(j)
    BY <1>1, <1>4, <2>1
  <2> QED
    BY <1>4, <1>6, <2>1, <2>2, <2>3
<1> QED
  BY <1>7, <1>8

\* What a change of the cluster makes of what is told.
LEMMA ToldMore ==
  ASSUME TypeOK, NEW k \in Watches, NEW change \in Changes(k), Reported(k, change),
         NEW j \in Watches, NEW key
  PROVE  ~Told(j, stream'[j], key) =>
           /\ ~Told(j, stream[j], key)
           /\ j = k /\ Watching(k) => Key(k, change) # key
<1> DEFINE s == stream[j]
           t == stream'[j]
<1>1. s \in Seq(Changes(j)) /\ t = IF j = k /\ Watching(k) THEN Append(s, change) ELSE s
  BY ChangeReported DEF Reported, TypeOK
<1> HIDE DEF s, t
<1>2. CASE j = k /\ Watching(k)
  <2>1. Grown(s, change, t)
    BY <1>1, <1>2, AppendGrows
  <2>2. Told(j, t, key) <=> Told(j, s, key) \/ Key(j, change) = key
    BY <2>1, AppendedTold
  <2> QED
    BY <1>2, <2>2 DEF s, t
<1>3. CASE ~(j = k /\ Watching(k))
  BY <1>1, <1>3 DEF s, t
<1> QED
  BY <1>2, <1>3

\* leaves the scaler map right about namespaces it does not tell of,
LEMMA ChangesKeepScalers ==
  ASSUME IInv, NEW k \in Watches, NEW change \in Changes(k), Reported(k, change)
  PROVE  ScalersInv'
<1>1. TypeOK /\ stage' = stage /\ Scalers' = Scalers /\ (Watching("scalers")' <=> Watching("scalers"))
  BY DEF IInv, Reported, Changed, Watching, maps
<1> SUFFICES ASSUME NEW ns \in Namespaces \ missed'
             PROVE  /\ Watching("scalers") /\ ~Told("scalers", stream'["scalers"], <<ns>>) =>
                         Scalers[ns] = scaler'[ns]
                    /\ stage = "watchScalers" /\ scaler'[ns] = Absent => Scalers[ns] = Absent
  BY <1>1 DEF ScalersInv
<1>2. ~Told("scalers", stream'["scalers"], <<ns>>) =>
        /\ ~Told("scalers", stream["scalers"], <<ns>>)
        /\ k = "scalers" /\ Watching(k) => Key(k, change) # <<ns>>
  BY <1>1, ToldMore, WatchesDistinct
<1>3. ns \notin missed =>
        /\ Watching("scalers") /\ ~Told("scalers", stream["scalers"], <<ns>>) =>
             Scalers[ns] = scaler[ns]
        /\ stage = "watchScalers" /\ scaler[ns] = Absent => Scalers[ns] = Absent
  BY DEF IInv, ScalersInv
<1>4. CASE k # "scalers"
  BY <1>2, <1>3, <1>4 DEF Reported
<1>5. CASE k = "scalers"
  <2>1. /\ Key(k, change) = <<change.ns>> /\ change.ns \in Namespaces
        /\ DOMAIN scaler = Namespaces
    BY <1>1, <1>5, ScalerKeys DEF TypeOK
  <2>2. /\ scaler' = [scaler EXCEPT ![change.ns] =
                        IF change.type = "Set" THEN change.object ELSE Absent]
        /\ IF change.type = "Set" THEN change.object # Absent
                                  ELSE stage = "watchScalers" => change.ns \in missed'
        /\ change.type # "Set" \/ missed' = missed \ {change.ns}
        /\ change.type = "Set" \/ missed \subseteq missed'
    BY <1>5 DEF Reported
  <2>3. CASE ns = change.ns
    <3>1. scaler'[ns] = IF change.type = "Set" THEN change.object ELSE Absent
      BY <2>1, <2>2, <2>3
    <3>2. ~(stage = "watchScalers" /\ scaler'[ns] = Absent)
      BY <2>2, <2>3, <3>1
    <3>3. Watching("scalers") => Told("scalers", stream'["scalers"], <<ns>>)
      BY <1>2, <1>5, <2>1, <2>3
    <3> QED
      BY <3>2, <3>3
  <2>4. CASE ns # change.ns
    <3>1. scaler'[ns] = scaler[ns] /\ ns \notin missed
      BY <2>1, <2>2, <2>4
    <3> QED
      BY <1>2, <1>3, <3>1
  <2> QED
    BY <2>3, <2>4
<1> QED
  BY <1>4, <1>5

\* and the quota map about quotas it does not tell of.
LEMMA ChangesKeepQuotas ==
  ASSUME IInv, NEW k \in Watches, NEW change \in Changes(k), Reported(k, change)
  PROVE  AllTold' /\ QuotasInv'
<1>1. /\ TypeOK /\ UNCHANGED <<stage, Scalers, Quotas, uncoupled>>
      /\ stage \in {"watchEvents", "listQuotas", "running"} => Watching("quotas")
  BY DEF IInv, Reported, Changed, Watching, maps
<1>2. ASSUME NEW ns \in Namespaces, NEW q \in QuotaNames, Watching("quotas"),
             ~Told("quotas", stream'["quotas"], <<ns, q>>)
      PROVE  /\ ~Told("quotas", stream["quotas"], <<ns, q>>)
             /\ quota'[ns][q] = quota[ns][q]
  <2>1. /\ ~Told("quotas", stream["quotas"], <<ns, q>>)
        /\ k = "quotas" => Key(k, change) # <<ns, q>>
    BY <1>1, <1>2, ToldMore, WatchesDistinct
  <2>2. CASE k = "quotas"
    <3>1. /\ Key(k, change) = <<change.ns, change.object.name>> /\ change.ns \in Namespaces
          /\ change.object.name \in QuotaNames
      BY <2>2, QuotaKeys
    <3>2. \E v : quota' = [quota EXCEPT ![change.ns][change.object.name] = v]
      BY <2>2 DEF Reported
    <3>3. quota \in [Namespaces -> [QuotaNames -> Version \cup {Absent}]]
      BY <1>1 DEF TypeOK
    <3> QED
      BY <2>1, <2>2, <3>1, <3>2, <3>3
  <2>3. CASE k # "quotas"
    BY <2>1, <2>3 DEF Reported
  <2> QED
    BY <2>2, <2>3
<1>3. AllTold'
  BY <1>1, <1>2 DEF IInv, AllTold
<1>4. ASSUME stage = "running", NEW ns \in Namespaces \ uncoupled
      PROVE  QuotaInv(ns)'
  <2>1. QuotaInv(ns)
    BY <1>4 DEF IInv, QuotasInv
  <2>2. Scalers[ns] # Absent => Scalers[ns].quota \in QuotaNames
    BY <1>1, <1>4 DEF TypeOK, Scaler
  <2>3. Scalers[ns] # Absent /\ ~Told("quotas", stream'["quotas"], <<ns, Scalers[ns].quota>>) =>
          Quotas[ns] = Known(ns, Scalers[ns].quota)'
    BY <1>1, <1>2, <1>4, <2>1, <2>2 DEF QuotaInv, Known
  <2> QED
    BY <1>1, <2>1, <2>3 DEF QuotaInv
<1>5. QuotasInv'
  BY <1>1, <1>4 DEF QuotasInv
<1> QED
  BY <1>3, <1>5

\* The invariant without the types.
Words == LastWords /\ ScalersInv /\ AllTold /\ QuotasInv

\* Nothing is held against a process that is not watching.
LEMMA NotWatching ==
  ASSUME TypeOK', stage' \in {"start", "list"}
  PROVE  Words'
<1>1. \A k \in {"scalers", "quotas"} : stream'[k] = <<>>
  BY WatchesDistinct DEF TypeOK, Watching
<1>2. LastWords'
  BY <1>1 DEF LastWords
<1>3. ScalersInv' /\ AllTold' /\ QuotasInv'
  BY DEF ScalersInv, AllTold, QuotasInv, Watching
<1> QED
  BY <1>2, <1>3 DEF Words

\* Steps that have to do with neither scalers nor quotas.
LEMMA Unaffected ==
  ASSUME Words,
         UNCHANGED <<scaler, quota, stage, Scalers, Quotas, missed, uncoupled>>,
         stream'["scalers"] = stream["scalers"], stream'["quotas"] = stream["quotas"]
  PROVE  Words'
<1>1. LastWords'
  BY DEF Words, LastWords, Reflects, Known
<1>2. ScalersInv'
  BY DEF Words, ScalersInv, Watching
<1>3. AllTold'
  BY DEF Words, AllTold
<1>4. QuotasInv'
  BY DEF Words, QuotasInv, QuotaInv, Known
<1> QED
  BY <1>1, <1>2, <1>3, <1>4 DEF Words

\* List makes the scaler map what the cluster has.
LEMMA ListWords ==
  ASSUME IInv, TypeOK', ListScalers
  PROVE  Words'
<1>1. stage' = "watchScalers" /\ Scalers' = scaler /\ scaler' = scaler
  BY DEF ListScalers, cluster
<1>2. \A k \in {"scalers", "quotas"} : stream'[k] = <<>>
  BY <1>1, WatchesDistinct DEF TypeOK, Watching
<1>3. LastWords'
  BY <1>2 DEF LastWords
<1>4. ScalersInv' /\ AllTold' /\ QuotasInv'
  BY <1>1 DEF ScalersInv, AllTold, QuotasInv, Watching
<1> QED
  BY <1>3, <1>4 DEF Words

\* A watch begins with what exists: all of it, and as it is.
LEMMA ExistingReflected ==
  ASSUME TypeOK
  PROVE  /\ \A k \in {"scalers", "quotas"} : \A e \in Existing(k) : Reflects(k, e)
         /\ \A s \in SetToSeqs(Existing("scalers")), ns \in Namespaces :
              ~Told("scalers", s, <<ns>>) => scaler[ns] = Absent
         /\ \A s \in SetToSeqs(Existing("quotas")), ns \in Namespaces, q \in QuotaNames :
              ~Told("quotas", s, <<ns, q>>) => quota[ns][q] = Absent
<1>1. \A e \in Existing("scalers") : Reflects("scalers", e)
  BY DEF Existing, Change, Reflects
<1>2. \A e \in Existing("quotas") : Reflects("quotas", e)
  <2> SUFFICES ASSUME NEW ns \in Namespaces, NEW q \in QuotaNames, quota[ns][q] # Absent
               PROVE  Reflects("quotas", Change("Set", ns, [name |-> q, version |-> quota[ns][q]]))
    BY DEF Existing
  <2> QED
    BY DEF Change, Reflects, Known
<1>3. ASSUME NEW s \in SetToSeqs(Existing("scalers")), NEW ns \in Namespaces, scaler[ns] # Absent
      PROVE  Told("scalers", s, <<ns>>)
  <2> DEFINE e == Change("Set", ns, scaler[ns])
  <2>1. e \in Existing("scalers") /\ Key("scalers", e) = <<ns>>
    BY <1>3 DEF Existing, Key, Change
  <2>2. \E i \in DOMAIN s : s[i] = e
    BY <2>1, ExistingType, Enumerated, WatchesDistinct
  <2> QED
    BY <2>1, <2>2 DEF Told
<1>4. ASSUME NEW s \in SetToSeqs(Existing("quotas")), NEW ns \in Namespaces, NEW q \in QuotaNames,
             quota[ns][q] # Absent
      PROVE  Told("quotas", s, <<ns, q>>)
  <2> DEFINE e == Change("Set", ns, [name |-> q, version |-> quota[ns][q]])
  <2>1. e \in Existing("quotas")
    <3> DEFINE x == <<ns, q>>
    <3>1. x \in {p \in Namespaces \X QuotaNames : quota[p[1]][p[2]] # Absent}
      BY <1>4
    <3>2. e = Change("Set", x[1], [name |-> x[2], version |-> quota[x[1]][x[2]]])
      OBVIOUS
    <3> HIDE DEF x, e
    <3> QED
      BY <3>1, <3>2 DEF Existing
  <2>2. Key("quotas", e) = <<ns, q>>
    BY DEF Key, Change
  <2>3. \E i \in DOMAIN s : s[i] = e
    BY <2>1, ExistingType, Enumerated, WatchesDistinct
  <2> QED
    BY <2>2, <2>3 DEF Told
<1> QED
  BY <1>1, <1>2, <1>3, <1>4

\* A watch that starts tells of all that exists, so nothing is held against the maps.
LEMMA WatchWords ==
  ASSUME IInv, TypeOK', Watch
  PROVE  Words'
<1>1. /\ TypeOK /\ Words
      /\ UNCHANGED <<scaler, quota, Scalers, Quotas, missed, uncoupled>>
  BY DEF Watch, cluster, maps, history, IInv, Words
<1>2. CASE stage = "watchScalers"
  <2>1. PICK s \in SetToSeqs(Existing("scalers")) : stream' = [stream EXCEPT !["scalers"] = s]
    BY <1>2 DEF Watch
  <2>2. stage' = "watchQuotas"
    BY <1>2 DEF Watch
  <2>3. stream'["scalers"] = s /\ stream'["quotas"] = <<>>
    BY <1>1, <2>1, <2>2, WatchesDistinct DEF TypeOK, Watching
  <2>4. s \in Seq(Existing("scalers"))
    BY <2>1, <1>1, ExistingType, Enumerated, WatchesDistinct
  <2>5. LastWords'
    <3> SUFFICES ASSUME NEW j \in {"scalers", "quotas"}, NEW i, NEW c,
                        i \in DOMAIN stream'[j], c = stream'[j][i]
                 PROVE  Reflects(j, c)'
      BY WordsOf
    <3>1. j = "scalers" /\ c \in Existing("scalers")
      BY <2>3, <2>4
    <3>2. Reflects(j, c)
      BY <1>1, <3>1, ExistingReflected
    <3> QED
      BY <1>1, <3>1, <3>2 DEF Reflects
  <2>6. ScalersInv'
    <3> SUFFICES ASSUME NEW ns \in Namespaces \ missed, ~Told("scalers", s, <<ns>>)
                 PROVE  Scalers[ns] = scaler[ns]
      BY <1>1, <2>2, <2>3 DEF ScalersInv
    <3>1. scaler[ns] = Absent
      BY <1>1, <2>1, ExistingReflected
    <3> QED
      BY <1>1, <1>2, <3>1 DEF Words, ScalersInv
  <2>7. AllTold' /\ QuotasInv'
    BY <2>2 DEF AllTold, QuotasInv
  <2> QED
    BY <2>5, <2>6, <2>7 DEF Words
<1>3. CASE stage = "watchQuotas"
  <2>1. PICK s \in SetToSeqs(Existing("quotas")) : stream' = [stream EXCEPT !["quotas"] = s]
    BY <1>3 DEF Watch
  <2>2. stage' = "watchEvents"
    BY <1>3 DEF Watch
  <2>3. stream'["quotas"] = s /\ stream'["scalers"] = stream["scalers"]
    BY <1>1, <2>1, WatchesDistinct DEF TypeOK
  <2>4. s \in Seq(Existing("quotas"))
    BY <2>1, <1>1, ExistingType, Enumerated, WatchesDistinct
  <2>5. LastWords'
    <3> SUFFICES ASSUME NEW j \in {"scalers", "quotas"}, NEW i, NEW c,
                        i \in DOMAIN stream'[j], LastWord(j, stream'[j], i), c = stream'[j][i]
                 PROVE  Reflects(j, c)'
      BY WordsOf
    <3>1. CASE j = "quotas"
      <4>1. c \in Existing("quotas")
        BY <2>3, <2>4, <3>1
      <4>2. Reflects("quotas", c)
        BY <1>1, <4>1, ExistingReflected
      <4> QED
        BY <1>1, <3>1, <4>2 DEF Reflects, Known
    <3>2. CASE j = "scalers"
      BY <1>1, <2>3, <3>2 DEF Words, LastWords, Reflects
    <3> QED
      BY <3>1, <3>2
  <2>6. ScalersInv'
    BY <1>1, <1>3, <2>2, <2>3 DEF Words, ScalersInv, Watching
  <2>7. AllTold' /\ QuotasInv'
    BY <1>1, <2>1, <2>2, <2>3, ExistingReflected DEF AllTold, QuotasInv
  <2> QED
    BY <2>5, <2>6, <2>7 DEF Words
<1>4. CASE stage = "watchEvents"
  <2>1. stage' = "listQuotas"
    BY <1>4 DEF Watch
  <2>2. stream'["quotas"] = stream["quotas"] /\ stream'["scalers"] = stream["scalers"]
    BY <1>4, WatchesDistinct DEF Watch
  <2>3. LastWords'
    BY <1>1, <2>2 DEF Words, LastWords, Reflects, Known
  <2>4. ScalersInv' /\ AllTold' /\ QuotasInv'
    BY <1>1, <1>4, <2>1, <2>2 DEF Words, ScalersInv, Watching, AllTold, QuotasInv
  <2> QED
    BY <2>3, <2>4 DEF Words
<1> QED
  BY <1>2, <1>3, <1>4 DEF Watch

\* The List comes after the watch: what it misses, the watch has told or will.
LEMMA ListQuotasWords ==
  ASSUME IInv, NEW ok \in BOOLEAN, ListQuotas(ok)
  PROVE  Words'
<1>1. /\ TypeOK /\ Words /\ UNCHANGED <<scaler, quota, stream, Scalers, missed, uncoupled>>
      /\ stage = "listQuotas" /\ stage' = "running"
      /\ Quotas' = [ns \in Namespaces |->
                      IF ok /\ Scalers[ns] # Absent THEN Known(ns, Scalers[ns].quota) ELSE Absent]
  BY DEF ListQuotas, cluster, history, IInv, Words
<1>2. LastWords'
  BY <1>1 DEF Words, LastWords, Reflects, Known
<1>3. ScalersInv' /\ AllTold'
  BY <1>1 DEF Words, ScalersInv, Watching, AllTold
<1>4. ASSUME NEW ns \in Namespaces
      PROVE  QuotaInv(ns)'
  <2>1. CASE Scalers[ns] = Absent
    BY <1>1, <2>1 DEF QuotaInv
  <2>2. CASE Scalers[ns] # Absent
    <3> DEFINE q == Scalers[ns].quota
    <3>1. q \in QuotaNames
      BY <1>1, <2>2 DEF TypeOK, Scaler
    <3>2. Quotas'[ns] \in {Known(ns, q), Absent}
      BY <1>1
    <3>3. ~Told("quotas", stream["quotas"], <<ns, q>>) => Known(ns, q) = Absent
      BY <1>1, <3>1 DEF Words, AllTold, Known
    <3>4. Known(ns, q) # Absent => Known(ns, q).name = q
      BY DEF Known
    <3>5. Known(ns, q)' = Known(ns, q)
      BY <1>1 DEF Known
    <3>6. /\ Quotas'[ns] # Absent => Quotas'[ns].name = q
          /\ ~Told("quotas", stream["quotas"], <<ns, q>>) => Quotas'[ns] = Known(ns, q)
      BY <1>1, <2>2, <3>2, <3>3, <3>4
    <3> QED
      BY <1>1, <2>2, <3>5, <3>6 DEF QuotaInv
  <2> QED
    BY <2>1, <2>2
<1> QED
  BY <1>2, <1>3, <1>4 DEF Words, QuotasInv

\* What a branch of the select leaves of what was under way, k being scalers or
\* quotas: the change delivered was the last word, or there is a later one.
LEMMA Delivery ==
  ASSUME IInv, NEW k \in {"scalers", "quotas"}, NEW change \in Delivered(k), Consume(k)
  PROVE  /\ stage = "running" /\ stage' = "running" /\ change \in Changes(k)
         /\ UNCHANGED <<scaler, quota, missed>>
         /\ LastWords'
         /\ \A j \in {"scalers", "quotas"} : \A key :
              ~Told(j, stream'[j], key) => ~Told(j, stream[j], key) \/ (j = k /\ key = Key(k, change))
         /\ ~Told(k, stream'[k], Key(k, change)) => Reflects(k, change)
<1> DEFINE s == stream[k]
           t == stream'[k]
<1>1. TypeOK /\ LastWords /\ k \in Watches
  BY WatchesDistinct DEF IInv
<1>2. /\ stage = "running" /\ stage' = "running"
      /\ s # <<>> /\ change = Head(s) /\ change \in Changes(k)
      /\ UNCHANGED <<scaler, quota, missed>>
      /\ s \in Seq(Changes(k)) /\ t = Tail(s)
  BY <1>1, Received DEF TypeOK
<1>3. \A j \in {"scalers", "quotas"} : j # k => stream'[j] = stream[j]
  BY <1>1, Received, WatchesDistinct
<1>4. \A i \in DOMAIN s : LastWord(k, s, i) => Reflects(k, s[i])
  BY <1>1 DEF LastWords
<1> HIDE DEF s, t
<1>5. Shrunk(s, change, t)
  BY <1>2, TailShrinks
<1>6. /\ 1 \in DOMAIN s /\ s[1] = change
      /\ \A i \in DOMAIN t : /\ i + 1 \in DOMAIN s /\ t[i] = s[i + 1]
                             /\ LastWord(k, t, i) => LastWord(k, s, i + 1)
      /\ \A key : Told(k, s, key) <=> Told(k, t, key) \/ Key(k, change) = key
      /\ ~Told(k, t, Key(k, change)) => LastWord(k, s, 1)
  BY <1>5, Consumed
<1>7. LastWords'
  <2> SUFFICES ASSUME NEW j \in {"scalers", "quotas"}, NEW i, NEW c,
                      i \in DOMAIN stream'[j], LastWord(j, stream'[j], i), c = stream'[j][i]
               PROVE  Reflects(j, c)'
    BY WordsOf
  <2>1. Reflects(j, c)
    <3>1. CASE j = k
      <4>1. i \in DOMAIN t /\ LastWord(k, t, i) /\ c = t[i]
        BY <3>1 DEF t
      <4>2. i + 1 \in DOMAIN s /\ c = s[i + 1] /\ LastWord(k, s, i + 1)
        BY <1>6, <4>1
      <4> QED
        BY <1>4, <3>1, <4>2
    <3>2. CASE j # k
      BY <1>1, <1>3, <3>2 DEF LastWords
    <3> QED
      BY <3>1, <3>2
  <2> QED
    BY <1>2, <2>1 DEF Reflects, Known
<1>8. ASSUME NEW j \in {"scalers", "quotas"}, NEW key, ~Told(j, stream'[j], key)
      PROVE  ~Told(j, stream[j], key) \/ (j = k /\ key = Key(k, change))
  <2>1. CASE j = k
    BY <1>6, <1>8, <2>1 DEF s, t
  <2>2. CASE j # k
    BY <1>3, <1>8, <2>2
  <2> QED
    BY <2>1, <2>2
<1>9. ~Told(k, stream'[k], Key(k, change)) => Reflects(k, change)
  BY <1>4, <1>6 DEF t
<1> QED
  BY <1>2, <1>7, <1>8, <1>9

\* A scaler that is delivered last is how the cluster has it, and its quota is the
\* one fetched or kept; if not, another change is still to be delivered.
LEMMA ScalerEventWords ==
  ASSUME IInv, ScalerEvent
  PROVE  Words'
<1>1. PICK change \in Delivered("scalers") :
        Consume("scalers") /\ (ForgetScaler(change) \/ RegisterScaler(change))
  BY DEF ScalerEvent
<1> DEFINE n == change.ns
<1>2. /\ stage = "running" /\ stage' = "running" /\ change \in Changes("scalers")
      /\ UNCHANGED <<scaler, quota, missed>>
      /\ LastWords'
      /\ \A j \in {"scalers", "quotas"} : \A key :
           ~Told(j, stream'[j], key) =>
             ~Told(j, stream[j], key) \/ (j = "scalers" /\ key = Key("scalers", change))
      /\ ~Told("scalers", stream'["scalers"], Key("scalers", change)) => Reflects("scalers", change)
  BY <1>1, Delivery
<1>3. /\ Key("scalers", change) = <<n>> /\ n \in Namespaces
      /\ change.object \in Scaler /\ change.object.quota \in QuotaNames
  BY <1>2, ScalerKeys
<1>4. TypeOK /\ Words
  BY DEF IInv, Words
<1>5. /\ Scalers \in [Namespaces -> Scaler \cup {Absent}]
      /\ Quotas \in [Namespaces -> Quota \cup {Absent}]
  BY <1>4 DEF TypeOK
<1>6. \/ change.type = "Deleted" /\ Scalers' = [Scalers EXCEPT ![n] = Absent]
      \/ change.type = "Set" /\ Scalers' = [Scalers EXCEPT ![n] = change.object]
  BY <1>1 DEF ForgetScaler, RegisterScaler
<1>7. ScalersInv'
  <2> SUFFICES ASSUME NEW ns \in Namespaces \ missed, ~Told("scalers", stream'["scalers"], <<ns>>)
               PROVE  Scalers'[ns] = scaler[ns]
    BY <1>2 DEF ScalersInv
  <2>1. CASE ns = n
    <3>1. Scalers'[n] = IF change.type = "Set" THEN change.object ELSE Absent
      BY <1>3, <1>5, <1>6
    <3> QED
      BY <1>2, <1>3, <2>1, <3>1 DEF Reflects
  <2>2. CASE ns # n
    <3>1. ~Told("scalers", stream["scalers"], <<ns>>)
      BY <1>2, <1>3, <2>2
    <3>2. Scalers[ns] = scaler[ns]
      BY <1>2, <1>4, <3>1 DEF Words, ScalersInv, Watching
    <3> QED
      BY <1>3, <1>5, <1>6, <2>2, <3>2
  <2> QED
    BY <2>1, <2>2
<1>8. ASSUME NEW ns \in Namespaces \ uncoupled'
      PROVE  QuotaInv(ns)'
  <2> DEFINE q == change.object.quota
  <2>1. uncoupled \subseteq uncoupled'
    BY <1>1 DEF ForgetScaler, RegisterScaler, FetchQuota, KeepQuota
  <2>2. QuotaInv(ns)
    BY <1>2, <1>4, <1>8, <2>1 DEF Words, QuotasInv
  <2>3. \A key : ~Told("quotas", stream'["quotas"], key) => ~Told("quotas", stream["quotas"], key)
    BY <1>2
  <2>4. \A m, x : Known(m, x)' = Known(m, x)
    BY <1>2 DEF Known
  <2>5. CASE ns # n
    <3>1. Scalers'[ns] = Scalers[ns]
      BY <1>3, <1>5, <1>6, <2>5
    <3>2. Quotas'[ns] = Quotas[ns]
      BY <1>1, <1>3, <1>5, <2>5 DEF ForgetScaler, RegisterScaler, FetchQuota, KeepQuota
    <3> QED
      BY <2>2, <2>3, <2>4, <3>1, <3>2 DEF QuotaInv
  <2>6. CASE ns = n /\ ForgetScaler(change)
    <3>1. Scalers'[ns] = Absent /\ Quotas' = Quotas /\ Quotas[ns] = Absent
      BY <1>3, <1>5, <1>8, <2>6 DEF ForgetScaler
    <3> QED
      BY <3>1 DEF QuotaInv
  <2>7. CASE ns = n /\ RegisterScaler(change)
    <3>1. Scalers'[ns] = change.object /\ Scalers'[ns] # Absent
      BY <1>3, <1>5, <2>7, AbsentAssumption DEF RegisterScaler
    <3>2. CASE \E ok \in BOOLEAN : FetchQuota(n, q, ok)
      <4>1. Quotas'[ns] = Known(ns, q)
        BY <1>3, <1>5, <1>8, <2>7, <3>2 DEF FetchQuota
      <4>2. Known(ns, q) # Absent => Known(ns, q).name = q
        BY DEF Known
      <4> QED
        BY <2>4, <3>1, <4>1, <4>2 DEF QuotaInv
    <3>3. CASE KeepQuota(n, q)
      <4>1. Quotas' = Quotas /\ Quotas[ns] # Absent /\ Quotas[ns].name = q
        BY <1>3, <1>8, <2>7, <3>3 DEF KeepQuota
      <4>2. Scalers[ns] # Absent /\ Scalers[ns].quota = q
        BY <2>2, <4>1 DEF QuotaInv
      <4>3. ~Told("quotas", stream'["quotas"], <<ns, q>>) => Quotas[ns] = Known(ns, q)
        BY <2>2, <2>3, <4>2 DEF QuotaInv
      <4> QED
        BY <2>4, <3>1, <4>1, <4>3 DEF QuotaInv
    <3> QED
      BY <2>7, <3>2, <3>3 DEF RegisterScaler
  <2> QED
    BY <1>1, <2>5, <2>6, <2>7
<1> QED
  BY <1>2, <1>7, <1>8 DEF Words, AllTold, QuotasInv

\* A quota that is delivered last is how the cluster has it.
LEMMA QuotaEventWords ==
  ASSUME IInv, QuotaEvent
  PROVE  Words'
<1>1. PICK change \in Delivered("quotas") :
        /\ Consume("quotas")
        /\ \/ /\ Targeted(change) /\ change.type = "Set"
              /\ Quotas' = [Quotas EXCEPT ![change.ns] = change.object]
           \/ /\ Targeted(change) /\ change.type = "Deleted"
              /\ Quotas' = [Quotas EXCEPT ![change.ns] = Absent]
           \/ ~Targeted(change) /\ Quotas' = Quotas
        /\ Scalers' = Scalers /\ uncoupled' = uncoupled
  BY DEF QuotaEvent
<1> DEFINE n == change.ns
           q == change.object.name
<1>2. /\ stage = "running" /\ stage' = "running" /\ change \in Changes("quotas")
      /\ UNCHANGED <<scaler, quota, missed>>
      /\ LastWords'
      /\ \A j \in {"scalers", "quotas"} : \A key :
           ~Told(j, stream'[j], key) =>
             ~Told(j, stream[j], key) \/ (j = "quotas" /\ key = Key("quotas", change))
      /\ ~Told("quotas", stream'["quotas"], Key("quotas", change)) => Reflects("quotas", change)
  BY <1>1, Delivery
<1>3. /\ Key("quotas", change) = <<n, q>> /\ n \in Namespaces /\ q \in QuotaNames
      /\ change.object = [name |-> q, version |-> change.object.version]
  BY <1>2, QuotaKeys
<1>4. TypeOK /\ Words
  BY DEF IInv, Words
<1>5. Quotas \in [Namespaces -> Quota \cup {Absent}]
  BY <1>4 DEF TypeOK
<1>6. ScalersInv'
  BY <1>1, <1>2, <1>4 DEF Words, ScalersInv, Watching
<1>7. ASSUME NEW ns \in Namespaces \ uncoupled
      PROVE  QuotaInv(ns)'
  <2>1. QuotaInv(ns)
    BY <1>2, <1>4, <1>7 DEF Words, QuotasInv
  <2>2. \A m, x : Known(m, x)' = Known(m, x)
    BY <1>2 DEF Known
  <2>3. \A x : ~Told("quotas", stream'["quotas"], <<ns, x>>) =>
                 ~Told("quotas", stream["quotas"], <<ns, x>>) \/ (ns = n /\ x = q)
    BY <1>2, <1>3
  <2>4. CASE Targeted(change) /\ ns = n
    <3>1. Scalers[ns] # Absent /\ Scalers[ns].quota = q
      BY <2>4 DEF Targeted
    <3>2. Quotas'[ns] = IF change.type = "Set" THEN change.object ELSE Absent
      BY <1>1, <1>3, <1>5, <2>4
    <3>3. Quotas'[ns] # Absent => Quotas'[ns].name = q
      BY <1>3, <3>2
    <3>4. ~Told("quotas", stream'["quotas"], <<ns, q>>) => Quotas'[ns] = Known(ns, q)
      BY <1>2, <1>3, <2>4, <3>2 DEF Reflects
    <3> QED
      BY <1>1, <2>2, <3>1, <3>3, <3>4 DEF QuotaInv
  <2>5. CASE ~(Targeted(change) /\ ns = n)
    <3>1. Quotas'[ns] = Quotas[ns]
      BY <1>1, <1>3, <1>5, <2>5
    <3>2. Scalers[ns] # Absent => ~(ns = n /\ Scalers[ns].quota = q)
      BY <2>5 DEF Targeted
    <3> QED
      BY <1>1, <2>1, <2>2, <2>3, <3>1, <3>2 DEF QuotaInv
  <2> QED
    BY <2>4, <2>5
<1> QED
  BY <1>1, <1>2, <1>6, <1>7 DEF Words, AllTold, QuotasInv

-----------------------------------------------------------------------------
(* The theorems. *)

\* Before the process starts no stream has anything to say.
LEMMA InitInv == Init => IInv
<1> SUFFICES ASSUME Init
             PROVE  IInv
  OBVIOUS
<1>1. stage = "start" /\ \A k \in {"scalers", "quotas"} : stream[k] = <<>>
  BY WatchesDistinct DEF Init, NoStreams
<1> QED
  BY <1>1, InitTypes DEF IInv, LastWords, ScalersInv, AllTold, QuotasInv, Watching

\* One step for each action.
LEMMA NextInv == IInv /\ [Next]_vars => IInv'
<1> SUFFICES ASSUME IInv, [Next]_vars
             PROVE  IInv'
  OBVIOUS
<1>1. TypeOK /\ TypeOK' /\ Words
  BY NextTypes DEF IInv, Words
<1> SUFFICES Words'
  BY <1>1 DEF IInv, Words
<1>2. CASE ClusterChanges
  <2>1. PICK k \in Watches : \E change \in Changes(k) : Reported(k, change)
    BY <1>1, <1>2, ClusterChange
  <2> QED
    BY <2>1, ChangesKeepWords, ChangesKeepScalers, ChangesKeepQuotas DEF Words
<1>3. CASE ListScalers
  BY <1>1, <1>3, ListWords
<1>4. CASE Watch
  BY <1>1, <1>4, WatchWords
<1>5. CASE StreamEnds \/ Crash \/ \E ok \in BOOLEAN : StartProcess(ok)
  BY <1>1, <1>5, NotWatching DEF StreamEnds, Crash, StartProcess
<1>6. CASE \E ok \in BOOLEAN : ListQuotas(ok)
  BY <1>6, ListQuotasWords
<1>7. CASE ScalerEvent
  BY <1>7, ScalerEventWords
<1>8. CASE QuotaEvent
  BY <1>8, QuotaEventWords
<1>9. ASSUME NEW r \in Reasons, NamespacedEvent(r)
      PROVE  Words'
  <2>1. PICK change \in Delivered(r) : Consume(r)
    BY <1>9 DEF NamespacedEvent
  <2>2. UNCHANGED <<Scalers, Quotas, uncoupled>>
    BY <1>9 DEF NamespacedEvent
  <2>3. /\ stage' = stage /\ UNCHANGED <<scaler, quota, missed>>
        /\ stream'["scalers"] = stream["scalers"] /\ stream'["quotas"] = stream["quotas"]
    BY <1>1, <2>1, Received, WatchesDistinct
  <2> QED
    BY <1>1, <2>2, <2>3, Unaffected
<1>10. CASE Tick
  BY <1>1, <1>10, Unaffected DEF Tick, cluster
<1>11. ASSUME NEW c \in calls, EvaluationEnds(c)
       PROVE  Words'
  BY <1>1, <1>11, Unaffected DEF EvaluationEnds, cluster, maps, history
<1>12. CASE UNCHANGED vars
  BY <1>1, <1>12, Unaffected DEF vars, cluster, maps, history
<1> QED
  BY <1>2, <1>3, <1>4, <1>5, <1>6, <1>7, <1>8, <1>9, <1>10, <1>11, <1>12 DEF Next, Serve

\* The invariant holds in every behaviour.
LEMMA Invariance == Spec => []IInv
  BY InitInv, NextInv, PTL DEF Spec

\* With nothing more to be delivered about a namespace, the watcher has its scaler,
\* but for one deleted between the List of main and its Watch.
THEOREM WatcherFollowsScalers == Spec => []ScalersFollow
<1>1. IInv => ScalersFollow
  <2> SUFFICES ASSUME IInv, stage = "running", NEW ns \in Namespaces \ missed,
                      ~Pending("scalers", ns)
               PROVE  Scalers[ns] = scaler[ns]
    BY DEF ScalersFollow
  <2>1. ~Told("scalers", stream["scalers"], <<ns>>)
    BY DEF Told, Key, Pending
  <2> QED
    BY <2>1 DEF IInv, ScalersInv, Watching
<1> QED
  BY <1>1, Invariance, PTL

\* With nothing more to be delivered about a namespace, the watcher has the quota
\* that the scaler it knows asks for, whichever of List, Get and watch came last,
\* unless it kept a quota that was known before or a Get failed.
THEOREM WatcherFollowsQuotas == Spec => []QuotasFollow
<1>1. IInv => QuotasFollow
  <2> SUFFICES ASSUME IInv, stage = "running", NEW ns \in Namespaces \ uncoupled,
                      Scalers[ns] # Absent, ~Pending("quotas", ns)
               PROVE  Quotas[ns] = Known(ns, Scalers[ns].quota)
    BY DEF QuotasFollow
  <2>1. ~Told("quotas", stream["quotas"], <<ns, Scalers[ns].quota>>)
    BY DEF Told, Key, Pending
  <2> QED
    BY <2>1 DEF IInv, QuotasInv, QuotaInv
<1> QED
  BY <1>1, Invariance, PTL

\* An evaluation that is started takes its scaler and its quota from the maps as
\* the step leaves them.
LEMMA Started ==
  ASSUME TypeOK, [Next]_vars, NEW c \in calls' \ calls
  PROVE  /\ stage' = "running" /\ c.ns \in Namespaces
         /\ c.scaler = Scalers'[c.ns] /\ c.scaler # Absent
         /\ c.quota = Quotas'[c.ns] /\ c.quota # Absent
<1>1. ASSUME NEW ns \in Namespaces, NEW events, c \in UpdateNs(ns, events), stage' = "running"
      PROVE  /\ stage' = "running" /\ c.ns \in Namespaces
             /\ c.scaler = Scalers'[c.ns] /\ c.scaler # Absent
             /\ c.quota = Quotas'[c.ns] /\ c.quota # Absent
  BY <1>1 DEF UpdateNs
<1>2. CASE ScalerEvent
  <2>1. PICK change \in Delivered("scalers") :
          Consume("scalers") /\ (ForgetScaler(change) \/ RegisterScaler(change))
    BY <1>2 DEF ScalerEvent
  <2>2. stage' = "running" /\ change.ns \in Namespaces
    <3>1. stage = "running" /\ stage' = stage /\ change \in Changes("scalers")
      BY <2>1, Received, WatchesDistinct
    <3> QED
      BY <3>1, ScalerKeys
  <2>3. c \in UpdateNs(change.ns, {})
    BY <2>1 DEF ForgetScaler, RegisterScaler
  <2> QED
    BY <1>1, <2>2, <2>3
<1>3. CASE Tick
  <2>1. PICK ns \in Namespaces : c \in UpdateNs(ns, Events[ns])
    BY <1>3 DEF Tick
  <2>2. stage' = "running"
    BY <1>3 DEF Tick
  <2> QED
    BY <1>1, <2>1, <2>2
<1>4. ASSUME calls' \subseteq calls
      PROVE  FALSE
  BY <1>4
<1>5. CASE ClusterChanges
  BY <1>4, <1>5 DEF ClusterChanges, SetScaler, DeleteScaler, SetQuota, DeleteQuota,
       RefusePod, ExpireEvent, Changed
<1>6. CASE ListScalers \/ Watch \/ StreamEnds \/ Crash
  BY <1>4, <1>6 DEF ListScalers, Watch, StreamEnds, Crash
<1>7. CASE \E ok \in BOOLEAN : StartProcess(ok) \/ ListQuotas(ok)
  BY <1>4, <1>7 DEF StartProcess, ListQuotas
<1>8. CASE QuotaEvent
  BY <1>4, <1>8 DEF QuotaEvent
<1>9. CASE \E r \in Reasons : NamespacedEvent(r)
  BY <1>4, <1>9 DEF NamespacedEvent
<1>10. CASE \E d \in calls : EvaluationEnds(d)
  BY <1>4, <1>10 DEF EvaluationEnds
<1>11. CASE UNCHANGED vars
  BY <1>4, <1>11 DEF vars
<1> QED
  BY <1>2, <1>3, <1>5, <1>6, <1>7, <1>8, <1>9, <1>10, <1>11 DEF Next, Serve

\* What is started measures the scaler against the quota it asks for, unless the
\* watcher kept another or could not get it.
THEOREM EvaluationsStartCoupled == Spec => StartsCoupled
<1> DEFINE A == \A c \in calls' \ calls :
                  c.ns \notin uncoupled' => c.quota.name = c.scaler.quota
<1>1. IInv /\ IInv' /\ [Next]_vars => [A]_vars
  <2> SUFFICES ASSUME IInv, IInv', [Next]_vars,
                      NEW c \in calls' \ calls, c.ns \notin uncoupled'
               PROVE  c.quota.name = c.scaler.quota
    OBVIOUS
  <2>1. /\ stage' = "running" /\ c.ns \in Namespaces
        /\ c.scaler = Scalers'[c.ns] /\ c.scaler # Absent
        /\ c.quota = Quotas'[c.ns] /\ c.quota # Absent
    BY Started DEF IInv
  <2>2. QuotaInv(c.ns)'
    BY <2>1 DEF IInv, QuotasInv
  <2> QED
    BY <2>1, <2>2 DEF QuotaInv
<1> QED
  BY <1>1, Invariance, PTL DEF StartsCoupled, Spec
=============================================================================
