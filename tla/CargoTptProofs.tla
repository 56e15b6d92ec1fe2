--------------------------- MODULE CargoTptProofs ---------------------------
(***************************************************************************)
(* For any number of invocations, files, specifications, builds and edits: *)
(* types, soundness of the cache, soundness of the CI gate, and the        *)
(* implementation of SpecLedger.                                           *)
(***************************************************************************)
EXTENDS CargoTpt, FiniteSetTheorems, TLAPS

\* Dropping the head of a sequence loses no other element of it.
LEMMA TailType ==
  ASSUME NEW S, NEW s \in Seq(S), s # <<>>
  PROVE  /\ Tail(s) \in Seq(S) /\ Head(s) \in S
         /\ \A i \in DOMAIN s : s[i] = Head(s) \/ \E j \in DOMAIN Tail(s) : Tail(s)[j] = s[i]
<1>1. Tail(s) \in Seq(S) /\ Head(s) \in S
  OBVIOUS
<1>2. ASSUME NEW i \in DOMAIN s, s[i] # Head(s)
      PROVE  \E j \in DOMAIN Tail(s) : Tail(s)[j] = s[i]
  <2>1. i \in 1..Len(s) /\ i # 1
    BY <1>2
  <2>2. i - 1 \in DOMAIN Tail(s) /\ Tail(s)[i - 1] = s[i]
    BY <2>1
  <2>3. QED
    BY <2>2
<1>3. QED
  BY <1>1, <1>2

\* What `save` writes is a cache file, whatever is under it.
LEMMA SavedType ==
  /\ NoFile \in Disk
  /\ \A v \in Nat, keys \in SUBSET Key : CacheFile(v, keys) \in Disk
  /\ \A old, new \in Disk : Overlay(old, new) \in Disk
<1>1. \A keys \in SUBSET Key : Cardinality(keys) \in Nat
  BY HashAssumption, FS_Subset, FS_CardinalityType
<1>2. QED
  BY <1>1 DEF NoFile, CacheFile, Overlay, Disk, CACHE_VERSION

\* The initial states have the types.
LEMMA InitTypes == Init => TypeOK
BY SavedType, PathsAssumption, ContentAssumption
   DEF Init, TypeOK, CACHE_VERSION

\* The two assignments every reported specification makes.
LEMMA AttrStep ==
  ASSUME TypeOK, NEW p \in Proc, NEW s, AtAttr(p, s), NextAttr(p)
  PROVE  attrs' \in [Proc -> Seq(Attr)]
<1>1. attrs[p] \in Seq(Attr) /\ attrs[p] # <<>>
  BY DEF TypeOK, AtAttr
<1>2. Tail(attrs[p]) \in Seq(Attr)
  BY <1>1, TailType
<1>3. QED
  BY <1>2 DEF NextAttr, TypeOK

\* A reported result keeps the type of the results.
LEMMA ReportStep ==
  ASSUME TypeOK, NEW p \in Proc, NEW s \in Spec,
         NEW status \in {"ok", "cached", "FAIL"}, Report(p, s, status)
  PROVE  results' \in [Proc -> Seq(Result)]
<1>1. results[p] \in Seq(Result) /\ [spec |-> s, status |-> status] \in Result
  BY DEF TypeOK, Result
<1>2. Append(results[p], [spec |-> s, status |-> status]) \in Seq(Result)
  BY <1>1
<1>3. QED
  BY <1>2 DEF Report, TypeOK

\* Every step keeps the types.
LEMMA NextTypes == TypeOK /\ [Next]_vars => TypeOK'
<1> USE DEF TypeOK, vars, world, args, scan, memo, report, history
<1> SUFFICES ASSUME TypeOK, [Next]_vars PROVE TypeOK'
  OBVIOUS
<1>1. ASSUME NEW p \in Proc, Start(p) PROVE TypeOK'
  BY <1>1, PathsAssumption DEF Start, Enter
<1>2. ASSUME NEW p \in Proc, Kill(p) PROVE TypeOK'
  BY <1>2 DEF Kill, Enter
<1>3. ASSUME NEW p \in Proc, Step(p) PROVE TypeOK'
  <2>1. CASE Collect(p)
    BY <2>1 DEF Collect, Present
  <2>2. CASE CollectFails(p)
    BY <2>2 DEF CollectFails
  <2>3. CASE LoadCache(p)
    BY <2>3 DEF LoadCache, Loaded, Disk
  <2>4. CASE ReadFile(p)
    <3>1. PICK f \in todo[p] :
            /\ todo' = [todo EXCEPT ![p] = @ \ {f}]
            /\ IF src[f].state = "ok"
               THEN attrs' = [attrs EXCEPT ![p] = src[f].specs] /\ UNCHANGED failed
               ELSE failed' = [failed EXCEPT ![p] = @ + 1] /\ UNCHANGED attrs
      BY <2>4 DEF ReadFile
    <3>2. src[f] \in Content
      OBVIOUS
    <3>3. src[f].specs \in Seq(Attr)
      BY <3>2 DEF Content
    <3>4. todo[p] \ {f} \in SUBSET File
      OBVIOUS
    <3>5. todo' \in [Proc -> SUBSET File]
      BY <3>1, <3>4
    <3>6. attrs' \in [Proc -> Seq(Attr)] /\ failed' \in [Proc -> Nat]
      <4>1. CASE src[f].state = "ok"
        BY <3>1, <3>3, <4>1
      <4>2. CASE src[f].state # "ok"
        <5>1. failed[p] + 1 \in Nat
          OBVIOUS
        <5>2. QED
          BY <3>1, <4>2, <5>1
      <4>3. QED
        BY <4>1, <4>2
    <3>7. QED
      BY <3>5, <3>6, <2>4 DEF ReadFile
  <2>5. CASE SkipEmpty(p)
    BY <2>5, AttrStep DEF SkipEmpty
  <2>6. ASSUME NEW s \in Spec, ReportCached(p, s) PROVE TypeOK'
    BY <2>6, AttrStep, ReportStep DEF ReportCached
  <2>7. ASSUME NEW s \in Spec, ReportOk(p, s) PROVE TypeOK'
    <3>1. attrs' \in [Proc -> Seq(Attr)] /\ results' \in [Proc -> Seq(Result)]
      BY <2>7, AttrStep, ReportStep DEF ReportOk
    <3>2. cache' \in [Proc -> SUBSET Key] /\ dirty' \in [Proc -> BOOLEAN]
      <4>1. cache[p] \cup {HashSpec[s]} \in SUBSET Key
        BY HashAssumption
      <4>2. RecordOk(p, s)
        BY <2>7 DEF ReportOk
      <4>3. CASE caching(p)
        BY <4>1, <4>2, <4>3 DEF RecordOk
      <4>4. CASE ~caching(p)
        BY <4>2, <4>4 DEF RecordOk
      <4>5. QED
        BY <4>3, <4>4
    <3>3. QED
      BY <3>1, <3>2, <2>7 DEF ReportOk
  <2>8. ASSUME NEW s \in Spec, ReportFail(p, s) PROVE TypeOK'
    BY <2>8, AttrStep, ReportStep DEF ReportFail
  <2>9. CASE EndScan(p)
    BY <2>9 DEF EndScan
  <2>10. CASE SaveOpen(p)
    BY <2>10, SavedType DEF SaveOpen
  <2>11. CASE SaveWrite(p)
    BY <2>11, SavedType DEF SaveWrite, CACHE_VERSION
  <2>12. CASE SaveFails(p)
    BY <2>12 DEF SaveFails
  <2>13. CASE Exit(p)
    BY <2>13 DEF Exit, ExitStatus
  <2>14. QED
    BY <1>3, <2>1, <2>2, <2>3, <2>4, <2>5, <2>6, <2>7, <2>8, <2>9, <2>10,
       <2>11, <2>12, <2>13 DEF Step
<1>4. ASSUME NEW f \in File, Edit(f) PROVE TypeOK'
  BY <1>4, ContentAssumption DEF Edit
<1>5. CASE Clean
  BY <1>5, SavedType DEF Clean
<1>6. CASE UNCHANGED vars
  BY <1>6
<1>7. QED
  BY <1>1, <1>2, <1>3, <1>4, <1>5, <1>6 DEF Next

\* Types hold in every reachable state.
THEOREM TypeCorrect == Safety => []TypeOK
BY InitTypes, NextTypes, PTL DEF Safety
-----------------------------------------------------------------------------
(* Soundness of the cache. CacheSound is inductive once it is known that   *)
(* only dischargeable specifications are ever discharged.                  *)

LedgerInv == TypeOK /\ CacheSound /\ discharged \subseteq Valid

\* The invariant of the cache holds before any invocation runs.
LEMMA LedgerInit == Init => LedgerInv
<1> SUFFICES ASSUME Init PROVE LedgerInv
  OBVIOUS
<1>1. TypeOK
  BY InitTypes
<1>2. Loaded = {}
  BY DEF Init, Loaded, NoFile, CacheFile, CACHE_VERSION
<1>3. CacheSound
  BY <1>2 DEF Init, CacheSound
<1>4. QED
  BY <1>1, <1>3 DEF LedgerInv, Init

\* Discharging more keeps every remembered key sound.
LEMMA HashesMonotone == \A S, T : S \subseteq T => HashesOf(S) \subseteq HashesOf(T)
BY DEF HashesOf

\* Every step keeps the invariant of the cache.
LEMMA LedgerNext == LedgerInv /\ [Next]_vars => LedgerInv'
<1> USE DEF vars, world, args, scan, memo, report, history
<1> SUFFICES ASSUME LedgerInv, [Next]_vars PROVE LedgerInv'
  OBVIOUS
<1>1. TypeOK /\ CacheSound /\ discharged \subseteq Valid
  BY DEF LedgerInv
<1>2. TypeOK'
  BY <1>1, NextTypes
<1>3. ASSUME UNCHANGED <<disk, cache, discharged>> PROVE CacheSound' /\ discharged' \subseteq Valid
  BY <1>1, <1>3 DEF CacheSound, Loaded
<1>4. ASSUME NEW p \in Proc, Start(p) \/ Kill(p) PROVE CacheSound' /\ discharged' \subseteq Valid
  BY <1>1, <1>4 DEF Start, Kill, Enter, CacheSound, Loaded, TypeOK
<1>5. ASSUME NEW p \in Proc, LoadCache(p) PROVE CacheSound' /\ discharged' \subseteq Valid
  BY <1>1, <1>5 DEF LoadCache, CacheSound, Loaded, TypeOK
<1>6. ASSUME NEW p \in Proc, NEW s \in Spec, ReportOk(p, s)
      PROVE CacheSound' /\ discharged' \subseteq Valid
  <2>1. CASE cmd[p] = "verify"
    <3>1. discharged' = discharged \cup {s} /\ disk' = disk /\ RecordOk(p, s)
      BY <1>6, <2>1 DEF ReportOk
    <3>2. s \in Valid
      BY <1>6, <2>1, <1>1, SolverAssumption DEF ReportOk, Accepts, Valid, TypeOK
    <3>3. HashesOf(discharged) \cup {HashSpec[s]} \subseteq HashesOf(discharged')
      BY <3>1 DEF HashesOf
    <3>4. \A q \in Proc : cache'[q] \subseteq cache[q] \cup {HashSpec[s]}
      BY <3>1, <1>1 DEF RecordOk, TypeOK
    <3>5. QED
      BY <3>1, <3>2, <3>3, <3>4, <1>1 DEF CacheSound, Loaded
  <2>2. CASE cmd[p] # "verify"
    BY <1>3, <1>6, <2>2 DEF ReportOk, RecordOk, caching
  <2>3. QED
    BY <2>1, <2>2
<1>7. ASSUME NEW p \in Proc, SaveOpen(p) \/ Clean PROVE CacheSound' /\ discharged' \subseteq Valid
  BY <1>1, <1>7 DEF SaveOpen, Clean, CacheSound, Loaded, NoFile
<1>8. ASSUME NEW p \in Proc, SaveWrite(p) PROVE CacheSound' /\ discharged' \subseteq Valid
  <2>1. CASE linked[p]
    <3>1. Loaded' \subseteq cache[p]
      BY <1>8, <2>1, <1>1
         DEF SaveWrite, Loaded, Overlay, CacheFile, CACHE_VERSION, TypeOK, Disk
    <3>2. QED
      BY <3>1, <1>8, <1>1 DEF SaveWrite, CacheSound
  <2>2. CASE ~linked[p]
    BY <1>3, <1>8, <2>2 DEF SaveWrite
  <2>3. QED
    BY <2>1, <2>2
<1>9. CacheSound' /\ discharged' \subseteq Valid
  <2>1. ASSUME NEW p \in Proc, Step(p) PROVE CacheSound' /\ discharged' \subseteq Valid
    BY <2>1, <1>3, <1>5, <1>6, <1>7, <1>8
       DEF Step, Collect, CollectFails, ReadFile, SkipEmpty, ReportCached, ReportFail,
           EndScan, SaveFails, Exit
  <2>2. ASSUME NEW f \in File, Edit(f) PROVE CacheSound' /\ discharged' \subseteq Valid
    BY <2>2, <1>3 DEF Edit
  <2>3. CASE Clean
    BY <2>3, <1>1 DEF Clean, CacheSound, Loaded, NoFile
  <2>4. CASE UNCHANGED vars
    BY <2>4, <1>3
  <2>5. QED
    BY <2>1, <2>2, <2>3, <2>4, <1>4 DEF Next
<1>10. QED
  BY <1>2, <1>9 DEF LedgerInv

\* No key is ever believed whose specification was not discharged, whatever is
\* killed, torn, overwritten or left over from another version.
THEOREM CacheIsSound == Safety => []CacheSound
<1>1. Safety => []LedgerInv
  BY LedgerInit, LedgerNext, PTL DEF Safety
<1>2. LedgerInv => CacheSound
  BY DEF LedgerInv
<1>3. QED
  BY <1>1, <1>2, PTL
-----------------------------------------------------------------------------
(* Soundness of the gate. While nothing has failed, every specification of *)
(* a file already taken from the list is accepted or still to be visited.  *)

Settled(p, f) ==
  /\ src[f].state = "ok"
  /\ \A i \in DOMAIN src[f].specs :
       \/ src[f].specs[i] = NoSpec
       \/ src[f].specs[i] \in AcceptedBy(cmd[p])
       \/ \E j \in DOMAIN attrs[p] : attrs[p][j] = src[f].specs[i]

Done(p) == pc[p] \in {"save", "write", "report"} \/ exit[p] = "success"
Clear(p) == stable[p] /\ failed[p] = 0 /\ (pc[p] \in {"load", "scan"} \/ Done(p))

GatePart(p) ==
  /\ Done(p) => todo[p] = {} /\ attrs[p] = <<>>
  /\ exit[p] = "success" => failed[p] = 0
  /\ Clear(p) => \A f \in Present \ todo[p] : Settled(p, f)

GateInv == LedgerInv /\ \A p \in Proc : GatePart(p)

\* The invariant of the gate holds before any invocation runs.
LEMMA GateInit == Init => GateInv
<1> SUFFICES ASSUME Init, NEW p \in Proc PROVE GatePart(p)
  BY LedgerInit DEF GateInv
<1>1. pc[p] = "idle" /\ exit[p] = "none"
  BY DEF Init
<1>2. QED
  BY <1>1 DEF GatePart, Done, Clear

\* A step of one invocation, or of the environment, leaves another one alone.
LEMMA GateFrame ==
  ASSUME NEW q \in Proc, GatePart(q), src' = src,
         pc'[q] = pc[q], exit'[q] = exit[q], todo'[q] = todo[q], attrs'[q] = attrs[q],
         failed'[q] = failed[q], stable'[q] = stable[q], cmd'[q] = cmd[q]
  PROVE  GatePart(q)'
BY DEF GatePart, Done, Clear, Settled, Present

\* Accepting or skipping the attribute at hand settles it.
LEMMA GateAttr ==
  ASSUME GateInv, TypeOK', NEW p \in Proc, NEW s \in Attr, AtAttr(p, s), NextAttr(p),
         s = NoSpec \/ s \in AcceptedBy(cmd[p]) \/ failed'[p] > 0,
         UNCHANGED <<src, pc, cmd, exit, todo, stable>>,
         failed'[p] = failed[p] \/ failed'[p] > 0
  PROVE  GatePart(p)'
<1> USE DEF AtAttr, NextAttr
<1>1. attrs[p] \in Seq(Attr) /\ attrs[p] # <<>> /\ TypeOK /\ GatePart(p)
  BY DEF GateInv, LedgerInv, TypeOK
<1>2. attrs'[p] = Tail(attrs[p])
  BY <1>1 DEF TypeOK
<1>3. pc[p] = "scan" /\ exit[p] = "none"
  BY <1>1 DEF TypeOK
<1>4. ASSUME stable[p], failed'[p] = 0, NEW f \in Present \ todo[p] PROVE Settled(p, f)'
  <2>1. Settled(p, f)
    BY <1>1, <1>3, <1>4 DEF GatePart, Done, Clear
  <2>2. \A j \in DOMAIN attrs[p] :
          attrs[p][j] = s \/ \E k \in DOMAIN attrs'[p] : attrs'[p][k] = attrs[p][j]
    BY <1>1, <1>2, TailType
  <2>3. s = NoSpec \/ s \in AcceptedBy(cmd[p])
    BY <1>4
  <2>4. QED
    BY <2>1, <2>2, <2>3 DEF Settled, AcceptedBy
<1>5. QED
  <2>1. pc'[p] = "scan" /\ exit'[p] = "none"
    BY <1>3
  <2>2. (stable[p] /\ failed[p] = 0)' => \A f \in (Present \ todo[p])' : Settled(p, f)'
    BY <1>4 DEF Present
  <2>3. QED
    BY <2>1, <2>2 DEF GatePart, Done, Clear

\* Every step keeps the invariant of the gate.
LEMMA GateNext == GateInv /\ [Next]_vars => GateInv'
<1> USE DEF vars, world, args, scan, memo, report, history
<1> SUFFICES ASSUME GateInv, [Next]_vars, NEW q \in Proc PROVE GatePart(q)'
  BY LedgerNext DEF GateInv
<1>1. LedgerInv /\ TypeOK /\ GatePart(q)
  BY DEF GateInv, LedgerInv
<1>2. TypeOK' /\ LedgerInv'
  BY <1>1, NextTypes, LedgerNext
<1>3. ASSUME NEW p \in Proc, Start(p) \/ Kill(p) \/ Step(p), p # q PROVE GatePart(q)'
  <2>1. /\ src' = src /\ pc'[q] = pc[q] /\ exit'[q] = exit[q] /\ todo'[q] = todo[q]
        /\ attrs'[q] = attrs[q] /\ failed'[q] = failed[q] /\ stable'[q] = stable[q]
        /\ cmd'[q] = cmd[q]
    <3>1. CASE Start(p) \/ Kill(p)
      BY <3>1, <1>1, <1>3 DEF Start, Kill, Enter, TypeOK
    <3>2. CASE Step(p)
      BY <3>2, <1>1, <1>3
         DEF Step, Collect, CollectFails, LoadCache, ReadFile, SkipEmpty, ReportCached,
             ReportOk, ReportFail, NextAttr, EndScan, SaveOpen, SaveWrite, SaveFails, Exit,
             TypeOK
    <3>3. QED
      BY <1>3, <3>1, <3>2
  <2>2. QED
    BY <2>1, <1>1, GateFrame
<1>4. CASE Start(q) \/ Kill(q)
  BY <1>4, <1>1 DEF Start, Kill, Enter, GatePart, Done, Clear, TypeOK
<1>5. CASE Step(q)
  <2>1. CASE Collect(q)
    BY <2>1, <1>1 DEF Collect, GatePart, Done, Clear, Present, TypeOK
  <2>2. CASE CollectFails(q)
    BY <2>2, <1>1 DEF CollectFails, GatePart, Done, Clear, Present, Settled, TypeOK
  <2>3. CASE LoadCache(q)
    BY <2>3, <1>1 DEF LoadCache, GatePart, Done, Clear, Present, Settled, TypeOK
  <2>4. CASE ReadFile(q)
    <3>1. PICK f \in todo[q] :
            /\ todo' = [todo EXCEPT ![q] = @ \ {f}]
            /\ IF src[f].state = "ok"
               THEN attrs' = [attrs EXCEPT ![q] = src[f].specs] /\ UNCHANGED failed
               ELSE failed' = [failed EXCEPT ![q] = @ + 1] /\ UNCHANGED attrs
      BY <2>4 DEF ReadFile
    <3>2. /\ pc[q] = "scan" /\ exit[q] = "none" /\ attrs[q] = <<>>
          /\ UNCHANGED <<src, pc, cmd, exit, stable>>
      BY <2>4, <1>1 DEF ReadFile, TypeOK
    <3>3. ASSUME stable[q], failed'[q] = 0, NEW g \in Present \ todo'[q]
          PROVE Settled(q, g)'
      <4>1. src[f].state = "ok" /\ attrs'[q] = src[f].specs /\ failed[q] = 0
        <5>1. failed[q] \in Nat
          BY <1>1 DEF TypeOK
        <5>2. src[f].state # "ok" => failed'[q] = failed[q] + 1
          BY <3>1, <1>1 DEF TypeOK
        <5>3. QED
          BY <5>1, <5>2, <3>1, <3>3, <1>1 DEF TypeOK
      <4>2. CASE g = f
        BY <4>1, <4>2, <3>2 DEF Settled
      <4>3. CASE g # f
        <5>1. g \in Present \ todo[q]
          BY <3>1, <3>3, <4>3, <1>1 DEF TypeOK
        <5>2. Settled(q, g)
          BY <5>1, <4>1, <3>2, <3>3, <1>1 DEF GatePart, Done, Clear
        <5>3. QED
          BY <5>2, <3>2 DEF Settled, AcceptedBy
      <4>4. QED
        BY <4>2, <4>3
    <3>4. QED
      <4>1. pc'[q] = "scan" /\ exit'[q] = "none"
        BY <3>2
      <4>2. (stable[q] /\ failed[q] = 0)' => \A g \in (Present \ todo[q])' : Settled(q, g)'
        BY <3>2, <3>3 DEF Present
      <4>3. QED
        BY <4>1, <4>2 DEF GatePart, Done, Clear
  <2>5. CASE SkipEmpty(q)
    BY <2>5, <1>2, GateAttr DEF SkipEmpty, Attr
  <2>6. ASSUME NEW s \in Spec, ReportCached(q, s) PROVE GatePart(q)'
    <3>1. s \in discharged
      BY <2>6, <1>1, HashAssumption
         DEF ReportCached, LedgerInv, CacheSound, HashesOf, TypeOK
    <3>2. s \in AcceptedBy(cmd[q])
      BY <2>6, <3>1, <1>1 DEF ReportCached, caching, AcceptedBy, LedgerInv
    <3>3. QED
      BY <2>6, <3>2, <1>2, GateAttr DEF ReportCached, Attr
  <2>7. ASSUME NEW s \in Spec, ReportOk(q, s) PROVE GatePart(q)'
    <3>1. s \in AcceptedBy(cmd[q])
      BY <2>7, <1>1 DEF ReportOk, Accepts, AcceptedBy, Valid, TypeOK
    <3>2. QED
      BY <2>7, <3>1, <1>2, GateAttr DEF ReportOk, Attr
  <2>8. ASSUME NEW s \in Spec, ReportFail(q, s) PROVE GatePart(q)'
    <3>1. failed'[q] > 0
      BY <2>8, <1>1 DEF ReportFail, TypeOK
    <3>2. QED
      BY <2>8, <3>1, <1>2, GateAttr DEF ReportFail, Attr
  <2>9. CASE EndScan(q)
    BY <2>9, <1>1 DEF EndScan, GatePart, Done, Clear, Present, Settled, TypeOK
  <2>10. CASE SaveOpen(q) \/ SaveWrite(q) \/ SaveFails(q)
    BY <2>10, <1>1 DEF SaveOpen, SaveWrite, SaveFails, GatePart, Done, Clear, Present, Settled, TypeOK
  <2>11. CASE Exit(q)
    BY <2>11, <1>1 DEF Exit, ExitStatus, GatePart, Done, Clear, Present, Settled, TypeOK
  <2>12. QED
    BY <1>5, <2>1, <2>2, <2>3, <2>4, <2>5, <2>6, <2>7, <2>8, <2>9, <2>10, <2>11 DEF Step
<1>6. ASSUME NEW f \in File, Edit(f) PROVE GatePart(q)'
  <2>1. /\ ~stable'[q] /\ pc'[q] = pc[q] /\ exit'[q] = exit[q] /\ todo'[q] = todo[q]
        /\ attrs'[q] = attrs[q] /\ failed'[q] = failed[q]
    BY <1>6 DEF Edit
  <2>2. QED
    BY <2>1, <1>1 DEF GatePart, Done, Clear
<1>7. CASE Clean \/ UNCHANGED vars
  BY <1>7, <1>1, GateFrame DEF Clean
<1>8. QED
  BY <1>3, <1>4, <1>5, <1>6, <1>7 DEF Next

\* A zero exit status over untouched sources: every file was read, and every
\* specification in it is accepted.
THEOREM GateIsSound == Safety => []GateSound
<1>1. Safety => []GateInv
  BY GateInit, GateNext, PTL DEF Safety
<1>2. GateInv => GateSound
  <2> SUFFICES ASSUME GateInv, NEW p \in Proc, exit[p] = "success", stable[p],
                      NEW f \in Present
               PROVE  src[f].state = "ok" /\ SpecsOf(f) \ {NoSpec} \subseteq AcceptedBy(cmd[p])
    BY DEF GateSound
  <2>1. Settled(p, f) /\ attrs[p] = <<>>
    BY DEF GateInv, GatePart, Done, Clear
  <2>2. QED
    BY <2>1 DEF Settled, SpecsOf
<1>3. QED
  BY <1>1, <1>2, PTL
-----------------------------------------------------------------------------
(* The tool implements SpecLedger.                                         *)

Claimed == [p \in Proc |-> Claims(p)]
RefusedBy(p) == failed[p] > 0 \/ exit[p] = "failure"
Refused == [p \in Proc |-> RefusedBy(p)]

\* Changing the verdict of one invocation changes the abstract verdicts at that
\* place only.
LEMMA RefusedUpdate ==
  ASSUME NEW p \in Proc, NEW b \in BOOLEAN, RefusedBy(p)' = b,
         \A q \in Proc : q # p => RefusedBy(q)' = RefusedBy(q)
  PROVE  Refused' = [Refused EXCEPT ![p] = b]
<1>1. Refused' = [q \in Proc |-> RefusedBy(q)']
  BY DEF Refused
<1>2. \A q \in Proc : RefusedBy(q)' = [Refused EXCEPT ![p] = b][q]
  BY DEF Refused
<1>3. QED
  BY <1>1, <1>2 DEF Refused

\* A result appended to the report adds its specification to the claims of a
\* verification run, unless the status is FAIL.
LEMMA ClaimsAppend ==
  ASSUME TypeOK, NEW p \in Proc, NEW s \in Spec, NEW status \in {"ok", "cached", "FAIL"},
         Report(p, s, status), UNCHANGED cmd
  PROVE  Claimed' = IF cmd[p] = "verify" /\ status # "FAIL"
                    THEN [Claimed EXCEPT ![p] = @ \cup {s}] ELSE Claimed
<1> DEFINE new == [spec |-> s, status |-> status]
           old == results[p]
<1>1. old \in Seq(Result) /\ new \in Result
  BY DEF TypeOK, Result
<1>2. results'[p] = Append(old, new) /\ \A q \in Proc : q # p => results'[q] = results[q]
  BY DEF Report, TypeOK
<1>3. \A q \in Proc : q # p => Claims(q)' = Claims(q)
  BY <1>2 DEF Claims
<1>4. /\ DOMAIN Append(old, new) = 1..(Len(old) + 1)
      /\ \A i \in 1..Len(old) : Append(old, new)[i] = old[i]
      /\ Append(old, new)[Len(old) + 1] = new
      /\ DOMAIN old = 1..Len(old) /\ Len(old) \in Nat
  BY <1>1
<1>5. CASE cmd[p] = "verify"
  <2>1. Claims(p)' = {results'[p][i].spec : i \in {j \in DOMAIN results'[p] : results'[p][j].status # "FAIL"}}
    BY <1>5 DEF Claims
  <2>2. Claims(p) = {old[i].spec : i \in {j \in DOMAIN old : old[j].status # "FAIL"}}
    BY <1>5 DEF Claims
  <2>3. new.spec = s /\ new.status = status
    OBVIOUS
  <2> HIDE DEF new, old
  <2>4. CASE status = "FAIL"
    <3>1. Claims(p)' = Claims(p)
      BY <2>1, <2>2, <2>3, <2>4, <1>2, <1>4
    <3>2. QED
      BY <3>1, <1>3, <2>4 DEF Claimed
  <2>5. CASE status # "FAIL"
    <3>1. Claims(p)' = Claims(p) \cup {s}
      BY <2>1, <2>2, <2>3, <2>5, <1>2, <1>4
    <3>2. QED
      BY <3>1, <1>3, <1>5, <2>5 DEF Claimed
  <2>6. QED
    BY <2>4, <2>5
<1>6. CASE cmd[p] # "verify"
  BY <1>3, <1>6 DEF Claimed, Claims
<1>7. QED
  BY <1>5, <1>6

\* Initial states map to initial states of the ledger.
LEMMA LedgerStart == Init => Ledger!LInit
<1> SUFFICES ASSUME Init PROVE Ledger!LInit
  OBVIOUS
<1>1. \A p \in Proc : Claims(p) = {}
  BY DEF Init, Claims
<1>2. Claimed = [p \in Proc |-> {}] /\ Refused = [p \in Proc |-> FALSE]
  <2>1. \A p \in Proc : RefusedBy(p) = FALSE
    BY DEF Init, RefusedBy
  <2>2. QED
    BY <1>1, <2>1 DEF Claimed, Refused
<1>3. QED
  BY <1>2 DEF Init, Ledger!LInit, Claimed, Refused, RefusedBy

\* Every step of the tool is a step of the ledger, or changes nothing in it.
LEMMA LedgerStep == LedgerInv /\ [Next]_vars => [Ledger!LNext]_(Ledger!ledger)
<1> USE DEF vars, world, args, scan, memo, report, history
<1> SUFFICES ASSUME LedgerInv, [Next]_vars
             PROVE  Ledger!LNext \/ UNCHANGED <<discharged, Claimed, Refused, exit>>
  BY DEF Ledger!ledger, Claimed, Refused, RefusedBy
<1>1. TypeOK /\ CacheSound /\ discharged \subseteq Valid
  BY DEF LedgerInv
<1>2. ASSUME UNCHANGED <<discharged, cmd, results, failed, exit>>
      PROVE  UNCHANGED <<discharged, Claimed, Refused, exit>>
  BY <1>2 DEF Claimed, Claims, Refused, RefusedBy
<1>3. ASSUME NEW p \in Proc, Start(p) \/ Kill(p) PROVE Ledger!LNext
  <2>1. /\ UNCHANGED discharged /\ exit' = [exit EXCEPT ![p] = "none"]
        /\ results' = [results EXCEPT ![p] = <<>>] /\ failed' = [failed EXCEPT ![p] = 0]
        /\ \A q \in Proc : q # p => cmd'[q] = cmd[q]
    BY <1>1, <1>3 DEF Start, Kill, Enter, TypeOK
  <2>2. Claims(p)' = {} /\ \A q \in Proc : q # p => Claims(q)' = Claims(q)
    BY <2>1, <1>1 DEF Claims, TypeOK
  <2>3. Claimed' = [Claimed EXCEPT ![p] = {}]
    BY <2>2 DEF Claimed
  <2>4. Refused' = [Refused EXCEPT ![p] = FALSE]
    <3>1. RefusedBy(p)' = FALSE /\ \A q \in Proc : q # p => RefusedBy(q)' = RefusedBy(q)
      BY <2>1, <1>1 DEF RefusedBy, TypeOK
    <3>2. QED
      BY <3>1, RefusedUpdate
  <2>5. Ledger!Begin(p)
    BY <2>1, <2>3, <2>4 DEF Ledger!Begin, Claimed, Refused, RefusedBy
  <2>6. QED
    BY <2>5 DEF Ledger!LNext
<1>4. ASSUME NEW p \in Proc, CollectFails(p) PROVE Ledger!LNext
  <2>1. Claimed' = Claimed /\ exit[p] = "none" /\ exit' = [exit EXCEPT ![p] = "failure"]
    BY <1>1, <1>4 DEF CollectFails, Claimed, Claims, TypeOK
  <2>2. Refused' = [Refused EXCEPT ![p] = TRUE]
    <3>1. RefusedBy(p)' = TRUE /\ \A q \in Proc : q # p => RefusedBy(q)' = RefusedBy(q)
      BY <1>1, <1>4 DEF CollectFails, RefusedBy, TypeOK
    <3>2. QED
      BY <3>1, RefusedUpdate
  <2>3. Ledger!Abort(p)
    BY <1>4, <2>1, <2>2 DEF CollectFails, Ledger!Abort, Claimed, Refused, RefusedBy
  <2>4. QED
    BY <2>3 DEF Ledger!LNext
<1>5. ASSUME NEW p \in Proc, UNCHANGED <<discharged, exit>>, exit[p] = "none",
             Claimed' = Claimed, failed' = [failed EXCEPT ![p] = @ + 1]
      PROVE  Ledger!LNext
  <2>1. Refused' = [Refused EXCEPT ![p] = TRUE]
    <3>1. RefusedBy(p)' = TRUE /\ \A q \in Proc : q # p => RefusedBy(q)' = RefusedBy(q)
      BY <1>1, <1>5 DEF RefusedBy, TypeOK
    <3>2. QED
      BY <3>1, RefusedUpdate
  <2>2. Ledger!Refuse(p)
    BY <1>5, <2>1 DEF Ledger!Refuse, Claimed, Refused, RefusedBy
  <2>3. QED
    BY <2>2 DEF Ledger!LNext
<1>6. ASSUME NEW p \in Proc, ReadFile(p)
      PROVE  Ledger!LNext \/ UNCHANGED <<discharged, Claimed, Refused, exit>>
  <2>1. UNCHANGED <<discharged, cmd, results, exit>> /\ exit[p] = "none"
    BY <1>1, <1>6 DEF ReadFile, TypeOK
  <2>2. failed' = failed \/ failed' = [failed EXCEPT ![p] = @ + 1]
    BY <1>6 DEF ReadFile
  <2>3. Claimed' = Claimed
    BY <2>1 DEF Claimed, Claims
  <2>4. QED
    BY <1>2, <1>5, <2>1, <2>2, <2>3
<1>7. ASSUME NEW p \in Proc, NEW s \in Spec, ReportCached(p, s) PROVE Ledger!LNext
  <2>1. /\ UNCHANGED <<discharged, cmd, failed, exit>> /\ exit[p] = "none"
        /\ cmd[p] = "verify" /\ Report(p, s, "cached")
    BY <1>1, <1>7 DEF ReportCached, AtAttr, caching, TypeOK
  <2>2. s \in discharged
    BY <1>1, <1>7, HashAssumption DEF ReportCached, CacheSound, HashesOf, TypeOK
  <2>3. Claimed' = [Claimed EXCEPT ![p] = @ \cup {s}]
    BY <1>1, <2>1, ClaimsAppend
  <2>4. Refused' = Refused
    BY <2>1 DEF Refused, RefusedBy
  <2>5. Ledger!Recall(p, s)
    BY <2>1, <2>2, <2>3, <2>4 DEF Ledger!Recall, Claimed, Refused, RefusedBy
  <2>6. QED
    BY <2>5 DEF Ledger!LNext
<1>8. ASSUME NEW p \in Proc, NEW s \in Spec, ReportOk(p, s)
      PROVE  Ledger!LNext \/ UNCHANGED <<discharged, Claimed, Refused, exit>>
  <2>1. UNCHANGED <<cmd, failed, exit>> /\ exit[p] = "none" /\ Report(p, s, "ok")
    BY <1>1, <1>8 DEF ReportOk, AtAttr, TypeOK
  <2>2. Refused' = Refused
    BY <2>1 DEF Refused, RefusedBy
  <2>3. CASE cmd[p] = "verify"
    <3>1. discharged' = discharged \cup {s} /\ s \in Valid
      BY <1>1, <1>8, <2>3 DEF ReportOk, Accepts, Valid, TypeOK
    <3>2. Claimed' = [Claimed EXCEPT ![p] = @ \cup {s}]
      BY <1>1, <2>1, <2>3, ClaimsAppend
    <3>3. Ledger!Establish(p, s)
      BY <2>1, <2>2, <3>1, <3>2 DEF Ledger!Establish, Claimed, Refused, RefusedBy
    <3>4. QED
      BY <3>3 DEF Ledger!LNext
  <2>4. CASE cmd[p] # "verify"
    BY <1>1, <1>8, <2>1, <2>2, <2>4, ClaimsAppend DEF ReportOk
  <2>5. QED
    BY <2>3, <2>4
<1>9. ASSUME NEW p \in Proc, NEW s \in Spec, ReportFail(p, s) PROVE Ledger!LNext
  <2>1. /\ UNCHANGED <<discharged, cmd, exit>> /\ exit[p] = "none" /\ Report(p, s, "FAIL")
        /\ failed' = [failed EXCEPT ![p] = @ + 1]
    BY <1>1, <1>9 DEF ReportFail, AtAttr, TypeOK
  <2>2. Claimed' = Claimed
    BY <1>1, <2>1, ClaimsAppend
  <2>3. QED
    BY <1>5, <2>1, <2>2
<1>10. ASSUME NEW p \in Proc, Exit(p) PROVE Ledger!LNext
  <2>1. Claimed' = Claimed /\ exit[p] = "none" /\ UNCHANGED <<discharged, failed>>
    BY <1>1, <1>10 DEF Exit, Claimed, Claims, TypeOK
  <2>2. Refused[p] <=> failed[p] # 0
    <3>1. RefusedBy(p) <=> failed[p] # 0
      BY <1>1, <2>1 DEF RefusedBy, TypeOK
    <3>2. Refused[p] = RefusedBy(p)
      BY DEF Refused
    <3>3. QED
      BY <3>1, <3>2
  <2>3. exit' = [exit EXCEPT ![p] = IF Refused[p] THEN "failure" ELSE "success"]
    <3>1. exit' = [exit EXCEPT ![p] = IF failed[p] = 0 THEN "success" ELSE "failure"]
      BY <1>10 DEF Exit, ExitStatus
    <3>2. CASE failed[p] = 0
      BY <3>1, <3>2, <2>2
    <3>3. CASE failed[p] # 0
      BY <3>1, <3>3, <2>2
    <3>4. QED
      BY <3>2, <3>3
  <2>4. Refused' = Refused
    <3>1. \A q \in Proc : RefusedBy(q)' <=> RefusedBy(q)
      BY <1>1, <1>10, <2>1 DEF Exit, ExitStatus, RefusedBy, TypeOK
    <3>2. \A q \in Proc : RefusedBy(q)' \in BOOLEAN /\ RefusedBy(q) \in BOOLEAN
      BY DEF RefusedBy
    <3>3. QED
      BY <3>1, <3>2 DEF Refused
  <2>5. Ledger!Decide(p)
    BY <2>1, <2>3, <2>4 DEF Ledger!Decide, Claimed, Refused, RefusedBy
  <2>6. QED
    BY <2>5 DEF Ledger!LNext
<1>11. ASSUME NEW p \in Proc, Step(p)
       PROVE  Ledger!LNext \/ UNCHANGED <<discharged, Claimed, Refused, exit>>
  <2>1. CASE \/ Collect(p) \/ LoadCache(p) \/ SkipEmpty(p) \/ EndScan(p) \/ SaveOpen(p)
             \/ SaveWrite(p) \/ SaveFails(p)
    BY <2>1, <1>2
       DEF Collect, LoadCache, SkipEmpty, EndScan, SaveOpen, SaveWrite, SaveFails
  <2>2. QED
    BY <1>11, <2>1, <1>4, <1>6, <1>7, <1>8, <1>9, <1>10 DEF Step
<1>12. ASSUME NEW f \in File, Edit(f) PROVE UNCHANGED <<discharged, Claimed, Refused, exit>>
  BY <1>12, <1>2 DEF Edit
<1>13. CASE Clean \/ UNCHANGED vars
  BY <1>13, <1>2 DEF Clean
<1>14. QED
  BY <1>3, <1>11, <1>12, <1>13 DEF Next

\* The tool implements the ledger: a run claims a specification only if some
\* run discharged it, and exits with success only if it refused nothing.
THEOREM ToolImplementsLedger == Safety => LedgerSpec
<1>1. Safety => []LedgerInv
  BY LedgerInit, LedgerNext, PTL DEF Safety
<1>2. QED
  BY <1>1, LedgerStart, LedgerStep, PTL DEF Safety, LedgerSpec, Ledger!LSpec
-----------------------------------------------------------------------------
(* A run agrees with itself, and its failures have causes.                 *)

\* What passed in a run that caches is in its memory, hence not tried again.
Agrees(p) ==
  \A i \in DOMAIN results[p], j \in DOMAIN results[p] :
    (i < j /\ results[p][i].spec = results[p][j].spec /\ results[p][i].status # "FAIL")
      => results[p][j].status = "cached"
AgreePart(p) ==
  /\ pc[p] \in {"collect", "load"} => results[p] = <<>>
  /\ caching(p) =>
       /\ \A i \in DOMAIN results[p] :
            results[p][i].status # "FAIL" => HashSpec[results[p][i].spec] \in cache[p]
       /\ Agrees(p)

\* Nothing is on the list of a run that the untouched sources do not hold.
Cause(p, f) == src[f].state # "ok" \/ \E s \in SpecsOf(f) \ {NoSpec} : MayReject(p, s)
CausePart(p) ==
  stable[p] =>
    /\ todo[p] \subseteq Present
    /\ \A i \in DOMAIN attrs[p] : \E f \in Present : attrs[p][i] \in SpecsOf(f)
    /\ failed[p] > 0 => \E f \in Present : Cause(p, f)

RunInv == TypeOK /\ \A p \in Proc : AgreePart(p) /\ CausePart(p)

\* No invocation has done anything yet.
LEMMA RunInit == Init => RunInv
BY InitTypes DEF Init, RunInv, AgreePart, CausePart, Agrees

\* A step of one invocation, or of the environment, leaves another one alone.
LEMMA RunFrame ==
  ASSUME NEW q \in Proc, AgreePart(q), CausePart(q),
         pc'[q] = pc[q], cmd'[q] = cmd[q], noCache'[q] = noCache[q], build'[q] = build[q],
         todo'[q] = todo[q], attrs'[q] = attrs[q], cache'[q] = cache[q],
         failed'[q] = failed[q], results'[q] = results[q],
         stable'[q] => stable[q] /\ src' = src
  PROVE  AgreePart(q)' /\ CausePart(q)'
<1>1. AgreePart(q)'
  BY DEF AgreePart, Agrees, caching
<1>2. CausePart(q)'
  BY DEF CausePart, Cause, Present, SpecsOf, MayReject, Accepts
<1>3. QED
  BY <1>1, <1>2

\* The report after one more result.
LEMMA AppendResult ==
  ASSUME TypeOK, NEW p \in Proc, NEW s \in Spec, NEW status \in {"ok", "cached", "FAIL"},
         Report(p, s, status)
  PROVE  /\ DOMAIN results'[p] = 1..(Len(results[p]) + 1) /\ DOMAIN results[p] = 1..Len(results[p])
         /\ Len(results[p]) \in Nat
         /\ \A i \in DOMAIN results[p] : results'[p][i] = results[p][i]
         /\ results'[p][Len(results[p]) + 1].spec = s
         /\ results'[p][Len(results[p]) + 1].status = status
         /\ \A i \in DOMAIN results[p] : results[p][i].spec \in Spec
<1> DEFINE new == [spec |-> s, status |-> status]
           old == results[p]
<1>1. old \in Seq(Result) /\ new \in Result
  BY DEF TypeOK, Result
<1>2. results'[p] = Append(old, new)
  BY DEF Report, TypeOK
<1>3. new.spec = s /\ new.status = status
  OBVIOUS
<1>4. \A i \in DOMAIN old : old[i].spec \in Spec
  <2>1. \A i \in DOMAIN old : old[i] \in Result
    BY <1>1
  <2>2. \A r \in Result : r.spec \in Spec
    BY DEF Result
  <2>3. QED
    BY <2>1, <2>2
<1>5. QED
  BY <1>1, <1>2, <1>3, <1>4

\* One more result keeps a run in agreement with itself if what passes is in
\* memory, and what is in memory is answered from it.
LEMMA ReportAgrees ==
  ASSUME TypeOK, NEW p \in Proc, NEW s \in Spec, NEW status \in {"ok", "cached", "FAIL"},
         AgreePart(p), Report(p, s, status), pc[p] = "scan", pc' = pc, UNCHANGED args,
         caching(p) => cache[p] \subseteq cache'[p],
         caching(p) /\ status # "FAIL" => HashSpec[s] \in cache'[p],
         caching(p) /\ HashSpec[s] \in cache[p] => status = "cached"
  PROVE  AgreePart(p)'
<1> DEFINE n == Len(results[p]) + 1
<1>1. /\ DOMAIN results'[p] = 1..n /\ DOMAIN results[p] = 1..(n - 1) /\ n \in Nat
      /\ \A i \in 1..(n - 1) : results'[p][i] = results[p][i]
      /\ results'[p][n].spec = s /\ results'[p][n].status = status
  BY AppendResult
<1>2. caching(p)' = caching(p)
  BY DEF caching, args
<1> HIDE DEF n
<1>3. ASSUME caching(p), NEW i \in 1..n, results'[p][i].status # "FAIL"
      PROVE  HashSpec[results'[p][i].spec] \in cache'[p]
  <2>1. CASE i = n
    BY <1>1, <1>3, <2>1
  <2>2. CASE i # n
    BY <1>1, <1>3, <2>2 DEF AgreePart
  <2>3. QED
    BY <2>1, <2>2
<1>4. ASSUME caching(p), NEW i \in 1..n, NEW j \in 1..n, i < j,
             results'[p][i].spec = results'[p][j].spec, results'[p][i].status # "FAIL"
      PROVE  results'[p][j].status = "cached"
  <2>1. i \in 1..(n - 1) /\ results'[p][i] = results[p][i]
    BY <1>1, <1>4
  <2>2. HashSpec[results[p][i].spec] \in cache[p]
    BY <1>1, <1>4, <2>1 DEF AgreePart
  <2>3. CASE j = n
    BY <1>1, <1>4, <2>1, <2>2, <2>3
  <2>4. CASE j # n
    <3>1. j \in DOMAIN results[p] /\ results'[p][j] = results[p][j]
      BY <1>1, <2>4
    <3>2. QED
      BY <1>1, <1>4, <2>1, <3>1 DEF AgreePart, Agrees
  <2>5. QED
    BY <2>3, <2>4
<1>5. pc'[p] = "scan"
  OBVIOUS
<1>6. QED
  BY <1>1, <1>2, <1>3, <1>4, <1>5 DEF AgreePart, Agrees

\* Taking the attribute at hand: the others still come from the sources.
LEMMA AttrCause ==
  ASSUME TypeOK, NEW p \in Proc, NEW s, AtAttr(p, s), NextAttr(p), CausePart(p),
         UNCHANGED <<src, args, todo, stable>>,
         \/ failed'[p] = failed[p]
         \/ s \in Spec /\ MayReject(p, s)
  PROVE  CausePart(p)'
<1>1. attrs[p] \in Seq(Attr) /\ attrs[p] # <<>> /\ s = Head(attrs[p]) /\ attrs'[p] = Tail(attrs[p])
  BY DEF TypeOK, AtAttr, NextAttr
<1>2. /\ \A i \in DOMAIN attrs'[p] : \E j \in DOMAIN attrs[p] : attrs'[p][i] = attrs[p][j]
      /\ \E j \in DOMAIN attrs[p] : s = attrs[p][j]
  <2>1. DOMAIN attrs[p] = 1..Len(attrs[p]) /\ Len(attrs[p]) \in Nat \ {0} /\ s = attrs[p][1]
    BY <1>1
  <2>2. DOMAIN attrs'[p] = 1..(Len(attrs[p]) - 1) /\ \A i \in DOMAIN attrs'[p] : attrs'[p][i] = attrs[p][i + 1]
    BY <1>1
  <2>3. \A i \in DOMAIN attrs'[p] : i + 1 \in DOMAIN attrs[p]
    BY <2>1, <2>2
  <2>4. 1 \in DOMAIN attrs[p]
    BY <2>1
  <2>5. QED
    BY <2>1, <2>2, <2>3, <2>4
<1>3. ASSUME stable[p] PROVE \A i \in DOMAIN attrs'[p] : \E f \in Present : attrs'[p][i] \in SpecsOf(f)
  BY <1>2, <1>3 DEF CausePart
<1>4. ASSUME stable[p], s \in Spec, MayReject(p, s) PROVE \E f \in Present : Cause(p, f)
  <2>1. PICK f \in Present : s \in SpecsOf(f)
    BY <1>2, <1>4 DEF CausePart
  <2>2. s \in SpecsOf(f) \ {NoSpec}
    BY <1>4, <2>1, SolverAssumption
  <2>3. QED
    BY <1>4, <2>2 DEF Cause
<1>5. ASSUME NEW f PROVE Cause(p, f)' = Cause(p, f) /\ SpecsOf(f)' = SpecsOf(f)
  BY DEF Cause, SpecsOf, MayReject, Accepts, args
<1>6. Present' = Present
  BY DEF Present
<1>7. QED
  BY <1>3, <1>4, <1>5, <1>6 DEF CausePart

\* Every step of an invocation keeps its own part of the invariant.
LEMMA RunStep ==
  ASSUME RunInv, NEW q \in Proc, Step(q)
  PROVE  AgreePart(q)' /\ CausePart(q)'
<1> USE DEF world, scan, memo, report, history
<1>1. TypeOK /\ AgreePart(q) /\ CausePart(q)
  BY DEF RunInv
<1>2. CASE Collect(q)
  <2>1. AgreePart(q)'
    BY <1>1, <1>2 DEF Collect, AgreePart, Agrees, caching, args, TypeOK
  <2>2. todo'[q] = Present /\ attrs'[q] = attrs[q] /\ failed'[q] = failed[q] /\ stable' = stable
        /\ src' = src /\ UNCHANGED args
    BY <1>1, <1>2 DEF Collect, TypeOK
  <2>3. CausePart(q)'
    BY <1>1, <2>2 DEF CausePart, Cause, Present, SpecsOf, MayReject, Accepts, args
  <2>4. QED
    BY <2>1, <2>3
<1>3. CASE LoadCache(q)
  <2>1. AgreePart(q)'
    BY <1>1, <1>3 DEF LoadCache, AgreePart, Agrees, caching, args, TypeOK
  <2>2. CausePart(q)'
    BY <1>1, <1>3 DEF LoadCache, CausePart, Cause, Present, SpecsOf, MayReject, Accepts, args
  <2>3. QED
    BY <2>1, <2>2
<1>4. CASE ReadFile(q)
  <2>1. AgreePart(q)'
    BY <1>1, <1>4 DEF ReadFile, AgreePart, Agrees, caching, args, TypeOK
  <2>2. PICK f \in todo[q] :
          /\ todo' = [todo EXCEPT ![q] = @ \ {f}]
          /\ IF src[f].state = "ok"
             THEN attrs' = [attrs EXCEPT ![q] = src[f].specs] /\ UNCHANGED failed
             ELSE failed' = [failed EXCEPT ![q] = @ + 1] /\ UNCHANGED attrs
    BY <1>4 DEF ReadFile
  <2>3. UNCHANGED <<src, stable>> /\ UNCHANGED args
    BY <1>4 DEF ReadFile
  <2>4. /\ Present' = Present /\ todo'[q] \subseteq todo[q]
        /\ \A g : Cause(q, g)' = Cause(q, g) /\ SpecsOf(g)' = SpecsOf(g)
    BY <1>1, <2>2, <2>3 DEF Cause, Present, SpecsOf, MayReject, Accepts, args, TypeOK
  <2>5. ASSUME stable[q], NEW i \in DOMAIN attrs'[q] PROVE \E g \in Present : attrs'[q][i] \in SpecsOf(g)
    <3>1. CASE src[f].state = "ok"
      <4>1. f \in Present /\ attrs'[q] = src[f].specs
        BY <1>1, <2>2, <2>5, <3>1 DEF CausePart, TypeOK
      <4>2. QED
        BY <2>5, <4>1 DEF SpecsOf
    <3>2. CASE src[f].state # "ok"
      BY <1>1, <2>2, <2>5, <3>2 DEF CausePart
    <3>3. QED
      BY <3>1, <3>2
  <2>6. ASSUME stable[q], failed'[q] > 0 PROVE \E g \in Present : Cause(q, g)
    <3>1. CASE src[f].state = "ok"
      BY <1>1, <2>2, <2>6, <3>1 DEF CausePart
    <3>2. CASE src[f].state # "ok"
      BY <1>1, <2>2, <2>6, <3>2 DEF CausePart, Cause
    <3>3. QED
      BY <3>1, <3>2
  <2>7. CausePart(q)'
    BY <1>1, <2>3, <2>4, <2>5, <2>6 DEF CausePart
  <2>8. QED
    BY <2>1, <2>7
<1>5. CASE SkipEmpty(q)
  <2>1. AgreePart(q)'
    BY <1>1, <1>5 DEF SkipEmpty, AgreePart, Agrees, caching, args
  <2>2. CausePart(q)'
    BY <1>1, <1>5, AttrCause DEF SkipEmpty
  <2>3. QED
    BY <2>1, <2>2
<1>6. ASSUME NEW s \in Spec, ReportCached(q, s) PROVE AgreePart(q)' /\ CausePart(q)'
  <2>1. AgreePart(q)'
    BY <1>1, <1>6, ReportAgrees DEF ReportCached, AtAttr
  <2>2. CausePart(q)'
    BY <1>1, <1>6, AttrCause DEF ReportCached
  <2>3. QED
    BY <2>1, <2>2
<1>7. ASSUME NEW s \in Spec, ReportOk(q, s) PROVE AgreePart(q)' /\ CausePart(q)'
  <2>1. caching(q) => cache'[q] = cache[q] \cup {HashSpec[s]}
    BY <1>1, <1>7 DEF ReportOk, RecordOk, TypeOK
  <2>2. AgreePart(q)'
    BY <1>1, <1>7, <2>1, ReportAgrees DEF ReportOk, AtAttr, Miss
  <2>3. CausePart(q)'
    BY <1>1, <1>7, AttrCause DEF ReportOk
  <2>4. QED
    BY <2>2, <2>3
<1>8. ASSUME NEW s \in Spec, ReportFail(q, s) PROVE AgreePart(q)' /\ CausePart(q)'
  <2>1. AgreePart(q)'
    BY <1>1, <1>8, ReportAgrees DEF ReportFail, AtAttr, Miss
  <2>2. CausePart(q)'
    BY <1>1, <1>8, AttrCause DEF ReportFail
  <2>3. QED
    BY <2>1, <2>2
<1>9. CASE \/ CollectFails(q) \/ EndScan(q) \/ SaveOpen(q) \/ SaveWrite(q) \/ SaveFails(q) \/ Exit(q)
  <2>1. UNCHANGED <<src, args, scan, cache, report, stable>> /\ pc'[q] \notin {"collect", "load"}
    BY <1>1, <1>9 DEF CollectFails, EndScan, SaveOpen, SaveWrite, SaveFails, Exit, TypeOK
  <2>2. AgreePart(q)'
    BY <1>1, <2>1 DEF AgreePart, Agrees, caching, args
  <2>3. CausePart(q)'
    BY <1>1, <2>1 DEF CausePart, Cause, Present, SpecsOf, MayReject, Accepts, args
  <2>4. QED
    BY <2>2, <2>3
<1>10. QED
  BY <1>2, <1>3, <1>4, <1>5, <1>6, <1>7, <1>8, <1>9 DEF Step

\* Every step keeps the invariant of all invocations.
LEMMA RunNext == RunInv /\ [Next]_vars => RunInv'
<1> USE DEF vars, world, scan, memo, report, history
<1> SUFFICES ASSUME RunInv, [Next]_vars, NEW q \in Proc PROVE AgreePart(q)' /\ CausePart(q)'
  BY NextTypes DEF RunInv
<1>1. TypeOK /\ AgreePart(q) /\ CausePart(q)
  BY DEF RunInv
<1>2. ASSUME NEW p \in Proc, Start(p) \/ Kill(p) \/ Step(p), p # q PROVE AgreePart(q)' /\ CausePart(q)'
  <2>1. /\ src' = src /\ pc'[q] = pc[q] /\ cmd'[q] = cmd[q] /\ noCache'[q] = noCache[q]
        /\ build'[q] = build[q] /\ todo'[q] = todo[q] /\ attrs'[q] = attrs[q] /\ cache'[q] = cache[q]
        /\ failed'[q] = failed[q] /\ results'[q] = results[q] /\ stable'[q] = stable[q]
    <3>1. CASE Start(p) \/ Kill(p)
      BY <3>1, <1>1, <1>2 DEF Start, Kill, Enter, TypeOK
    <3>2. CASE Step(p)
      BY <3>2, <1>1, <1>2
         DEF Step, Collect, CollectFails, LoadCache, ReadFile, SkipEmpty, ReportCached,
             ReportOk, ReportFail, Report, RecordOk, NextAttr, EndScan, SaveOpen, SaveWrite,
             SaveFails, Exit, args, TypeOK
    <3>3. QED
      BY <1>2, <3>1, <3>2
  <2>2. QED
    BY <1>1, <2>1, RunFrame
<1>3. CASE Start(q) \/ Kill(q)
  <2>1. todo'[q] = {} /\ attrs'[q] = <<>> /\ failed'[q] = 0 /\ results'[q] = <<>>
    BY <1>1, <1>3 DEF Start, Kill, Enter, TypeOK
  <2>2. QED
    BY <2>1 DEF AgreePart, Agrees, CausePart
<1>4. ASSUME NEW f \in File, Edit(f) PROVE AgreePart(q)' /\ CausePart(q)'
  <2>1. /\ ~stable'[q] /\ UNCHANGED <<pc, args, scan, cache, report>>
    BY <1>4 DEF Edit
  <2>2. QED
    BY <1>1, <2>1, RunFrame DEF args
<1>5. CASE Clean \/ UNCHANGED vars
  BY <1>1, <1>5, RunFrame DEF Clean, args
<1>6. QED
  BY <1>2, <1>3, <1>4, <1>5, RunStep DEF Next

\* Within one caching run, what passed is answered from the cache from then on
\* (Cache::contains before the pipeline, record_ok after it).
THEOREM RunAgrees == Safety => []VerdictsAgree
<1>1. Safety => []RunInv
  BY RunInit, RunNext, PTL DEF Safety
<1>2. RunInv => VerdictsAgree
  BY DEF RunInv, AgreePart, Agrees, VerdictsAgree
<1>3. QED
  BY <1>1, <1>2, PTL

\* A failure counted over untouched sources has a cause in them: a file that
\* cannot be read, or a specification this run may reject.
THEOREM FailuresJustified == Safety => []FailureJustified
<1>1. Safety => []RunInv
  BY RunInit, RunNext, PTL DEF Safety
<1>2. RunInv => FailureJustified
  BY DEF RunInv, CausePart, Cause, FailureJustified
<1>3. QED
  BY <1>1, <1>2, PTL
-----------------------------------------------------------------------------
(* Memory of the tool. With several invocations at once a saved key may be *)
(* lost (an invocation writes the cache it loaded before another saved).   *)
(* Nothing is lost when invocations follow one another and are neither     *)
(* killed nor refused by the disk.                                         *)

Orderly == Faults \subseteq {"clean"}
Active(p) == pc[p] \notin {"idle", "exited"}
Serial == \A p, q \in Proc : Active(p) /\ Active(q) => p = q

\* From loading to writing, an invocation that caches has in memory all that
\* was saved, and the file it opened is empty or gone.
MemoryPart(p) ==
  /\ dirty[p] /\ pc[p] \in {"scan", "save", "write"} => caching(p)
  /\ pc[p] \in {"collect", "load"} => ~dirty[p]
  /\ pc[p] \in {"save", "write"} => dirty[p]
  /\ pc[p] \in {"scan", "save", "write"} /\ caching(p) => remembered \subseteq cache[p]
  /\ pc[p] = "write" => disk = NoFile /\ (~linked[p] => remembered = {})

MemoryInv == TypeOK /\ Remembered /\ \A p \in Proc : MemoryPart(p)

\* Nothing has been saved yet.
LEMMA MemoryInit == Init => MemoryInv
BY InitTypes DEF Init, MemoryInv, Remembered, MemoryPart

\* What an invocation that caches loads is all that was saved.
LEMMA LoadsRemembered ==
  ASSUME MemoryInv, Serial, NEW p \in Proc, pc[p] = "load"
  PROVE  remembered \subseteq Loaded
BY DEF MemoryInv, Remembered, Serial, Active

\* A file written where there was none holds what was written.
LEMMA SavedIsLoaded ==
  ASSUME NEW keys \in SUBSET Key, disk = NoFile,
         disk' = Overlay(disk, CacheFile(CACHE_VERSION, keys))
  PROVE  Loaded' = keys
<1>1. Cardinality(keys) \in Nat
  BY HashAssumption, FS_Subset, FS_CardinalityType
<1>2. disk' = CacheFile(CACHE_VERSION, keys)
  BY <1>1 DEF Overlay, CacheFile, NoFile
<1>3. QED
  BY <1>2 DEF CacheFile, Loaded, CACHE_VERSION

\* A step of one invocation while the others are not running.
LEMMA MemoryStep ==
  ASSUME Orderly, MemoryInv, Serial, NEW p \in Proc, Step(p)
  PROVE  Remembered' /\ MemoryPart(p)'
<1> USE DEF world, args, scan, memo, report, history
<1>1. TypeOK /\ Remembered /\ MemoryPart(p)
  BY DEF MemoryInv
<1>2. Active(p)
  BY <1>1 DEF Active, Step, Collect, CollectFails, LoadCache, ReadFile, SkipEmpty, ReportCached,
     ReportOk, ReportFail, EndScan, SaveOpen, SaveWrite, SaveFails, Exit, AtAttr
<1>3. \A q \in Proc : q # p => pc[q] # "write"
  BY <1>2 DEF Serial, Active
<1>4. pc[p] # "write" => remembered \subseteq Loaded
  BY <1>1, <1>3 DEF Remembered
<1>5. CASE Collect(p)
  BY <1>1, <1>4, <1>5 DEF Collect, TypeOK, Remembered, MemoryPart, caching, Loaded
<1>6. CASE LoadCache(p)
  <2>1. caching(p) => cache'[p] = Loaded
    BY <1>1, <1>6 DEF LoadCache, TypeOK, caching
  <2>2. QED
    BY <1>1, <1>4, <1>6, <2>1 DEF LoadCache, TypeOK, Remembered, MemoryPart, caching, Loaded
<1>7. CASE ReadFile(p)
  BY <1>1, <1>4, <1>7 DEF ReadFile, TypeOK, Remembered, MemoryPart, caching, Loaded
<1>8. CASE SkipEmpty(p) \/ \E s \in Spec : ReportCached(p, s) \/ ReportFail(p, s)
  BY <1>1, <1>4, <1>8
     DEF SkipEmpty, ReportCached, ReportFail, AtAttr, TypeOK, Remembered, MemoryPart, caching, Loaded
<1>9. ASSUME NEW s \in Spec, ReportOk(p, s) PROVE Remembered' /\ MemoryPart(p)'
  <2>1. /\ pc[p] = "scan" /\ RecordOk(p, s)
        /\ UNCHANGED <<disk, pc, cmd, noCache, linked, remembered>>
    BY <1>9 DEF ReportOk, AtAttr
  <2>2. caching(p) => cache[p] \subseteq cache'[p] /\ caching(p)'
    BY <1>1, <2>1 DEF RecordOk, TypeOK, caching
  <2>3. ~caching(p) => cache'[p] = cache[p] /\ dirty'[p] = dirty[p] /\ ~caching(p)'
    BY <1>1, <2>1 DEF RecordOk, caching
  <2>4. QED
    BY <1>1, <1>4, <2>1, <2>2, <2>3 DEF Remembered, MemoryPart, Loaded
<1>10. CASE EndScan(p)
  <2>1. dirty[p] => caching(p)
    BY <1>1, <1>10 DEF EndScan, MemoryPart
  <2>2. QED
    BY <1>1, <1>4, <1>10, <2>1 DEF EndScan, TypeOK, Remembered, MemoryPart, caching, Loaded
<1>11. CASE SaveOpen(p)
  <2>1. pc'[p] = "write" /\ linked'[p] = TRUE
    BY <1>1, <1>11 DEF SaveOpen, TypeOK
  <2>2. QED
    BY <1>1, <1>11, <2>1 DEF SaveOpen, TypeOK, Remembered, MemoryPart, caching
<1>12. CASE SaveWrite(p)
  <2>1. /\ caching(p) /\ disk = NoFile /\ remembered \subseteq cache[p]
        /\ ~linked[p] => remembered = {}
        /\ cache[p] \in SUBSET Key
    BY <1>1, <1>12 DEF SaveWrite, MemoryPart, TypeOK
  <2>2. remembered' \subseteq Loaded'
    <3>1. CASE linked[p]
      <4>1. Loaded' = cache[p]
        BY <1>12, <2>1, <3>1, SavedIsLoaded DEF SaveWrite
      <4>2. QED
        BY <1>12, <2>1, <3>1, <4>1 DEF SaveWrite
    <3>2. CASE ~linked[p]
      BY <1>12, <2>1, <3>2 DEF SaveWrite
    <3>3. QED
      BY <3>1, <3>2
  <2>3. pc'[p] = "report"
    BY <1>1, <1>12 DEF SaveWrite, TypeOK
  <2>4. QED
    BY <2>2, <2>3 DEF Remembered, MemoryPart
<1>13. CASE Exit(p)
  BY <1>1, <1>4, <1>13 DEF Exit, TypeOK, Remembered, MemoryPart, caching, Loaded
<1>14. ~CollectFails(p) /\ ~SaveFails(p)
  BY DEF CollectFails, SaveFails, Orderly
<1>15. QED
  BY <1>5, <1>6, <1>7, <1>8, <1>9, <1>10, <1>11, <1>12, <1>13, <1>14 DEF Step

\* Every step between two states in which one invocation runs at most.
LEMMA MemoryNext == Orderly /\ MemoryInv /\ Serial /\ Serial' /\ [Next]_vars => MemoryInv'
<1> USE DEF vars, world, args, scan, memo, report, history
<1> SUFFICES ASSUME Orderly, MemoryInv, Serial, Serial', [Next]_vars
             PROVE  Remembered' /\ \A p \in Proc : MemoryPart(p)'
  BY NextTypes DEF MemoryInv
<1>1. TypeOK /\ Remembered /\ \A p \in Proc : MemoryPart(p)
  BY DEF MemoryInv
<1>2. ASSUME NEW p \in Proc, Start(p) PROVE Remembered' /\ \A q \in Proc : MemoryPart(q)'
  <2>1. /\ UNCHANGED <<disk, remembered>> /\ pc'[p] = "collect" /\ dirty'[p] = FALSE
        /\ \A q \in Proc : q # p => UNCHANGED <<pc[q], cmd[q], noCache[q], cache[q], dirty[q], linked[q]>>
    BY <1>1, <1>2 DEF Start, Enter, TypeOK
  <2>2. \A q \in Proc : MemoryPart(q)'
    BY <1>1, <2>1 DEF MemoryPart, caching
  <2>3. \A q \in Proc : pc[q] # "write"
    BY <1>1, <1>2, <2>1 DEF Start, Serial, Active
  <2>4. QED
    BY <1>1, <2>1, <2>2, <2>3 DEF Remembered, Loaded
<1>3. ASSUME NEW p \in Proc, Step(p) PROVE Remembered' /\ \A q \in Proc : MemoryPart(q)'
  <2>1. Remembered' /\ MemoryPart(p)'
    BY <1>3, MemoryStep
  <2>2. ASSUME NEW q \in Proc, q # p PROVE MemoryPart(q)'
    <3>1. Active(p)
      BY <1>3 DEF Active, Step, Collect, CollectFails, LoadCache, ReadFile, SkipEmpty, ReportCached,
         ReportOk, ReportFail, EndScan, SaveOpen, SaveWrite, SaveFails, Exit, AtAttr
    <3>2. pc[q] \in {"idle", "exited"}
      BY <2>2, <3>1 DEF Serial, Active
    <3>3. pc'[q] = pc[q]
      BY <1>1, <1>3, <2>2 DEF TypeOK, Step, Collect, CollectFails, LoadCache, ReadFile, SkipEmpty,
         ReportCached, ReportOk, ReportFail, EndScan, SaveOpen, SaveWrite, SaveFails, Exit
    <3>4. QED
      BY <3>2, <3>3 DEF MemoryPart
  <2>3. QED
    BY <2>1, <2>2
<1>4. ASSUME NEW p \in Proc, Kill(p) PROVE FALSE
  BY <1>4 DEF Kill, Orderly
<1>5. ASSUME NEW f \in File, Edit(f) PROVE Remembered' /\ \A q \in Proc : MemoryPart(q)'
  BY <1>1, <1>5 DEF Edit, Remembered, MemoryPart, caching, Loaded
<1>6. CASE Clean
  <2>1. Remembered'
    BY <1>6 DEF Clean, Remembered
  <2>2. \A q \in Proc : MemoryPart(q)'
    BY <1>1, <1>6 DEF Clean, MemoryPart, caching
  <2>3. QED
    BY <2>1, <2>2
<1>7. CASE UNCHANGED vars
  BY <1>1, <1>7 DEF Remembered, MemoryPart, caching, Loaded
<1>8. QED
  BY <1>2, <1>3, <1>4, <1>5, <1>6, <1>7 DEF Next

\* Invocations that follow one another, none of them killed and no write
\* refused, forget nothing that was saved, whatever is edited or cleaned
\* between two steps (Cache::load, record_ok and save).
THEOREM SerialRemembers ==
  ASSUME Orderly
  PROVE  Safety /\ []Serial => []Remembered
<1>1. Safety /\ []Serial => []MemoryInv
  <2>1. MemoryInv /\ Serial /\ Serial' /\ [Next]_vars => MemoryInv'
    BY MemoryNext
  <2>2. QED
    BY <2>1, MemoryInit, PTL DEF Safety
<1>2. MemoryInv => Remembered
  BY DEF MemoryInv
<1>3. QED
  BY <1>1, <1>2, PTL
=============================================================================
