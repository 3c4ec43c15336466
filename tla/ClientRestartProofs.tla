------------------------ MODULE ClientRestartProofs ------------------------
(***************************************************************************)
(* Theorems about ClientRestart, proved for any number of threads,         *)
(* identifiers, losses and calls without an answer.                        *)
(***************************************************************************)
EXTENDS ClientRestart, FiniteSetTheorems, TLAPS

(* The streams for the address the application began with. *)
Unmoved == live \ {moved}

(***************************************************************************)
(* The inductive invariant, conjunct by conjunct.                          *)
(***************************************************************************)
Types ==
  /\ live \subseteq Id
  /\ pc \in [Thread -> {"idle", "check", "refresh", "recheck", "decide",
                        "start", "choose", "store", "redundant", "read"}]
  /\ fresh \in [Thread -> Id \cup {NoId}]
  /\ stop_pc = "none" => id_map \in Id

(* A thread holds a started stream exactly until it has mapped or stopped it. *)
Holding == {"choose", "store", "redundant"}
FreshInv == \A t \in Thread : fresh[t] # NoId <=> pc[t] \in Holding

(* The server runs one stream for an address. *)
OneUnmoved == \A i, j \in Unmoved : i = j

UpdateInv == update_pc \in {"none", "call"} => moved = NoId

(* While the original stream is there, nothing has taken its place: a      *)
(* thread that overwrites the original in the map overwrites a dead one.   *)
OriginalInv ==
  stop_pc = "none" /\ Original \in Unmoved =>
    /\ id_map = Original
    /\ \A t \in Thread : fresh[t] \in {NoId, Original}

IInv ==
  Types /\ FreshInv /\ OneUnmoved /\ UpdateInv /\ OriginalInv /\ NoStrayStream

-----------------------------------------------------------------------------
(* An identifier is always left for a new stream. *)
LEMMA SetOfAtMostOne ==
  ASSUME NEW S, \A i, j \in S : i = j
  PROVE  IsFiniteSet(S) /\ Cardinality(S) \in Nat /\ Cardinality(S) <= 1
<1>1. CASE S = {}
  BY <1>1, FS_EmptySet
<1>2. CASE S # {}
  <2>1. PICK x \in S : TRUE
    BY <1>2
  <2>2. S = {x}
    BY <2>1
  <2> QED
    BY <2>2, FS_Singleton
<1> QED
  BY <1>1, <1>2

LEMMA ValuesOf ==
  ASSUME NEW f
  PROVE  LET S == {f[t] : t \in Thread}
         IN  /\ IsFiniteSet(S) /\ Cardinality(S) \in Nat
             /\ Cardinality(S) <= Cardinality(Thread)
<1> DEFINE S == {f[t] : t \in Thread}
           g == [t \in Thread |-> f[t]]
<1>1. g \in Surjection(Thread, S)
  BY DEF Surjection
<1>2. IsFiniteSet(S) /\ Cardinality(S) <= Cardinality(Thread)
  BY <1>1, IdAssumption, FS_Surjection
<1> QED
  BY <1>2, FS_CardinalityType

LEMMA UnionBound ==
  ASSUME NEW S, NEW T, NEW m \in Nat, NEW n \in Nat,
         IsFiniteSet(S), Cardinality(S) <= m, IsFiniteSet(T), Cardinality(T) <= n
  PROVE  IsFiniteSet(S \cup T) /\ Cardinality(S \cup T) <= m + n
<1>1. /\ IsFiniteSet(S \cup T)
      /\ Cardinality(S \cup T) = Cardinality(S) + Cardinality(T) - Cardinality(S \cap T)
  BY FS_Union
<1>2. IsFiniteSet(S \cap T)
  BY FS_Intersection
<1>3. Cardinality(S \cap T) \in Nat /\ Cardinality(S) \in Nat /\ Cardinality(T) \in Nat
  BY <1>2, FS_CardinalityType
<1> QED
  BY <1>1, <1>3

LEMMA NewIdIsNew ==
  ASSUME OneUnmoved
  PROVE  NewId \in Id /\ NewId \notin InUse
<1> DEFINE n       == Cardinality(Thread)
           Current == {current[t] : t \in Thread}
           Fresh   == {fresh[t] : t \in Thread}
           A == Unmoved \cup {moved}
           B == A \cup {Original}
           C == B \cup {id_map}
           D == C \cup {stopping}
           E == D \cup {updating}
           F == E \cup Current
           G == F \cup Fresh
<1>1. n \in Nat
  BY IdAssumption, FS_CardinalityType
<1>2. IsFiniteSet(Unmoved) /\ Cardinality(Unmoved) <= 1
  BY SetOfAtMostOne DEF OneUnmoved
<1>3. ASSUME NEW x PROVE IsFiniteSet({x}) /\ Cardinality({x}) <= 1
  <2>1. IsFiniteSet({x}) /\ Cardinality({x}) = 1
    BY FS_Singleton, Zenon
  <2>2. 1 <= 1
    OBVIOUS
  <2> QED
    BY <2>1, <2>2, Zenon
<1>4. /\ IsFiniteSet(Current) /\ Cardinality(Current) <= n
      /\ IsFiniteSet(Fresh) /\ Cardinality(Fresh) <= n
  BY ValuesOf
<1> HIDE DEF n, Current, Fresh
<1>5. IsFiniteSet(A) /\ Cardinality(A) <= 2
  <2>1. IsFiniteSet(A) /\ Cardinality(A) <= 1 + 1
    BY <1>2, <1>3, UnionBound
  <2> QED
    BY <2>1
<1> HIDE DEF A
<1>6. IsFiniteSet(B) /\ Cardinality(B) <= 3
  <2>1. IsFiniteSet(B) /\ Cardinality(B) <= 2 + 1
    BY <1>5, <1>3, UnionBound
  <2> QED
    BY <2>1
<1> HIDE DEF B
<1>7. IsFiniteSet(C) /\ Cardinality(C) <= 4
  <2>1. IsFiniteSet(C) /\ Cardinality(C) <= 3 + 1
    BY <1>6, <1>3, UnionBound
  <2> QED
    BY <2>1
<1> HIDE DEF C
<1>8. IsFiniteSet(D) /\ Cardinality(D) <= 5
  <2>1. IsFiniteSet(D) /\ Cardinality(D) <= 4 + 1
    BY <1>7, <1>3, UnionBound
  <2> QED
    BY <2>1
<1> HIDE DEF D
<1>9. IsFiniteSet(E) /\ Cardinality(E) <= 6
  <2>1. IsFiniteSet(E) /\ Cardinality(E) <= 5 + 1
    BY <1>8, <1>3, UnionBound
  <2> QED
    BY <2>1
<1> HIDE DEF E
<1>10. IsFiniteSet(F) /\ Cardinality(F) <= 6 + n
  BY <1>1, <1>4, <1>9, UnionBound
<1> HIDE DEF F
<1>11. IsFiniteSet(G) /\ Cardinality(G) <= 6 + n + n
  <2>1. 6 + n \in Nat
    BY <1>1
  <2> QED
    BY <1>1, <1>4, <1>10, <2>1, UnionBound
<1>12. InUse \subseteq G
  BY DEF InUse, Held, Unmoved, A, B, C, D, E, F, Current, Fresh
<1> HIDE DEF G
<1>13. Id \ InUse # {}
  <2> SUFFICES ASSUME Id \subseteq G PROVE FALSE
    BY <1>12
  <2>1. IsFiniteSet(Id) /\ Cardinality(Id) <= Cardinality(G)
    BY <1>11, FS_Subset
  <2>2. Cardinality(Id) \in Nat /\ Cardinality(G) \in Nat
    BY <1>11, <2>1, FS_CardinalityType
  <2> QED
    BY <1>1, <1>11, <2>1, <2>2, IdAssumption DEF n
<1> QED
  BY <1>13 DEF NewId

-----------------------------------------------------------------------------
(* StartStream returns one stream: the one there is, or a new one. *)
LEMMA StartedOne ==
  ASSUME IInv
  PROVE  \E s \in Id :
           /\ Started = {s}
           /\ s # NoId /\ s # moved
           /\ Unmoved = {} => s \notin InUse
           /\ Unmoved # {} => Unmoved = {s}
<1>1. NewId \in Id /\ NewId \notin InUse
  BY NewIdIsNew DEF IInv
<1>2. moved \in InUse /\ NoId \notin Id
  BY ClientAssumption DEF InUse
<1>3. CASE Unmoved = {}
  BY <1>1, <1>2, <1>3 DEF Started, Unmoved
<1>4. CASE Unmoved # {}
  <2>1. PICK s \in Unmoved : TRUE
    BY <1>4
  <2>2. Unmoved = {s}
    BY <2>1 DEF IInv, OneUnmoved
  <2>3. s \in Id /\ s # moved
    BY <2>1 DEF Unmoved, IInv, Types
  <2> QED
    BY <1>2, <1>4, <2>2, <2>3 DEF Started, Unmoved
<1> QED
  BY <1>3, <1>4

(* What StartStream does to the streams of the server. *)
LEMMA StartEffect ==
  ASSUME IInv, live' \in {live, live \cup Started}, moved' = moved
  PROVE  /\ live' \subseteq Id
         /\ OneUnmoved'
         /\ Original \in Unmoved' => Original \in Unmoved \/ Original \in Started
<1>1. PICK s \in Id : /\ Started = {s} /\ s # moved
                      /\ Unmoved # {} => Unmoved = {s}
  BY StartedOne
<1>2. live \subseteq Id /\ OneUnmoved
  BY DEF IInv, Types
<1>3. live' \subseteq Id
  BY <1>1, <1>2
<1>4. Unmoved' \subseteq Unmoved \cup {s}
  BY <1>1 DEF Unmoved
<1>5. OneUnmoved'
  BY <1>1, <1>2, <1>4 DEF OneUnmoved
<1> QED
  BY <1>1, <1>3, <1>4, <1>5

-----------------------------------------------------------------------------
LEMMA InitIInv == Init => IInv
BY ClientAssumption DEF Init, IInv, Types, FreshInv, Holding, OneUnmoved, Unmoved,
   UpdateInv, OriginalInv, NoStrayStream

(* The steps that leave the streams, the map and the threads' holdings.    *)
LEMMA QuietStep ==
  ASSUME IInv,
         pc' \in [Thread -> {"idle", "check", "refresh", "recheck", "decide",
                             "start", "choose", "store", "redundant", "read"}],
         \A t \in Thread : pc'[t] \in Holding <=> pc[t] \in Holding,
         UNCHANGED <<live, moved, id_map, fresh, strayVars, update_pc>>,
         stop_pc' = "none" => stop_pc = "none"
  PROVE  IInv'
<1>1. Unmoved' = Unmoved
  BY DEF Unmoved
<1> QED
  BY <1>1 DEF IInv, Types, FreshInv, OneUnmoved, UpdateInv, OriginalInv,
   NoStrayStream, strayVars

-----------------------------------------------------------------------------
LEMMA ServerStep ==
  ASSUME IInv, Forgets \/ ComesBack
  PROVE  IInv'
<1>1. CASE Forgets
  <2>1. /\ live' = {} /\ moved' = NoId
        /\ UNCHANGED <<mapVars, readVars, stopVars>>
    BY <1>1 DEF Forgets
  <2>2. Unmoved' = {}
    BY <2>1 DEF Unmoved
  <2> QED
    BY <2>1, <2>2 DEF IInv, Types, FreshInv, OneUnmoved, UpdateInv, OriginalInv,
       NoStrayStream, mapVars, readVars, stopVars
<1>2. CASE ComesBack
  BY <1>2, QuietStep DEF ComesBack, mapVars, readVars, stopVars, IInv, Types
<1> QED
  BY <1>1, <1>2

LEMMA StopStep ==
  ASSUME IInv, StopCalled \/ StopAnswered \/ StopCleans
  PROVE  IInv'
<1>1. CASE StopCalled
  BY <1>1, QuietStep DEF StopCalled, serverVars, mapVars, readVars, IInv, Types
<1>2. CASE StopAnswered \/ StopCleans
  <2>1. /\ stop_pc' # "none" /\ live' \subseteq live /\ id_map' \in {id_map, NoId}
        /\ UNCHANGED <<moved, readVars, update_pc>>
    BY <1>2 DEF StopAnswered, StopCleans, mapVars, serverVars, Answered, Unanswered
  <2>2. Unmoved' \subseteq Unmoved
    BY <2>1 DEF Unmoved
  <2> QED
    BY <2>1, <2>2 DEF IInv, Types, FreshInv, OneUnmoved, UpdateInv, OriginalInv,
       NoStrayStream, readVars
<1> QED
  BY <1>1, <1>2

LEMMA UpdateStep ==
  ASSUME IInv, UpdateCalled \/ UpdateAnswered \/ UpdateCleans
  PROVE  IInv'
<1>1. CASE UpdateCalled \/ UpdateCleans
  <2>1. /\ UNCHANGED <<serverVars, id_map, readVars, stop_pc, strayVars>>
        /\ update_pc' \in {"none", "call"} => update_pc \in {"none", "call"}
    BY <1>1 DEF UpdateCalled, UpdateCleans, mapVars
  <2>2. Unmoved' = Unmoved
    BY <2>1 DEF Unmoved, serverVars
  <2> QED
    BY <2>1, <2>2 DEF IInv, Types, FreshInv, OneUnmoved, UpdateInv, OriginalInv,
       NoStrayStream, serverVars, readVars, strayVars
<1>2. CASE UpdateAnswered
  <2>1. /\ update_pc = "call" /\ update_pc' \in {"clean", "done"}
        /\ moved' = moved \/ moved' \in live
        /\ UNCHANGED <<live, mapVars, readVars, stop_pc, strayVars>>
    BY <1>2 DEF UpdateAnswered
  <2>2. moved = NoId /\ NoId \notin live
    BY <2>1, ClientAssumption DEF IInv, UpdateInv, Types
  <2>3. Unmoved' \subseteq Unmoved
    BY <2>1, <2>2 DEF Unmoved
  <2> QED
    BY <2>1, <2>2, <2>3 DEF IInv, Types, FreshInv, OneUnmoved, UpdateInv,
       OriginalInv, NoStrayStream, mapVars, readVars, strayVars
<1> QED
  BY <1>1, <1>2

-----------------------------------------------------------------------------
(* A step of a thread that reads. *)

LEMMA RestartsStep ==
  ASSUME IInv, NEW t \in Thread, Restarts(t)
  PROVE  IInv'
<1>1. PICK s \in Id :
        /\ Started = {s} /\ s # NoId /\ s # moved
        /\ Unmoved = {} => s \notin InUse
        /\ Unmoved # {} => Unmoved = {s}
  BY StartedOne
<1>2. /\ pc[t] = "start" /\ pc' = [pc EXCEPT ![t] = "choose"]
      /\ live' = live \cup {s} /\ fresh' = [fresh EXCEPT ![t] = s]
      /\ unclaimed' = unclaimed \ {s} /\ overwritten' = overwritten \ {s}
      /\ UNCHANGED <<moved, mapVars, stopVars>>
  BY <1>1 DEF Restarts, Goes, Sets
<1>3. fresh[t] = NoId
  BY <1>2 DEF IInv, FreshInv, Holding
<1>4. live' \subseteq Id /\ OneUnmoved'
  BY <1>1, <1>2, StartEffect
<1>5. Types' /\ UpdateInv'
  BY <1>2, <1>4 DEF IInv, Types, UpdateInv, mapVars, stopVars
<1>6. FreshInv'
  BY <1>1, <1>2 DEF IInv, Types, FreshInv, Holding
<1>7. OriginalInv'
  <2> SUFFICES ASSUME stop_pc = "none", Original \in Unmoved'
               PROVE  /\ id_map = Original
                      /\ \A r \in Thread : fresh'[r] \in {NoId, Original}
    BY <1>2 DEF OriginalInv, mapVars, stopVars
  <2>1. Original \in Unmoved
    <3>1. Original \in InUse
      BY DEF InUse
    <3>2. Unmoved' \subseteq Unmoved \cup {s}
      BY <1>2 DEF Unmoved
    <3> QED
      BY <1>1, <3>1, <3>2
  <2>2. s = Original
    BY <1>1, <2>1
  <2> QED
    BY <1>2, <2>1, <2>2 DEF IInv, Types, OriginalInv
<1>8. NoStrayStream'
  <2> SUFFICES ASSUME stop_pc = "none", NEW i \in live'
               PROVE  i \in {id_map, moved} \cup unclaimed' \cup overwritten'
                             \cup {fresh'[r] : r \in Thread}
    BY <1>2 DEF NoStrayStream, mapVars, stopVars
  <2>1. fresh'[t] = s /\ \A r \in Thread \ {t} : fresh'[r] = fresh[r]
    BY <1>2 DEF IInv, Types
  <2>2. CASE i = s
    BY <2>1, <2>2
  <2>3. CASE i # s
    <3>1. i \in {id_map, moved} \cup unclaimed \cup overwritten
                  \cup {fresh[r] : r \in Thread}
      BY <1>2, <2>3 DEF IInv, NoStrayStream
    <3>2. i # NoId
      BY <1>4, ClientAssumption
    <3> QED
      BY <1>2, <1>3, <2>1, <2>3, <3>1, <3>2
  <2> QED
    BY <2>2, <2>3
<1> QED
  BY <1>4, <1>5, <1>6, <1>7, <1>8 DEF IInv

LEMMA RestartFailsStep ==
  ASSUME IInv, NEW t \in Thread, RestartFails(t)
  PROVE  IInv'
<1>1. /\ pc[t] = "start" /\ pc' = [pc EXCEPT ![t] = "idle"]
      /\ live' \in {live, live \cup Started}
      /\ unclaimed' = unclaimed \cup (live' \ live)
      /\ UNCHANGED <<moved, mapVars, fresh, stopVars, overwritten>>
  BY DEF RestartFails
<1>2. /\ live' \subseteq Id /\ OneUnmoved'
      /\ Original \in Unmoved' => Original \in Unmoved \/ Original \in Started
  BY <1>1, StartEffect
<1>3. Original \in Unmoved' => Original \in Unmoved
  <2>1. Original \in InUse
    BY DEF InUse
  <2>2. Original \in Started => Original \in Unmoved
    BY <2>1, StartedOne
  <2> QED
    BY <1>2, <2>2
<1>4. Types' /\ FreshInv' /\ UpdateInv'
  BY <1>1, <1>2 DEF IInv, Types, FreshInv, Holding, UpdateInv, mapVars, stopVars
<1>5. OriginalInv'
  BY <1>1, <1>3 DEF IInv, OriginalInv, mapVars, stopVars
<1>6. NoStrayStream'
  BY <1>1 DEF IInv, NoStrayStream, mapVars, stopVars
<1> QED
  BY <1>2, <1>4, <1>5, <1>6 DEF IInv

(* The entry a store writes over is dead, moved, or one made since the look. *)
LEMMA StoresStep ==
  ASSUME IInv, NEW t \in Thread, Stores(t)
  PROVE  IInv'
<1>1. /\ pc[t] = "store" /\ pc' = [pc EXCEPT ![t] = "read"]
      /\ id_map' = fresh[t] /\ fresh' = [fresh EXCEPT ![t] = NoId]
      /\ overwritten \ {fresh[t]} \subseteq overwritten'
      /\ Elsewhere(t) => live \cap {id_map} \subseteq overwritten'
      /\ UNCHANGED <<serverVars, stopVars, unclaimed>>
  BY DEF Stores, Goes, Sets
<1>2. Unmoved' = Unmoved
  BY <1>1 DEF Unmoved, serverVars
<1>3. fresh[t] \in Id
  BY <1>1 DEF IInv, Types, FreshInv, Holding
<1>4. /\ fresh'[t] = NoId /\ pc'[t] = "read"
      /\ \A r \in Thread \ {t} : fresh'[r] = fresh[r] /\ pc'[r] = pc[r]
  BY <1>1 DEF IInv, Types
<1>5. Types' /\ FreshInv' /\ OneUnmoved' /\ UpdateInv'
  BY <1>1, <1>2, <1>3, <1>4 DEF IInv, Types, FreshInv, Holding, OneUnmoved,
     UpdateInv, serverVars, stopVars
<1>6. OriginalInv'
  BY <1>1, <1>2, <1>3, <1>4, ClientAssumption
     DEF IInv, OriginalInv, serverVars, stopVars
<1>7. NoStrayStream'
  <2> SUFFICES ASSUME stop_pc = "none", NEW i \in live
               PROVE  i \in {fresh[t], moved} \cup unclaimed \cup overwritten'
                             \cup {fresh'[r] : r \in Thread}
    BY <1>1 DEF NoStrayStream, serverVars, stopVars
  <2>1. i \in {id_map, moved} \cup unclaimed \cup overwritten
                \cup {fresh[r] : r \in Thread}
    BY DEF IInv, NoStrayStream
  <2>2. id_map # NoId /\ i # NoId
    BY ClientAssumption DEF IInv, Types
  <2>3. CASE i = id_map /\ i # moved
    <3>1. CASE Elsewhere(t)
      BY <1>1, <2>3, <3>1
    <3>2. CASE ~Elsewhere(t)
      <4>1. i = fresh[t] \/ i = Original
        BY <2>2, <2>3, <3>2 DEF Elsewhere
      <4>2. i \in Unmoved
        BY <2>3 DEF Unmoved
      <4> QED
        BY <1>3, <4>1, <4>2, ClientAssumption DEF IInv, OriginalInv
    <3> QED
      BY <3>1, <3>2
  <2> QED
    BY <1>1, <1>4, <2>1, <2>2, <2>3
<1> QED
  BY <1>5, <1>6, <1>7 DEF IInv

LEMMA StopsRedundantStep ==
  ASSUME IInv, NEW t \in Thread, StopsRedundant(t)
  PROVE  IInv'
<1>1. /\ pc[t] = "redundant" /\ pc' = [pc EXCEPT ![t] = "read"]
      /\ fresh' = [fresh EXCEPT ![t] = NoId]
      /\ live' \in {live, live \ {fresh[t]}}
      /\ unclaimed \subseteq unclaimed'
      /\ overwritten \cap live' \subseteq overwritten'
      /\ fresh[t] \in live' => fresh[t] \in unclaimed'
      /\ UNCHANGED <<moved, mapVars, stopVars>>
  BY DEF StopsRedundant, Goes, Sets
<1>2. Unmoved' \subseteq Unmoved
  BY <1>1 DEF Unmoved
<1>3. /\ fresh'[t] = NoId /\ pc'[t] = "read"
      /\ \A r \in Thread \ {t} : fresh'[r] = fresh[r] /\ pc'[r] = pc[r]
  BY <1>1 DEF IInv, Types
<1>4. Types' /\ FreshInv' /\ OneUnmoved' /\ UpdateInv' /\ OriginalInv'
  <2>1. Types'
    BY <1>1 DEF IInv, Types, mapVars, stopVars
  <2>2. FreshInv'
    BY <1>3 DEF IInv, FreshInv, Holding
  <2>3. OneUnmoved' /\ UpdateInv'
    BY <1>1, <1>2 DEF IInv, OneUnmoved, UpdateInv, stopVars
  <2>4. OriginalInv'
    BY <1>1, <1>2, <1>3 DEF IInv, OriginalInv, mapVars, stopVars
  <2> QED
    BY <2>1, <2>2, <2>3, <2>4
<1>5. NoStrayStream'
  BY <1>1, <1>3 DEF IInv, NoStrayStream, mapVars, stopVars
<1> QED
  BY <1>4, <1>5 DEF IInv

LEMMA ThreadStepInv ==
  ASSUME IInv, NEW t \in Thread, ThreadStep(t)
  PROVE  IInv'
<1>1. CASE Enters(t) \/ Checks(t) \/ Refreshes(t) \/ Decides(t) \/ Looks(t) \/ Reads(t)
  BY <1>1, QuietStep DEF Looks, Holding, Enters, Checks, Refreshes, Decides, Reads, Goes, Answered,
     Unanswered, serverVars, mapVars, stopVars, IInv, Types
<1> QED
  BY <1>1, RestartsStep, RestartFailsStep, StoresStep, StopsRedundantStep DEF ThreadStep

(***************************************************************************)
(* The inductive invariant holds of every behaviour.                       *)
(***************************************************************************)
THEOREM Invariance == Spec => []IInv
<1>1. IInv /\ [Next]_vars => IInv'
  <2>1. IInv /\ UNCHANGED vars => IInv'
    BY QuietStep DEF vars, serverVars, mapVars, readVars, stopVars, IInv, Types
  <2> QED
    BY <2>1, ServerStep, StopStep, UpdateStep, ThreadStepInv DEF Next
<1> QED
  BY InitIInv, <1>1, PTL DEF Spec

(***************************************************************************)
(* However restarts of the server, restarts of the stream by several       *)
(* threads, an update and calls without an answer interleave: until the    *)
(* application stops the stream, the client loses sight of none - except   *)
(* one whose entry in the map was made while another restart was between   *)
(* its look at the map and its store.                                      *)
(***************************************************************************)
THEOREM NothingStrays == Spec => []NoStrayStream
<1>1. IInv => NoStrayStream
  BY DEF IInv
<1> QED
  BY <1>1, Invariance, PTL

=============================================================================
