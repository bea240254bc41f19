----------------------- MODULE DataShareObserversProofs -----------------------
(***************************************************************************)
(* Proofs about DataShareObservers, for any number of on() and off() calls, *)
(* uris, callbacks and notifications.                                       *)
(***************************************************************************)
EXTENDS DataShareObservers, TLAPS

-------------------------------------------------------------------------------
(* The inductive invariant.                                                 *)

OnCalls == [at : {"none", "queued", "executed", "done"}, valid : BOOLEAN,
            uri : Uris \cup {NoUriGiven}, callback : Callbacks \cup {NoCallback},
            freed : BOOLEAN]
Observers == [pre : {0, 1}, int : {0, 1}, associated : BOOLEAN,
              ref : {"none", "live", "deleted"}]
OffCalls == [at : {"none", "queued", "executed", "done"}, list : SUBSET Ons]

ObserverTypes ==
    /\ on \in [Ons -> OnCalls]
    /\ observer \in [Ons -> Observers]
    /\ off \in [Offs -> OffCalls]
    /\ instances \in SUBSET Ons
    /\ registry \in SUBSET Ons
    /\ sent \in [Ons -> Nat]
    /\ arriving \in [Ons -> Nat]
    /\ works \in [Ons -> Nat]

\* An off() that has not completed has r in its NotifyList or DestoryList.
InList(r) == \E o \in Offs : r \in off[o].list

\* Somebody still has to release r: registerInstances_ or an off().
Held(r) == r \in instances \/ InList(r)

\* Notifications that OnChange has accepted and no worker has delivered.
Pending(r) == arriving[r] + works[r]

\* An on() is in registerInstances_ or in the list of one off(), never in two
\* places; only a valid one gets there, and only then can it be notified.
PlaceInv ==
    /\ \A r \in instances : on[r].at # "none" /\ on[r].valid
    /\ \A o \in Offs : \A r \in off[o].list :
          /\ r \notin instances
          /\ on[r].at # "none" /\ on[r].valid
          /\ off[o].at \in {"queued", "executed"}
          /\ \A p \in Offs : r \in off[p].list => p = o
    /\ \A r \in Ons :
          /\ Held(r) \/ on[r].at = "none" => observer[r].int = 0
          /\ sent[r] > 0 \/ Pending(r) > 0 \/ r \in registry
                => on[r].at # "none" /\ on[r].valid
          /\ ~on[r].valid /\ on[r].at # "done" => ~on[r].freed

\* What holds as long as none of the circumstances of NoStaleObserver arose:
\* what can still be notified is held, and what is held, or has a notification
\* to deliver, is marked as such and has not been released.
StaleTags == {"offOvertakesOn", "underWay", "second", "unreached", "collected"}
LiveCall(r) ==
    /\ ~Held(r) => r \notin registry /\ sent[r] = 0
    /\ Pending(r) <= 1
    /\ Pending(r) > 0 => observer[r].pre = 1
    /\ Held(r) \/ Pending(r) > 0 => ~on[r].freed /\ observer[r].ref # "deleted"
LiveInv ==
    /\ lapses = {}
    /\ ~helperGone
    /\ \A r \in Ons : LiveCall(r)
    /\ \A o \in Offs : \A r \in off[o].list : off[o].at = "executed" => r \notin registry

\* What holds as long as none of the first circumstances of RegistryAgrees
\* arose: on its way from on() to off() a call is in the registry exactly
\* between its own execution and that of the off().
RegistryTags == {"offOvertakesOn", "unreached", "collected"}
RegistryInv ==
    /\ \A r \in registry :
          /\ on[r].uri # NoUriGiven
          /\ r \in instances \/ \E o \in Offs : off[o].at = "queued" /\ r \in off[o].list
    /\ \A r \in instances :
          on[r].at \in {"executed", "done"} /\ on[r].uri # NoUriGiven => r \in registry

\* What holds as long as the loop refused no work: an on() that nobody holds is
\* freed, or a worker that will free it is on its way.
FreedInv ==
    \A r \in Ons :
        /\ on[r].at # "none" /\ on[r].valid /\ ~Held(r) /\ ~on[r].freed
              => observer[r].int = 1 /\ observer[r].associated /\ Pending(r) > 0
        /\ on[r].at = "done" /\ ~on[r].valid => on[r].freed
        /\ observer[r].int = 0 /\ observer[r].pre = 1 => Pending(r) > 0

ObserversInv ==
    /\ ObserverTypes
    /\ PlaceInv
    /\ Befell(StaleTags) \/ LiveInv
    /\ Befell(RegistryTags) \/ RegistryInv
    /\ Befell({"refused"}) \/ FreedInv

-------------------------------------------------------------------------------
(* Types and places.                                                        *)

\* At the start nothing has been called.
LEMMA ObserversInitInv == ObserversInit => ObserversInv
<1> SUFFICES ASSUME ObserversInit PROVE ObserversInv
  OBVIOUS
<1>1. ObserverTypes
  BY DEF ObserversInit, ObserverTypes, OnCalls, Observers, OffCalls
<1>2. \A r \in Ons : ~Held(r) /\ Pending(r) = 0
  BY DEF ObserversInit, Held, InList, Pending
<1>3. PlaceInv
  BY <1>2 DEF ObserversInit, PlaceInv
<1>4. LiveInv
  BY <1>2 DEF ObserversInit, LiveInv, LiveCall
<1>5. RegistryInv
  BY DEF ObserversInit, RegistryInv
<1>6. FreedInv
  BY <1>2 DEF ObserversInit, FreedInv
<1> QED
  BY <1>1, <1>3, <1>4, <1>5, <1>6 DEF ObserversInv

\* Assignments to the fields of a record keep its type.
LEMMA OnFields ==
    ASSUME NEW c \in OnCalls, NEW a \in {"none", "queued", "executed", "done"},
           NEW b \in BOOLEAN
    PROVE  /\ [c EXCEPT !.at = a] \in OnCalls
           /\ [c EXCEPT !.freed = b] \in OnCalls
           /\ [c EXCEPT !.at = a, !.freed = b] \in OnCalls
BY Zenon DEF OnCalls

\* The same for the record of an observer.
LEMMA ObserverFields ==
    ASSUME NEW c \in Observers, NEW a \in {"none", "live", "deleted"},
           NEW b \in BOOLEAN, NEW n \in {0, 1}
    PROVE  /\ [c EXCEPT !.pre = n] \in Observers
           /\ [c EXCEPT !.ref = a] \in Observers
           /\ [c EXCEPT !.associated = b, !.int = n] \in Observers
           /\ [c EXCEPT !.ref = a, !.associated = b] \in Observers
BY Zenon DEF Observers

\* Every step keeps the types.
LEMMA ObserversType ==
    ASSUME ObserverTypes, ObserversNext
    PROVE  ObserverTypes'
<1> USE DEF ObserverTypes
<1>1. ASSUME NEW r \in Ons, NAPI_Register(r) PROVE ObserverTypes'
  <2>1. PICK u \in Uris \cup {NoUriGiven}, f \in Callbacks \cup {NoCallback} :
          /\ on' = [on EXCEPT ![r] = [at |-> "queued", valid |-> f # NoCallback, uri |-> u,
                                      callback |-> f, freed |-> FALSE]]
          /\ observer' = [observer EXCEPT ![r].ref = IF f # NoCallback THEN "live" ELSE "none"]
          /\ instances' = IF f # NoCallback THEN instances \cup {r} ELSE instances
    BY <1>1, Zenon DEF NAPI_Register
  <2>2. on' \in [Ons -> OnCalls]
    <3>1. [at |-> "queued", valid |-> f # NoCallback, uri |-> u, callback |-> f,
           freed |-> FALSE] \in OnCalls
      BY DEF OnCalls
    <3> QED
      BY <2>1, <3>1
  <2>3. observer' \in [Ons -> Observers]
    BY <2>1, ObserverFields, Zenon
  <2> QED
    BY <1>1, <2>1, <2>2, <2>3 DEF NAPI_Register
<1>2. ASSUME NEW r \in Ons, RegisterExecuteCB(r) PROVE ObserverTypes'
  <2>1. on' \in [Ons -> OnCalls]
    BY <1>2, OnFields, Zenon DEF RegisterExecuteCB
  <2> QED
    BY <1>2, <2>1 DEF RegisterExecuteCB
<1>3. ASSUME NEW r \in Ons, RegisterCompleteCB(r) PROVE ObserverTypes'
  <2>1. on' \in [Ons -> OnCalls]
    <3>1. CASE on' = [on EXCEPT ![r].at = "done"]
      BY <3>1, OnFields, Zenon
    <3>2. CASE on' = [on EXCEPT ![r].at = "done", ![r].freed = TRUE]
      <4>1. on' = [on EXCEPT ![r] = [on[r] EXCEPT !.at = "done", !.freed = TRUE]]
        BY <3>2, Zenon
      <4>2. [on[r] EXCEPT !.at = "done", !.freed = TRUE] \in OnCalls
        BY OnFields, Zenon
      <4> QED
        BY <4>1, <4>2
    <3> QED
      BY <1>3, <3>1, <3>2 DEF RegisterCompleteCB
  <2> QED
    BY <1>3, <2>1 DEF RegisterCompleteCB
<1>4. ASSUME NEW r \in Ons, OnChange(r) PROVE ObserverTypes'
  <2>1. observer' \in [Ons -> Observers]
    BY <1>4, ObserverFields, Zenon DEF OnChange
  <2>2. sent' \in [Ons -> Nat] /\ arriving' \in [Ons -> Nat]
    BY <1>4 DEF OnChange
  <2> QED
    BY <1>4, <2>1, <2>2 DEF OnChange
<1>5. ASSUME NEW r \in Ons, OnChangeQueues(r) PROVE ObserverTypes'
  BY <1>5 DEF OnChangeQueues
<1>6. ASSUME NEW r \in Ons, OnChangeJSThreadWorker(r) PROVE ObserverTypes'
  <2>1. works' \in [Ons -> Nat]
    BY <1>6 DEF OnChangeJSThreadWorker
  <2>2. on' \in [Ons -> OnCalls]
    <3>1. CASE on' = [on EXCEPT ![r].freed = @ \/ observer[r].associated]
      <4>1. (on[r].freed \/ observer[r].associated) \in BOOLEAN
        OBVIOUS
      <4> QED
        BY <3>1, <4>1, OnFields, Zenon
    <3> QED
      BY <1>6, <3>1 DEF OnChangeJSThreadWorker
  <2>3. observer' \in [Ons -> Observers]
    <3>1. CASE observer' = [observer EXCEPT ![r].pre = 0]
      BY <3>1, ObserverFields, Zenon
    <3>2. CASE observer' = [observer EXCEPT ![r].ref = "deleted", ![r].associated = FALSE]
      <4>1. observer' = [observer EXCEPT ![r] =
                           [observer[r] EXCEPT !.ref = "deleted", !.associated = FALSE]]
        BY <3>2, Zenon
      <4>2. [observer[r] EXCEPT !.ref = "deleted", !.associated = FALSE] \in Observers
        BY ObserverFields, Zenon
      <4> QED
        BY <4>1, <4>2
    <3> QED
      BY <1>6, <3>1, <3>2 DEF OnChangeJSThreadWorker
  <2> QED
    BY <1>6, <2>1, <2>2, <2>3 DEF OnChangeJSThreadWorker
<1>7. ASSUME NEW r \in Ons, NotifyObserver(r) PROVE ObserverTypes'
  BY <1>7 DEF NotifyObserver
<1>8. ASSUME NEW o \in Offs, NAPI_UnRegister(o) PROVE ObserverTypes'
  BY <1>8 DEF NAPI_UnRegister, OffCalls, FindRegisterObs
<1>9. ASSUME NEW o \in Offs, UnRegisterExecuteCB(o) PROVE ObserverTypes'
  BY <1>9 DEF UnRegisterExecuteCB, OffCalls
<1>10. ASSUME NEW o \in Offs, UnRegisterCompleteCB(o) PROVE ObserverTypes'
  <2>1. on' \in [Ons -> OnCalls]
    BY <1>10, OnFields, Zenon DEF UnRegisterCompleteCB
  <2>2. observer' \in [Ons -> Observers]
    BY <1>10, ObserverFields, Zenon DEF UnRegisterCompleteCB
  <2>3. off' \in [Offs -> OffCalls]
    BY <1>10, Zenon DEF UnRegisterCompleteCB, OffCalls
  <2> QED
    BY <1>10, <2>1, <2>2, <2>3, Zenon DEF UnRegisterCompleteCB
<1>11. CASE HelperCollected
  <2>1. on' \in [Ons -> OnCalls]
    <3>1. CASE instances # {}
      <4>1. PICK r \in instances : on' = [on EXCEPT ![r].freed = TRUE]
        BY <1>11, <3>1 DEF HelperCollected
      <4> QED
        BY <4>1, OnFields, Zenon
    <3> QED
      BY <1>11, <3>1 DEF HelperCollected
  <2> QED
    BY <1>11, <2>1 DEF HelperCollected
<1> QED
  BY <1>1, <1>2, <1>3, <1>4, <1>5, <1>6, <1>7, <1>8, <1>9, <1>10, <1>11
     DEF ObserversNext, ObserverWork

-------------------------------------------------------------------------------
(* What the steps do to the fields of one call or observer.                 *)

\* Nothing of the calls but those of S, and of their observers, changes.
OnlyCalls(S) ==
    \A x \in Ons \ S : on'[x] = on[x] /\ observer'[x] = observer[x]

\* The arguments of on() stay what they are.
SameCall(x) == on'[x].at = on[x].at /\ on'[x].valid = on[x].valid /\ on'[x].uri = on[x].uri

\* on() lists a valid call.
LEMMA RegisterView ==
    ASSUME ObserverTypes, NEW r \in Ons, NAPI_Register(r)
    PROVE  /\ on[r].at = "none" /\ OnlyCalls({r})
           /\ on'[r].at = "queued" /\ ~on'[r].freed
           /\ observer'[r].int = observer[r].int /\ observer'[r].pre = observer[r].pre
           /\ observer'[r].ref # "deleted"
           /\ instances' = IF on'[r].valid THEN instances \cup {r} ELSE instances
           /\ UNCHANGED <<off, registry, sent, arriving, works, helperGone, lapses, mishaps>>
<1>1. PICK u \in Uris \cup {NoUriGiven}, f \in Callbacks \cup {NoCallback} :
        /\ on' = [on EXCEPT ![r] = [at |-> "queued", valid |-> f # NoCallback, uri |-> u,
                                    callback |-> f, freed |-> FALSE]]
        /\ observer' = [observer EXCEPT ![r].ref = IF f # NoCallback THEN "live" ELSE "none"]
        /\ instances' = IF f # NoCallback THEN instances \cup {r} ELSE instances
  BY Zenon DEF NAPI_Register
<1>2. OnlyCalls({r})
  BY <1>1 DEF OnlyCalls, ObserverTypes
<1>3. on'[r].at = "queued" /\ ~on'[r].freed /\ (on'[r].valid <=> f # NoCallback)
  BY <1>1, Zenon DEF ObserverTypes
<1>4. /\ observer'[r].int = observer[r].int /\ observer'[r].pre = observer[r].pre
      /\ observer'[r].ref # "deleted"
  BY <1>1 DEF ObserverTypes, Observers
<1> QED
  BY <1>1, <1>2, <1>3, <1>4 DEF NAPI_Register

\* The execute half of on() changes only how far the call is.
LEMMA RegisterExecuteView ==
    ASSUME ObserverTypes, NEW r \in Ons, RegisterExecuteCB(r)
    PROVE  /\ on[r].at = "queued" /\ on'[r].at = "executed"
           /\ on'[r].valid = on[r].valid /\ on'[r].uri = on[r].uri /\ on'[r].freed = on[r].freed
           /\ \A x \in Ons \ {r} : on'[x] = on[x]
           /\ UNCHANGED <<observer, off, instances, sent, arriving, works, helperGone>>
BY DEF RegisterExecuteCB, ObserverTypes, OnCalls

\* Its completion frees a call that was not valid.
LEMMA RegisterCompleteView ==
    ASSUME ObserverTypes, NEW r \in Ons, RegisterCompleteCB(r)
    PROVE  /\ on[r].at = "executed" /\ on'[r].at = "done"
           /\ on'[r].valid = on[r].valid /\ on'[r].uri = on[r].uri
           /\ on'[r].freed <=> on[r].freed \/ ~on[r].valid
           /\ \A x \in Ons \ {r} : on'[x] = on[x]
           /\ UNCHANGED <<observer, off, instances, registry, sent, arriving, works, helperGone>>
<1>1. CASE on[r].valid
  <2>1. on' = [on EXCEPT ![r].at = "done"] /\ on[r].at = "executed"
    BY <1>1 DEF RegisterCompleteCB
  <2>2. /\ on'[r].at = "done" /\ on'[r].valid = on[r].valid /\ on'[r].uri = on[r].uri
        /\ on'[r].freed = on[r].freed
    BY <2>1 DEF ObserverTypes, OnCalls
  <2>3. \A x \in Ons \ {r} : on'[x] = on[x]
    BY <2>1 DEF ObserverTypes
  <2> QED
    BY <1>1, <2>1, <2>2, <2>3, Zenon DEF RegisterCompleteCB
<1>2. CASE ~on[r].valid
  <2>1. on' = [on EXCEPT ![r].at = "done", ![r].freed = TRUE] /\ on[r].at = "executed"
    BY <1>2 DEF RegisterCompleteCB
  <2>2. on'[r].at = "done" /\ on'[r].valid = on[r].valid /\ on'[r].uri = on[r].uri /\ on'[r].freed
    BY <2>1 DEF ObserverTypes, OnCalls
  <2>3. \A x \in Ons \ {r} : on'[x] = on[x]
    BY <2>1 DEF ObserverTypes
  <2> QED
    BY <1>2, <2>1, <2>2, <2>3, Zenon DEF RegisterCompleteCB
<1> QED
  BY <1>1, <1>2

\* off() takes what it finds out of the list, into its own.
LEMMA UnRegisterView ==
    ASSUME ObserverTypes, NEW o \in Offs, NAPI_UnRegister(o)
    PROVE  /\ off[o].at = "none" /\ off'[o].at = "queued"
           /\ off'[o].list \subseteq instances /\ instances' = instances \ off'[o].list
           /\ \A p \in Offs \ {o} : off'[p] = off[p]
           /\ UNCHANGED <<on, observer, registry, sent, arriving, works, helperGone, lapses, mishaps>>
<1>1. PICK u \in Uris \cup {NoUriGiven}, f \in Callbacks \cup {NoCallback} :
        /\ off' = [off EXCEPT ![o] = [at |-> "queued", list |-> FindRegisterObs(u, f)]]
        /\ instances' = instances \ FindRegisterObs(u, f)
  BY Zenon DEF NAPI_UnRegister
<1>2. FindRegisterObs(u, f) \subseteq instances
  BY DEF FindRegisterObs
<1>3. off'[o].at = "queued" /\ off'[o].list = FindRegisterObs(u, f)
  BY <1>1 DEF ObserverTypes
<1>4. \A p \in Offs \ {o} : off'[p] = off[p]
  BY <1>1 DEF ObserverTypes
<1> QED
  BY <1>1, <1>2, <1>3, <1>4 DEF NAPI_UnRegister

\* Its execute half changes only how far it is, and the registry.
LEMMA UnRegisterExecuteView ==
    ASSUME ObserverTypes, NEW o \in Offs, UnRegisterExecuteCB(o)
    PROVE  /\ off[o].at = "queued" /\ off'[o].at = "executed" /\ off'[o].list = off[o].list
           /\ \A p \in Offs \ {o} : off'[p] = off[p]
           /\ UNCHANGED <<on, observer, instances, sent, arriving, works, helperGone>>
BY DEF UnRegisterExecuteCB, ObserverTypes, OffCalls

\* Its completion frees what it found, or leaves it to a worker.
LEMMA UnRegisterCompleteView ==
    ASSUME ObserverTypes, NEW o \in Offs, UnRegisterCompleteCB(o)
    PROVE  /\ off[o].at = "executed" /\ off'[o].at = "done" /\ off'[o].list = {}
           /\ \A p \in Offs \ {o} : off'[p] = off[p]
           /\ OnlyCalls(off[o].list)
           /\ \A x \in off[o].list :
                 /\ SameCall(x) /\ observer'[x].pre = observer[x].pre
                 /\ observer[x].pre = 1 =>
                       /\ on'[x].freed = on[x].freed
                       /\ observer'[x].ref = observer[x].ref
                       /\ observer'[x].int = 1 /\ observer'[x].associated
                 /\ observer[x].pre # 1 => on'[x].freed /\ observer'[x].int = observer[x].int
           /\ UNCHANGED <<instances, registry, sent, arriving, works, helperGone>>
<1> DEFINE left == {r \in off[o].list : observer[r].pre = 1}
           gone == off[o].list \ left
<1>1. /\ observer' = [r \in Ons |->
                        IF r \in left THEN [observer[r] EXCEPT !.associated = TRUE, !.int = 1]
                        ELSE IF r \in gone THEN [observer[r] EXCEPT !.ref = "deleted"]
                        ELSE observer[r]]
      /\ on' = [r \in Ons |-> IF r \in gone THEN [on[r] EXCEPT !.freed = TRUE] ELSE on[r]]
      /\ off' = [off EXCEPT ![o] = [at |-> "done", list |-> {}]]
  BY Zenon DEF UnRegisterCompleteCB
<1>2. OnlyCalls(off[o].list)
  BY <1>1, Zenon DEF OnlyCalls
<1>3. ASSUME NEW x \in off[o].list, observer[x].pre = 1
      PROVE  /\ on'[x] = on[x]
             /\ observer'[x].ref = observer[x].ref /\ observer'[x].pre = observer[x].pre
             /\ observer'[x].int = 1 /\ observer'[x].associated
  <2>1. x \in Ons /\ x \in left /\ x \notin gone
    BY <1>3 DEF ObserverTypes, OffCalls
  <2> QED
    BY <1>1, <2>1, Zenon DEF ObserverTypes, Observers
<1>4. ASSUME NEW x \in off[o].list, observer[x].pre # 1
      PROVE  /\ SameCall(x) /\ on'[x].freed
             /\ observer'[x].int = observer[x].int /\ observer'[x].pre = observer[x].pre
  <2>1. x \in Ons /\ x \notin left /\ x \in gone
    BY <1>4 DEF ObserverTypes, OffCalls
  <2>2. on'[x] = [on[x] EXCEPT !.freed = TRUE] /\ on[x] \in OnCalls
    BY <1>1, <2>1, Zenon DEF ObserverTypes
  <2>3. observer'[x] = [observer[x] EXCEPT !.ref = "deleted"] /\ observer[x] \in Observers
    BY <1>1, <2>1, Zenon DEF ObserverTypes
  <2>4. SameCall(x) /\ on'[x].freed
    BY <2>2 DEF OnCalls, SameCall
  <2>5. observer'[x].int = observer[x].int /\ observer'[x].pre = observer[x].pre
    BY <2>3 DEF Observers
  <2> QED
    BY <2>4, <2>5
<1>5. /\ off'[o].at = "done" /\ off'[o].list = {}
      /\ \A p \in Offs \ {o} : off'[p] = off[p]
  BY <1>1, Zenon DEF ObserverTypes
<1>6. /\ off[o].at = "executed"
      /\ UNCHANGED <<instances, registry, sent, arriving, works, helperGone>>
  BY Zenon DEF UnRegisterCompleteCB
<1> QED
  BY <1>2, <1>3, <1>4, <1>5, <1>6 DEF SameCall

\* The collection of the helper frees one call of the list.
LEMMA HelperCollectedView ==
    ASSUME ObserverTypes, HelperCollected
    PROVE  /\ mishaps' = mishaps \cup {"collected"}
           /\ \/ UNCHANGED <<instances, on>>
              \/ \E r \in instances :
                    /\ instances' = instances \ {r}
                    /\ SameCall(r) /\ on'[r].freed
                    /\ \A x \in Ons \ {r} : on'[x] = on[x]
           /\ UNCHANGED <<observer, off, registry, sent, arriving, works, lapses>>
<1>1. CASE instances = {}
  BY <1>1 DEF HelperCollected
<1>2. CASE instances # {}
  <2>1. PICK r \in instances : instances' = instances \ {r} /\ on' = [on EXCEPT ![r].freed = TRUE]
    BY <1>2 DEF HelperCollected
  <2>2. r \in Ons
    BY DEF ObserverTypes
  <2>3. SameCall(r) /\ on'[r].freed
    BY <2>1, <2>2 DEF ObserverTypes, OnCalls, SameCall
  <2>4. \A x \in Ons \ {r} : on'[x] = on[x]
    BY <2>1, <2>2 DEF ObserverTypes
  <2>5. /\ mishaps' = mishaps \cup {"collected"}
        /\ UNCHANGED <<observer, off, registry, sent, arriving, works, lapses>>
    BY DEF HelperCollected
  <2> QED
    BY <2>1, <2>3, <2>4, <2>5
<1> QED
  BY <1>1, <1>2

\* OnChange marks the observer.
LEMMA OnChangeView ==
    ASSUME ObserverTypes, NEW r \in Ons, OnChange(r)
    PROVE  /\ sent[r] > 0 /\ sent'[r] = sent[r] - 1 /\ Pending(r)' = Pending(r) + 1
           /\ observer'[r].pre = 1 /\ observer'[r].int = observer[r].int
           /\ observer'[r].ref = observer[r].ref /\ observer'[r].associated = observer[r].associated
           /\ \A x \in Ons \ {r} : /\ observer'[x] = observer[x] /\ sent'[x] = sent[x]
                                    /\ Pending(x)' = Pending(x)
           /\ UNCHANGED <<on, off, instances, registry, helperGone, lapses>>
<1>1. /\ observer'[r].pre = 1 /\ observer'[r].int = observer[r].int
      /\ observer'[r].ref = observer[r].ref /\ observer'[r].associated = observer[r].associated
  BY DEF OnChange, ObserverTypes, Observers
<1>2. \A x \in Ons \ {r} : observer'[x] = observer[x] /\ sent'[x] = sent[x] /\ Pending(x)' = Pending(x)
  BY DEF OnChange, ObserverTypes, Pending
<1>3. sent[r] > 0 /\ sent'[r] = sent[r] - 1 /\ Pending(r)' = Pending(r) + 1
  BY DEF OnChange, ObserverTypes, Pending
<1> QED
  BY <1>1, <1>2, <1>3 DEF OnChange

\* The worker releases an observer that was left to it, and otherwise clears
\* the mark.
LEMMA WorkerView ==
    ASSUME ObserverTypes, NEW r \in Ons, OnChangeJSThreadWorker(r)
    PROVE  /\ works[r] > 0 /\ Pending(r)' = Pending(r) - 1
           /\ \A x \in Ons \ {r} : Pending(x)' = Pending(x)
           /\ OnlyCalls({r}) /\ SameCall(r) /\ observer'[r].int = observer[r].int
           /\ observer[r].int = 1 => /\ on'[r].freed <=> on[r].freed \/ observer[r].associated
                                     /\ observer'[r].pre = observer[r].pre
           /\ observer[r].int = 0 => /\ on'[r].freed = on[r].freed
                                     /\ observer'[r].pre = 0
                                     /\ observer'[r].ref = observer[r].ref
                                     /\ observer'[r].associated = observer[r].associated
           /\ UNCHANGED <<off, instances, registry, sent, helperGone, mishaps>>
<1>1. works[r] > 0 /\ Pending(r)' = Pending(r) - 1 /\ \A x \in Ons \ {r} : Pending(x)' = Pending(x)
  BY DEF OnChangeJSThreadWorker, ObserverTypes, Pending
<1>2. CASE observer[r].int = 1
  <2>1. /\ observer' = [observer EXCEPT ![r].ref = "deleted", ![r].associated = FALSE]
        /\ on' = [on EXCEPT ![r].freed = @ \/ observer[r].associated]
    BY <1>2 DEF OnChangeJSThreadWorker
  <2>2. OnlyCalls({r})
    BY <2>1 DEF OnlyCalls, ObserverTypes
  <2>3. SameCall(r) /\ (on'[r].freed <=> on[r].freed \/ observer[r].associated)
    BY <2>1, Zenon DEF ObserverTypes, OnCalls, SameCall
  <2>4. observer'[r].int = observer[r].int /\ observer'[r].pre = observer[r].pre
    BY <2>1 DEF ObserverTypes, Observers
  <2> QED
    BY <1>1, <1>2, <2>2, <2>3, <2>4 DEF OnChangeJSThreadWorker
<1>3. CASE observer[r].int # 1
  <2>1. observer' = [observer EXCEPT ![r].pre = 0] /\ on' = on
    BY <1>3 DEF OnChangeJSThreadWorker
  <2>2. OnlyCalls({r}) /\ SameCall(r) /\ on'[r].freed = on[r].freed
    BY <2>1 DEF OnlyCalls, SameCall, ObserverTypes
  <2>3. /\ observer'[r].pre = 0 /\ observer'[r].int = observer[r].int
        /\ observer'[r].ref = observer[r].ref /\ observer'[r].associated = observer[r].associated
    BY <2>1 DEF ObserverTypes, Observers
  <2> QED
    BY <1>1, <1>3, <2>2, <2>3 DEF OnChangeJSThreadWorker
<1> QED
  BY <1>2, <1>3

-------------------------------------------------------------------------------
(* Where an on() call is.                                                   *)

\* Every step keeps an on() in one place.
LEMMA PlaceNext ==
    ASSUME ObserverTypes, ObserverTypes', PlaceInv, ObserversNext
    PROVE  PlaceInv'
<1> USE DEF PlaceInv, Held, InList
<1>1. ASSUME NEW r \in Ons, NAPI_Register(r) PROVE PlaceInv'
  <2>1. ~Held(r)
    <3>1. on[r].at = "none"
      BY <1>1 DEF NAPI_Register
    <3> QED
      BY <3>1
  <2>2. \A x \in Ons : Pending(x)' = Pending(x)
    BY <1>1, RegisterView, Zenon DEF Pending
  <2>3. \A x \in instances : x \in Ons /\ x # r
    BY <2>1 DEF ObserverTypes
  <2>4. \A o \in Offs : \A x \in off[o].list : x \in Ons /\ x # r
    BY <2>1 DEF ObserverTypes, OffCalls
  <2> QED
    BY <1>1, <2>2, <2>3, <2>4, RegisterView DEF OnlyCalls
<1>2. ASSUME NEW r \in Ons, RegisterExecuteCB(r) PROVE PlaceInv'
  BY <1>2 DEF RegisterExecuteCB, ObserverTypes, OnCalls, Observers, OffCalls, Pending
<1>3. ASSUME NEW r \in Ons, RegisterCompleteCB(r) PROVE PlaceInv'
  BY <1>3, RegisterCompleteView DEF ObserverTypes, OffCalls, Pending
<1>4. ASSUME NEW r \in Ons, OnChange(r) PROVE PlaceInv'
  BY <1>4, OnChangeView DEF ObserverTypes
<1>5. ASSUME NEW r \in Ons, OnChangeQueues(r) PROVE PlaceInv'
  BY <1>5 DEF OnChangeQueues, ObserverTypes, Pending
<1>6. ASSUME NEW r \in Ons, OnChangeJSThreadWorker(r) PROVE PlaceInv'
  <2>1. Pending(r) > 0
    BY <1>6 DEF OnChangeJSThreadWorker, ObserverTypes, Pending
  <2>2. \A x \in Ons : SameCall(x) /\ observer'[x].int = observer[x].int
    BY <1>6, WorkerView DEF OnlyCalls, SameCall
  <2>3. \A x \in Ons : Pending(x)' > 0 => Pending(x) > 0
    BY <1>6, <2>1, WorkerView, Zenon
  <2>4. \A x \in Ons : ~on[x].valid => on'[x].freed = on[x].freed
    BY <1>6, <2>1, WorkerView DEF OnlyCalls
  <2>5. UNCHANGED <<off, instances, registry, sent>>
    BY <1>6, WorkerView, Zenon
  <2>6. \A x \in instances' : on'[x].at # "none" /\ on'[x].valid
    BY <2>2, <2>5, SMTT(30) DEF SameCall, ObserverTypes
  <2>7. \A o \in Offs : \A x \in off'[o].list : on'[x].at # "none" /\ on'[x].valid
    BY <2>2, <2>5 DEF SameCall, ObserverTypes, OffCalls
  <2>8. ASSUME NEW x \in Ons
        PROVE  /\ Held(x)' \/ on'[x].at = "none" => observer'[x].int = 0
               /\ sent'[x] > 0 \/ Pending(x)' > 0 \/ x \in registry'
                     => on'[x].at # "none" /\ on'[x].valid
               /\ ~on'[x].valid /\ on'[x].at # "done" => ~on'[x].freed
    BY <2>2, <2>3, <2>4, <2>5 DEF SameCall
  <2> QED
    BY <2>5, <2>6, <2>7, <2>8
<1>7. ASSUME NEW r \in Ons, NotifyObserver(r) PROVE PlaceInv'
  BY <1>7, SMTT(30) DEF NotifyObserver, ObserverTypes, Pending
<1>8. ASSUME NEW o \in Offs, NAPI_UnRegister(o) PROVE PlaceInv'
  BY <1>8, UnRegisterView DEF ObserverTypes, Pending
<1>9. ASSUME NEW o \in Offs, UnRegisterExecuteCB(o) PROVE PlaceInv'
  BY <1>9, UnRegisterExecuteView DEF UnRegisterExecuteCB, ObserverTypes, Pending
<1>10. ASSUME NEW o \in Offs, UnRegisterCompleteCB(o) PROVE PlaceInv'
  <2>1. \A x \in Ons : SameCall(x)
    BY <1>10, UnRegisterCompleteView DEF OnlyCalls, SameCall
  <2>2. \A x \in Ons : x \notin off[o].list => on'[x] = on[x] /\ observer'[x] = observer[x]
    BY <1>10, UnRegisterCompleteView DEF OnlyCalls
  <2>3. \A x \in off[o].list : ~Held(x)' /\ on[x].valid /\ on[x].at # "none"
    BY <1>10, UnRegisterCompleteView
  <2>4. \A x \in Ons : Held(x)' => Held(x) /\ x \notin off[o].list
    BY <1>10, <2>3, UnRegisterCompleteView
  <2>5. \A x \in Ons : Pending(x)' = Pending(x) /\ sent'[x] = sent[x]
    BY <1>10, UnRegisterCompleteView DEF Pending
  <2>6. registry' = registry /\ instances' = instances
    BY <1>10, UnRegisterCompleteView
  <2>7. ASSUME NEW x \in Ons
        PROVE /\ Held(x)' \/ on'[x].at = "none" => observer'[x].int = 0
              /\ ~on'[x].valid /\ on'[x].at # "done" => ~on'[x].freed
    <3>1. CASE x \in off[o].list
      BY <2>1, <2>3, <3>1 DEF SameCall
    <3>2. CASE x \notin off[o].list
      BY <2>2, <2>4, <3>2
    <3> QED
      BY <3>1, <3>2
  <2>8. ASSUME NEW p \in Offs, NEW x \in off'[p].list
        PROVE  x \in off[p].list /\ x \in Ons /\ off'[p].at = off[p].at
    BY <1>10, UnRegisterCompleteView, Zenon DEF ObserverTypes, OffCalls
  <2>9. \A p \in Offs : \A x \in off'[p].list :
          /\ x \notin instances'
          /\ on'[x].at # "none" /\ on'[x].valid
          /\ off'[p].at \in {"queued", "executed"}
          /\ \A q \in Offs : x \in off'[q].list => q = p
    BY <2>1, <2>6, <2>8 DEF SameCall
  <2>10. \A x \in instances' : on'[x].at # "none" /\ on'[x].valid
    BY <2>1, <2>6, SMTT(30) DEF SameCall, ObserverTypes
  <2>11. \A x \in Ons : sent'[x] > 0 \/ Pending(x)' > 0 \/ x \in registry'
                            => on'[x].at # "none" /\ on'[x].valid
    BY <2>1, <2>5, <2>6 DEF SameCall
  <2> QED
    BY <2>7, <2>9, <2>10, <2>11
<1>11. CASE HelperCollected
  BY <1>11, HelperCollectedView DEF ObserverTypes, OffCalls, SameCall, Pending
<1> QED
  BY <1>1, <1>2, <1>3, <1>4, <1>5, <1>6, <1>7, <1>8, <1>9, <1>10, <1>11, SMTT(30)
     DEF ObserversNext, ObserverWork

-------------------------------------------------------------------------------
(* Nothing freed is used.                                                   *)

\* A sum of pending notifications is a natural number.
LEMMA PendingNat == ASSUME ObserverTypes, NEW r \in Ons PROVE Pending(r) \in Nat
BY DEF ObserverTypes, Pending

\* Every step that adds none of the circumstances keeps LiveInv.
LEMMA LiveNext ==
    ASSUME ObserverTypes, ObserverTypes', PlaceInv, LiveInv, ObserversNext, ~Befell(StaleTags)'
    PROVE  LiveInv'
<1>0. mishaps' \cap StaleTags = {}
  BY DEF Befell
<1>a. ASSUME UNCHANGED <<off, instances>> PROVE \A x \in Ons : Held(x)' <=> Held(x)
  BY <1>a DEF Held, InList
<1>b. ASSUME UNCHANGED <<off, registry>>
      PROVE  \A o \in Offs : \A x \in off'[o].list : off'[o].at = "executed" => x \notin registry'
  BY <1>b DEF LiveInv
<1>c. ASSUME UNCHANGED <<arriving, works>> PROVE \A x \in Ons : Pending(x)' = Pending(x)
  BY <1>c DEF Pending
<1>1. ASSUME NEW r \in Ons, NAPI_Register(r) PROVE LiveInv'
  <2>1. on[r].at = "none" /\ ~Held(r) /\ Pending(r) = 0
    <3>1. on[r].at = "none"
      BY <1>1 DEF NAPI_Register
    <3> QED
      BY <3>1, PendingNat DEF PlaceInv, Held, InList
  <2>2. LiveCall(r)'
    BY <1>1, <2>1, <1>c, RegisterView, Zenon DEF LiveInv, LiveCall
  <2>3. ASSUME NEW x \in Ons, x # r PROVE LiveCall(x)'
    <3>1. (Held(x)' <=> Held(x)) /\ Pending(x)' = Pending(x)
      BY <1>1, <2>3, <1>c, RegisterView, Zenon DEF Held, InList
    <3>2. on'[x] = on[x] /\ observer'[x] = observer[x] /\ registry' = registry /\ sent' = sent
      BY <1>1, <2>3, RegisterView DEF OnlyCalls
    <3> QED
      BY <3>1, <3>2 DEF LiveInv, LiveCall
  <2> QED
    BY <1>1, <1>b, <2>2, <2>3, RegisterView, Zenon DEF LiveInv
<1>2. ASSUME NEW r \in Ons, RegisterExecuteCB(r) PROVE LiveInv'
  <2>1. r \in instances \/ ~on[r].valid
    BY <1>0, <1>2 DEF RegisterExecuteCB, If, StaleTags
  <2>2. ~on[r].freed
    <3>1. on[r].at = "queued"
      BY <1>2 DEF RegisterExecuteCB
    <3> QED
      BY <2>1, <3>1 DEF LiveInv, LiveCall, PlaceInv, Held, InList
  <2>3. lapses' = {} /\ ~helperGone'
    BY <1>2, <2>2 DEF RegisterExecuteCB, Lapse, If, LiveInv
  <2>4. registry' = registry \/ (registry' = registry \cup {r} /\ r \in instances)
    BY <1>2, <2>1 DEF RegisterExecuteCB
  <2>5. ASSUME NEW x \in Ons PROVE LiveCall(x)'
    <3>1. (Held(x)' <=> Held(x)) /\ Pending(x)' = Pending(x) /\ sent' = sent
      BY <1>2, <1>a, <1>c, RegisterExecuteView
    <3>2. on'[x].freed = on[x].freed /\ observer' = observer
      BY <1>2, RegisterExecuteView
    <3>3. x \in registry' => x \in registry \/ Held(x)
      BY <2>4 DEF Held, InList
    <3> QED
      BY <3>1, <3>2, <3>3 DEF LiveInv, LiveCall
  <2>6. ASSUME NEW o \in Offs, NEW x \in off'[o].list, off'[o].at = "executed"
        PROVE  x \notin registry'
    <3>1. off' = off
      BY <1>2, RegisterExecuteView
    <3> QED
      BY <2>4, <2>6, <3>1 DEF LiveInv, PlaceInv
  <2> QED
    BY <2>3, <2>5, <2>6 DEF LiveInv
<1>3. ASSUME NEW r \in Ons, RegisterCompleteCB(r) PROVE LiveInv'
  <2>1. on[r].valid => r \in instances
    BY <1>0, <1>3 DEF RegisterCompleteCB, If, StaleTags
  <2>2. on[r].valid => ~on[r].freed
    BY <2>1 DEF LiveInv, LiveCall, Held, InList
  <2>3. lapses' = {} /\ ~helperGone'
    BY <1>3, <2>2 DEF RegisterCompleteCB, Lapse, If, LiveInv
  <2>4. ASSUME NEW x \in Ons PROVE LiveCall(x)'
    <3>1. (Held(x)' <=> Held(x)) /\ Pending(x)' = Pending(x) /\ sent' = sent
      BY <1>3, <1>a, <1>c, RegisterCompleteView, SMTT(30)
    <3>2. observer' = observer /\ registry' = registry
      BY <1>3, RegisterCompleteView
    <3>3. Held(x) \/ Pending(x) > 0 => on[x].valid
      BY DEF PlaceInv, Held, InList
    <3>4. on[x].valid => on'[x].freed = on[x].freed
      BY <1>3, RegisterCompleteView, SMTT(30) DEF ObserverTypes, OnCalls
    <3> QED
      BY <3>1, <3>2, <3>3, <3>4 DEF LiveInv, LiveCall
  <2> QED
    BY <1>3, <1>b, <2>3, <2>4, RegisterCompleteView DEF LiveInv
<1>4. ASSUME NEW r \in Ons, OnChange(r) PROVE LiveInv'
  <2>1. Pending(r) = 0
    <3>1. ~(arriving[r] + works[r] > 0)
      BY <1>0, <1>4 DEF OnChange, If, StaleTags
    <3> QED
      BY <3>1, PendingNat DEF Pending
  <2>2. Held(r)
    BY <1>4, OnChangeView DEF LiveInv, LiveCall, ObserverTypes
  <2>3. \A x \in Ons : Held(x)' <=> Held(x)
    BY <1>4, <1>a, OnChangeView, Zenon
  <2>4. LiveCall(r)'
    <3>1. on' = on /\ Held(r)'
      BY <1>4, <2>2, <2>3, OnChangeView
    <3>2. Pending(r)' = 1 /\ observer'[r].pre = 1 /\ observer'[r].ref = observer[r].ref
      BY <1>4, <2>1, OnChangeView
    <3>3. ~on[r].freed /\ observer[r].ref # "deleted"
      BY <2>2 DEF LiveInv, LiveCall
    <3> QED
      BY <3>1, <3>2, <3>3 DEF LiveCall
  <2>5. ASSUME NEW x \in Ons, x # r PROVE LiveCall(x)'
    <3>1. on' = on /\ registry' = registry
      BY <1>4, OnChangeView
    <3>2. observer'[x] = observer[x] /\ Pending(x)' = Pending(x) /\ sent'[x] = sent[x]
      BY <1>4, <2>5, OnChangeView
    <3>3. LiveCall(x)
      BY DEF LiveInv
    <3> QED
      BY <2>3, <3>1, <3>2, <3>3 DEF LiveCall
  <2> QED
    BY <1>4, <1>b, <2>4, <2>5, OnChangeView DEF LiveInv
<1>5. ASSUME NEW r \in Ons, OnChangeQueues(r) PROVE LiveInv'
  <2>1. ASSUME NEW x \in Ons PROVE Pending(x)' <= Pending(x) /\ Pending(x)' \in Nat /\ Pending(x) \in Nat
    BY <1>5 DEF OnChangeQueues, Pending, ObserverTypes
  <2>2. UNCHANGED <<on, observer, off, instances, registry, sent, helperGone, lapses>>
    BY <1>5 DEF OnChangeQueues
  <2>3. ASSUME NEW x \in Ons PROVE LiveCall(x)'
    BY <1>a, <2>1, <2>2 DEF LiveInv, LiveCall
  <2> QED
    BY <1>b, <2>2, <2>3 DEF LiveInv
<1>6. ASSUME NEW r \in Ons, OnChangeJSThreadWorker(r) PROVE LiveInv'
  <2>1. Pending(r) = 1
    <3>1. Pending(r) > 0
      BY <1>6 DEF OnChangeJSThreadWorker, ObserverTypes, Pending
    <3> QED
      BY <3>1, PendingNat DEF LiveInv, LiveCall
  <2>2. ~on[r].freed /\ observer[r].ref # "deleted"
    BY <2>1 DEF LiveInv, LiveCall
  <2>3. lapses' = {} /\ ~helperGone'
    BY <1>6, <2>2 DEF OnChangeJSThreadWorker, Lapse, If, Kept, Released, LiveInv
  <2>4. \A x \in Ons : Held(x)' <=> Held(x)
    BY <1>6, <1>a, WorkerView, Zenon
  <2>5. LiveCall(r)'
    <3>1. Pending(r)' = 0 /\ registry' = registry /\ sent' = sent
      <4>1. Pending(r)' = Pending(r) - 1
        BY <1>6, WorkerView, Zenon
      <4>2. registry' = registry /\ sent' = sent
        BY <1>6, WorkerView, Zenon
      <4> QED
        BY <2>1, <4>1, <4>2
    <3>2. Held(r) => observer[r].int = 0
      BY DEF PlaceInv
    <3>3. Held(r) => ~on'[r].freed /\ observer'[r].ref # "deleted"
      BY <1>6, <2>2, <3>2, WorkerView, Zenon
    <3> QED
      BY <2>4, <3>1, <3>3 DEF LiveInv, LiveCall
  <2>6. ASSUME NEW x \in Ons, x # r PROVE LiveCall(x)'
    <3>1. /\ Pending(x)' = Pending(x) /\ on'[x] = on[x] /\ observer'[x] = observer[x]
          /\ registry' = registry /\ sent' = sent
      BY <1>6, <2>6, WorkerView DEF OnlyCalls
    <3> QED
      BY <2>4, <3>1 DEF LiveInv, LiveCall
  <2> QED
    BY <1>6, <1>b, <2>3, <2>5, <2>6, WorkerView, Zenon DEF LiveInv
<1>7. ASSUME NEW r \in Ons, NotifyObserver(r) PROVE LiveInv'
  <2>1. /\ r \in registry /\ \A x \in Ons : x # r => sent'[x] = sent[x]
        /\ UNCHANGED <<on, observer, off, instances, registry, arriving, works, helperGone, lapses>>
    BY <1>7 DEF NotifyObserver, ObserverTypes
  <2>2. ASSUME NEW x \in Ons PROVE LiveCall(x)'
    BY <1>a, <1>c, <2>1 DEF LiveInv, LiveCall
  <2> QED
    BY <1>b, <2>1, <2>2 DEF LiveInv
<1>8. ASSUME NEW o \in Offs, NAPI_UnRegister(o) PROVE LiveInv'
  <2>1. \A x \in Ons : Held(x)' <=> Held(x)
    <3>1. off[o].list = {}
      BY <1>8, SMTT(30) DEF NAPI_UnRegister, PlaceInv
    <3> QED
      BY <1>8, <3>1, UnRegisterView DEF Held, InList
  <2>2. ASSUME NEW x \in Ons PROVE LiveCall(x)'
    BY <1>8, <1>c, <2>1, UnRegisterView, Zenon DEF LiveInv, LiveCall
  <2> QED
    BY <1>8, <2>2, UnRegisterView DEF LiveInv
<1>9. ASSUME NEW o \in Offs, UnRegisterExecuteCB(o) PROVE LiveInv'
  <2>1. registry' = registry \ off[o].list
    BY <1>0, <1>9 DEF UnRegisterExecuteCB, If, StaleTags
  <2>2. lapses' = {} /\ ~helperGone'
    BY <1>9 DEF UnRegisterExecuteCB, Lapse, If, LiveInv
  <2>3. \A x \in Ons : Held(x)' <=> Held(x)
    BY <1>9, UnRegisterExecuteView, SMTT(30) DEF Held, InList
  <2>4. ASSUME NEW x \in Ons PROVE LiveCall(x)'
    BY <1>9, <1>c, <2>1, <2>3, UnRegisterExecuteView DEF LiveInv, LiveCall
  <2>5. ASSUME NEW p \in Offs, NEW x \in off'[p].list, off'[p].at = "executed"
        PROVE  x \notin registry'
    BY <1>9, <2>1, <2>5, UnRegisterExecuteView DEF LiveInv
  <2> QED
    BY <2>2, <2>4, <2>5 DEF LiveInv
<1>10. ASSUME NEW o \in Offs, UnRegisterCompleteCB(o) PROVE LiveInv'
  <2>1. \A x \in off[o].list : x \in Ons /\ sent[x] = 0
    <3>1. \A x \in off[o].list : ~(sent[x] > 0)
      BY <1>0, <1>10, Zenon DEF UnRegisterCompleteCB, If, StaleTags
    <3> QED
      BY <3>1 DEF ObserverTypes, OffCalls
  <2>2. \A x \in off[o].list : x \notin registry
    BY <1>10, UnRegisterCompleteView DEF LiveInv
  <2>3. lapses' = {} /\ ~helperGone'
    <3>1. \A x \in off[o].list : Released(x) = {}
      BY <2>1 DEF Released, If, LiveInv, LiveCall, Held, InList
    <3>2. PICK gone \in SUBSET off[o].list : lapses' = lapses \cup UNION {Released(x) : x \in gone}
      BY <1>10, Zenon DEF UnRegisterCompleteCB, Lapse
    <3>3. UNION {Released(x) : x \in gone} = {}
      BY <3>1
    <3>4. ~helperGone'
      BY <1>10, UnRegisterCompleteView DEF LiveInv
    <3> QED
      BY <3>2, <3>3, <3>4 DEF LiveInv
  <2>4. ASSUME NEW x \in off[o].list PROVE LiveCall(x)'
    <3>1. ~Held(x)' /\ x \in Ons
      BY <1>10, <2>1, UnRegisterCompleteView DEF PlaceInv, Held, InList
    <3>2. Pending(x)' = Pending(x) /\ sent' = sent /\ registry' = registry
      BY <1>10, <1>c, <3>1, UnRegisterCompleteView
    <3>3. /\ observer'[x].pre = observer[x].pre
          /\ observer[x].pre = 1 => on'[x].freed = on[x].freed /\ observer'[x].ref = observer[x].ref
      BY <1>10, UnRegisterCompleteView
    <3>4. Held(x)
      BY DEF Held, InList
    <3>5. LiveCall(x)
      BY <3>1 DEF LiveInv
    <3> QED
      BY <2>1, <2>2, <3>1, <3>2, <3>3, <3>4, <3>5, SMTT(30) DEF LiveCall
  <2>5. ASSUME NEW x \in Ons, x \notin off[o].list PROVE LiveCall(x)'
    <3>1. Held(x)' <=> Held(x)
      BY <1>10, <2>5, UnRegisterCompleteView, SMTT(30) DEF Held, InList
    <3>2. Pending(x)' = Pending(x) /\ sent' = sent /\ registry' = registry
      BY <1>10, <1>c, UnRegisterCompleteView
    <3>3. on'[x] = on[x] /\ observer'[x] = observer[x]
      BY <1>10, <2>5, UnRegisterCompleteView DEF OnlyCalls
    <3> QED
      BY <3>1, <3>2, <3>3 DEF LiveInv, LiveCall
  <2>6. ASSUME NEW p \in Offs, NEW x \in off'[p].list, off'[p].at = "executed"
        PROVE  x \notin registry'
    BY <1>10, <2>6, UnRegisterCompleteView DEF LiveInv
  <2> QED
    BY <2>3, <2>4, <2>5, <2>6 DEF LiveInv
<1>11. CASE HelperCollected
  BY <1>0, <1>11 DEF HelperCollected, StaleTags
<1> QED
  BY <1>1, <1>2, <1>3, <1>4, <1>5, <1>6, <1>7, <1>8, <1>9, <1>10, <1>11
     DEF ObserversNext, ObserverWork

-------------------------------------------------------------------------------
(* The registry and the list.                                               *)

\* Every step that adds none of the circumstances keeps the registry and the
\* list in step.
LEMMA RegistryNext ==
    ASSUME ObserverTypes, ObserverTypes', PlaceInv, RegistryInv, ObserversNext,
           ~Befell(RegistryTags)'
    PROVE  RegistryInv'
<1>0. mishaps' \cap RegistryTags = {}
  BY DEF Befell
<1>a. ASSUME UNCHANGED <<off, instances, registry>>,
             \A x \in Ons : on'[x].uri = on[x].uri /\ on'[x].at = on[x].at
      PROVE  RegistryInv'
  BY <1>a, SMTT(30) DEF RegistryInv, ObserverTypes
<1>1. ASSUME NEW r \in Ons, NAPI_Register(r) PROVE RegistryInv'
  <2>1. r \notin registry /\ r \notin instances
    <3>1. on[r].at = "none"
      BY <1>1 DEF NAPI_Register
    <3> QED
      BY <3>1 DEF PlaceInv
  <2>2. /\ on'[r].at = "queued" /\ \A x \in Ons : x # r => on'[x] = on[x]
        /\ instances' \subseteq instances \cup {r} /\ instances \subseteq instances'
        /\ registry' = registry /\ off' = off
    BY <1>1, RegisterView DEF OnlyCalls
  <2> QED
    BY <2>1, <2>2 DEF RegistryInv, ObserverTypes
<1>2. ASSUME NEW r \in Ons, RegisterExecuteCB(r) PROVE RegistryInv'
  <2>1. r \in instances \/ ~on[r].valid
    BY <1>0, <1>2 DEF RegisterExecuteCB, If, RegistryTags
  <2>2. registry' = IF on[r].valid /\ on[r].uri # NoUriGiven THEN registry \cup {r} ELSE registry
    BY <1>0, <1>2, SMTT(30) DEF RegisterExecuteCB, If, RegistryTags
  <2>3. /\ \A x \in Ons : on'[x].uri = on[x].uri
        /\ \A x \in Ons : x # r => on'[x].at = on[x].at
        /\ off' = off /\ instances' = instances
    BY <1>2, RegisterExecuteView
  <2>4. r \in instances => on[r].valid
    BY SMTT(30) DEF PlaceInv
  <2> QED
    BY <2>1, <2>2, <2>3, <2>4 DEF RegistryInv, ObserverTypes
<1>3. ASSUME NEW r \in Ons, RegisterCompleteCB(r) PROVE RegistryInv'
  <2>1. /\ on[r].at = "executed" /\ \A x \in Ons : on'[x].uri = on[x].uri
        /\ \A x \in Ons : x # r => on'[x].at = on[x].at
        /\ off' = off /\ instances' = instances /\ registry' = registry
    BY <1>3, RegisterCompleteView
  <2> QED
    BY <2>1, Zenon DEF RegistryInv, ObserverTypes
<1>4. ASSUME NEW r \in Ons, OnChange(r) \/ OnChangeQueues(r) \/ NotifyObserver(r) PROVE RegistryInv'
  BY <1>4, <1>a DEF OnChange, OnChangeQueues, NotifyObserver
<1>5. ASSUME NEW r \in Ons, OnChangeJSThreadWorker(r) PROVE RegistryInv'
  BY <1>5, <1>a, WorkerView DEF OnlyCalls, SameCall
<1>6. ASSUME NEW o \in Offs, NAPI_UnRegister(o) PROVE RegistryInv'
  <2>1. /\ off'[o].at = "queued" /\ instances' = instances \ off'[o].list
        /\ \A p \in Offs : p # o => off'[p] = off[p]
        /\ on' = on /\ registry' = registry /\ off[o].at = "none"
    BY <1>6, UnRegisterView
  <2>2. ASSUME NEW x \in registry
        PROVE  x \in instances' \/ \E p \in Offs : off'[p].at = "queued" /\ x \in off'[p].list
    <3>1. CASE x \in instances
      BY <2>1, <3>1
    <3>2. ASSUME NEW p \in Offs, off[p].at = "queued", x \in off[p].list
          PROVE  off'[p].at = "queued" /\ x \in off'[p].list
      BY <2>1, <3>2
    <3> QED
      BY <3>1, <3>2 DEF RegistryInv
  <2> QED
    BY <2>1, <2>2 DEF RegistryInv
<1>7. ASSUME NEW o \in Offs, UnRegisterExecuteCB(o) PROVE RegistryInv'
  <2>1. registry' = registry \ off[o].list
    BY <1>0, <1>7 DEF UnRegisterExecuteCB, If, RegistryTags
  <2>2. on' = on /\ instances' = instances /\ \A p \in Offs : p # o => off'[p] = off[p]
    BY <1>7, UnRegisterExecuteView
  <2>3. \A x \in instances : x \notin off[o].list
    BY SMTT(30) DEF PlaceInv
  <2> QED
    BY <2>1, <2>2, <2>3 DEF RegistryInv
<1>8. ASSUME NEW o \in Offs, UnRegisterCompleteCB(o) PROVE RegistryInv'
  <2>1. /\ off[o].at = "executed" /\ \A p \in Offs : p # o => off'[p] = off[p]
        /\ instances' = instances /\ registry' = registry
    BY <1>8, UnRegisterCompleteView, Zenon
  <2>2. \A x \in Ons : on'[x].uri = on[x].uri /\ on'[x].at = on[x].at
    BY <1>8, UnRegisterCompleteView DEF OnlyCalls, SameCall
  <2> QED
    BY <2>1, <2>2, Zenon DEF RegistryInv, ObserverTypes
<1>9. CASE HelperCollected
  BY <1>0, <1>9 DEF HelperCollected, RegistryTags
<1> QED
  BY <1>1, <1>2, <1>3, <1>4, <1>5, <1>6, <1>7, <1>8, <1>9, SMTT(30) DEF ObserversNext, ObserverWork

-------------------------------------------------------------------------------
(* Every call is freed.                                                     *)

\* Every step of a loop that refuses no work keeps FreedInv.
LEMMA FreedNext ==
    ASSUME ObserverTypes, ObserverTypes', PlaceInv, FreedInv, ObserversNext,
           ~Befell({"refused"})'
    PROVE  FreedInv'
<1>0. "refused" \notin mishaps'
  BY DEF Befell
<1>a. ASSUME UNCHANGED <<off, instances>> PROVE \A x \in Ons : Held(x)' <=> Held(x)
  BY <1>a DEF Held, InList
<1>c. ASSUME UNCHANGED <<arriving, works>> PROVE \A x \in Ons : Pending(x)' = Pending(x)
  BY <1>c, SMTT(30) DEF Pending
<1>1. ASSUME NEW r \in Ons, NAPI_Register(r) PROVE FreedInv'
  <2>1. ASSUME NEW x \in Ons, x # r
        PROVE  /\ on'[x] = on[x] /\ observer'[x] = observer[x]
               /\ (Held(x)' <=> Held(x)) /\ Pending(x)' = Pending(x)
    BY <1>1, <2>1, <1>c, RegisterView DEF OnlyCalls, Held, InList
  <2>2. /\ on'[r].at = "queued" /\ (on'[r].valid => Held(r)') /\ Pending(r)' = Pending(r)
        /\ observer'[r].int = observer[r].int /\ observer'[r].pre = observer[r].pre
    BY <1>1, <1>c, RegisterView, Zenon DEF Held, InList
  <2> QED
    BY <2>1, <2>2, SMTT(30) DEF FreedInv
<1>2. ASSUME NEW r \in Ons, RegisterExecuteCB(r) PROVE FreedInv'
  <2>1. ASSUME NEW x \in Ons
        PROVE  /\ on'[x].valid = on[x].valid /\ on'[x].freed = on[x].freed
               /\ on'[x].at # "none" => on[x].at # "none"
               /\ on'[x].at = "done" => on[x].at = "done"
               /\ observer'[x] = observer[x]
               /\ (Held(x)' <=> Held(x)) /\ Pending(x)' = Pending(x)
    BY <1>2, <1>a, <1>c, RegisterExecuteView
  <2> QED
    BY <2>1, SMTT(30) DEF FreedInv, Held, InList
<1>3. ASSUME NEW r \in Ons, RegisterCompleteCB(r) PROVE FreedInv'
  <2>1. ASSUME NEW x \in Ons
        PROVE  /\ on'[x].valid = on[x].valid /\ (on[x].freed => on'[x].freed)
               /\ on'[x].at # "none" => on[x].at # "none"
               /\ on'[x].at = "done" => on[x].at = "done" \/ on[x].valid \/ on'[x].freed
               /\ observer'[x] = observer[x]
               /\ (Held(x)' <=> Held(x)) /\ Pending(x)' = Pending(x)
    BY <1>3, <1>a, <1>c, RegisterCompleteView
  <2> QED
    BY <2>1, SMTT(30) DEF FreedInv
<1>4. ASSUME NEW r \in Ons, OnChange(r) PROVE FreedInv'
  <2>1. on' = on /\ \A x \in Ons : Held(x)' <=> Held(x)
    BY <1>4, <1>a, OnChangeView
  <2>2. ASSUME NEW x \in Ons, x # r PROVE observer'[x] = observer[x] /\ Pending(x)' = Pending(x)
    BY <1>4, <2>2, OnChangeView
  <2>3. Pending(r)' > 0
    <3>1. Pending(r)' = Pending(r) + 1
      BY <1>4, OnChangeView
    <3> QED
      BY <3>1, PendingNat
  <2>4. observer'[r].int = observer[r].int /\ observer'[r].associated = observer[r].associated
    BY <1>4, OnChangeView
  <2> QED
    BY <2>1, <2>2, <2>3, <2>4, SMTT(30) DEF FreedInv
<1>5. ASSUME NEW r \in Ons, OnChangeQueues(r) PROVE FreedInv'
  <2>1. /\ arriving' = [arriving EXCEPT ![r] = @ - 1] /\ works' = [works EXCEPT ![r] = @ + 1]
        /\ UNCHANGED <<on, observer, off, instances>>
    BY <1>0, <1>5 DEF OnChangeQueues
  <2>2. \A x \in Ons : Pending(x)' = Pending(x)
    BY <2>1 DEF Pending, ObserverTypes
  <2> QED
    BY <1>a, <2>1, <2>2 DEF FreedInv
<1>6. ASSUME NEW r \in Ons, OnChangeJSThreadWorker(r) PROVE FreedInv'
  <2>1. \A x \in Ons : SameCall(x) /\ (Held(x)' <=> Held(x)) /\ (on[x].freed => on'[x].freed)
    BY <1>6, <1>a, WorkerView, Zenon DEF OnlyCalls, SameCall, ObserverTypes, Observers
  <2>2. ASSUME NEW x \in Ons, x # r PROVE observer'[x] = observer[x] /\ Pending(x)' = Pending(x)
    BY <1>6, <2>2, WorkerView, Zenon DEF OnlyCalls
  <2>3. CASE observer[r].int = 1
    <3>1. on'[r].freed <=> on[r].freed \/ observer[r].associated
      BY <1>6, <2>3, WorkerView, Zenon
    <3>2. observer'[r].int = 1
      BY <1>6, <2>3, WorkerView, Zenon
    <3> QED
      BY <2>1, <2>2, <2>3, <3>1, <3>2, SMTT(30) DEF FreedInv, SameCall, Held, InList
  <2>4. CASE observer[r].int = 0
    <3>1. observer'[r].int = 0 /\ observer'[r].pre = 0 /\ on'[r].freed = on[r].freed
      BY <1>6, <2>4, WorkerView, Zenon
    <3> QED
      BY <2>1, <2>2, <2>4, <3>1 DEF FreedInv, SameCall
  <2> QED
    BY <2>3, <2>4 DEF ObserverTypes, Observers
<1>7. ASSUME NEW r \in Ons, NotifyObserver(r) PROVE FreedInv'
  BY <1>7, <1>a, <1>c DEF NotifyObserver, FreedInv
<1>8. ASSUME NEW o \in Offs, NAPI_UnRegister(o) PROVE FreedInv'
  <2>1. \A x \in Ons : Held(x)' <=> Held(x)
    <3>1. off[o].list = {}
      BY <1>8, SMTT(30) DEF NAPI_UnRegister, PlaceInv, Held, InList
    <3> QED
      BY <1>8, <3>1, UnRegisterView, SMTT(30) DEF Held, InList
  <2> QED
    BY <1>8, <1>c, <2>1, UnRegisterView DEF FreedInv
<1>9. ASSUME NEW o \in Offs, UnRegisterExecuteCB(o) PROVE FreedInv'
  <2>1. \A x \in Ons : Held(x)' <=> Held(x)
    BY <1>9, UnRegisterExecuteView, SMTT(30) DEF Held, InList
  <2> QED
    BY <1>9, <1>c, <2>1, UnRegisterExecuteView, SMTT(30) DEF FreedInv, Held, InList
<1>10. ASSUME NEW o \in Offs, UnRegisterCompleteCB(o) PROVE FreedInv'
  <2>1. \A x \in Ons : SameCall(x) /\ Pending(x)' = Pending(x)
    BY <1>10, <1>c, UnRegisterCompleteView, SMTT(30) DEF OnlyCalls, SameCall, Held, InList
  <2>2. ASSUME NEW x \in Ons, x \notin off[o].list
        PROVE  on'[x] = on[x] /\ observer'[x] = observer[x] /\ (Held(x)' <=> Held(x))
    BY <1>10, <2>2, UnRegisterCompleteView, SMTT(30) DEF OnlyCalls, Held, InList
  <2>3. ASSUME NEW x \in off[o].list, observer[x].pre = 1
        PROVE  observer'[x].int = 1 /\ observer'[x].associated /\ Pending(x) > 0
    <3>1. x \in Ons /\ observer[x].int = 0
      BY DEF PlaceInv, ObserverTypes, OffCalls, Held, InList
    <3> QED
      BY <1>10, <2>3, <3>1, UnRegisterCompleteView DEF FreedInv
  <2>4. ASSUME NEW x \in off[o].list, observer[x].pre # 1
        PROVE  on'[x].freed /\ observer'[x].pre # 1
    BY <1>10, <2>4, UnRegisterCompleteView, Zenon
  <2>5. \A x \in off[o].list : on[x].valid /\ x \in Ons
    BY SMTT(30) DEF PlaceInv, ObserverTypes, OffCalls
  <2> QED
    BY <2>1, <2>2, <2>3, <2>4, <2>5, SMTT(30) DEF FreedInv, SameCall
<1>11. CASE HelperCollected
  <2>1. UNCHANGED <<observer, off, arriving, works>>
    BY <1>11 DEF HelperCollected
  <2>2. ASSUME NEW x \in Ons
        PROVE  SameCall(x) /\ ((on'[x] = on[x] /\ (Held(x)' <=> Held(x))) \/ on'[x].freed)
    BY <1>11, HelperCollectedView, Zenon DEF SameCall, Held, InList
  <2> QED
    BY <1>c, <2>1, <2>2 DEF FreedInv, SameCall
<1> QED
  BY <1>1, <1>2, <1>3, <1>4, <1>5, <1>6, <1>7, <1>8, <1>9, <1>10, <1>11
     DEF ObserversNext, ObserverWork

-------------------------------------------------------------------------------
(* The theorems.                                                            *)

\* A circumstance that arose stays noted.
LEMMA MishapsGrow == ObserversNext => mishaps \subseteq mishaps'
BY Zenon DEF ObserversNext, ObserverWork, NAPI_Register, RegisterExecuteCB, RegisterCompleteCB,
       OnChange, OnChangeQueues, OnChangeJSThreadWorker, NotifyObserver, NAPI_UnRegister,
       UnRegisterExecuteCB, UnRegisterCompleteCB, HelperCollected

\* ObserversInv is inductive.
LEMMA ObserversNextInv == ObserversInv /\ [ObserversNext]_observerVars => ObserversInv'
<1> SUFFICES ASSUME ObserversInv, [ObserversNext]_observerVars PROVE ObserversInv'
  OBVIOUS
<1>1. CASE ObserversNext
  <2>1. ObserverTypes' /\ PlaceInv'
    BY <1>1, ObserversType, PlaceNext DEF ObserversInv
  <2>2. \A T : Befell(T) => Befell(T)'
    BY <1>1, MishapsGrow DEF Befell
  <2>3. Befell(StaleTags)' \/ LiveInv'
    BY <1>1, <2>1, <2>2, LiveNext DEF ObserversInv
  <2>4. Befell(RegistryTags)' \/ RegistryInv'
    BY <1>1, <2>1, <2>2, RegistryNext DEF ObserversInv
  <2>5. Befell({"refused"})' \/ FreedInv'
    BY <1>1, <2>1, <2>2, FreedNext DEF ObserversInv
  <2> QED
    BY <2>1, <2>3, <2>4, <2>5 DEF ObserversInv
<1>2. CASE UNCHANGED observerVars
  <2>1. UNCHANGED <<on, observer, off, instances, registry, sent, arriving, works, helperGone,
                    lapses, mishaps>>
    BY <1>2 DEF observerVars
  <2>2. \A r : (Held(r)' <=> Held(r)) /\ Pending(r)' = Pending(r)
    BY <2>1 DEF Held, InList, Pending
  <2>3. \A T : Befell(T)' <=> Befell(T)
    BY <2>1 DEF Befell
  <2>4. ObserverTypes' /\ PlaceInv'
    BY <2>1, <2>2, Zenon DEF ObserversInv, ObserverTypes, PlaceInv
  <2>5. LiveInv' <=> LiveInv
    BY <2>1, <2>2, SMTT(30) DEF LiveInv, LiveCall
  <2>6. (RegistryInv' <=> RegistryInv) /\ (FreedInv' <=> FreedInv)
    BY <2>1, <2>2 DEF RegistryInv, FreedInv
  <2> QED
    BY <2>3, <2>4, <2>5, <2>6 DEF ObserversInv
<1> QED
  BY <1>1, <1>2

\* The invariant holds in every state the observers reach.
LEMMA ObserversInvariant == ObserversSpec => []ObserversInv
BY ObserversInitInv, ObserversNextInv, PTL DEF ObserversSpec

\* The threads of on(), off() and the notifications use nothing that another
\* of them has freed, unless one of the five circumstances arose.
THEOREM NoStale == ObserversSpec => []NoStaleObserver
<1>1. ObserversInv => NoStaleObserver
  BY DEF ObserversInv, LiveInv, NoStaleObserver, StaleTags
<1> QED
  BY <1>1, ObserversInvariant, PTL

\* When nothing is under way the data observer manager knows exactly the
\* observers that are listed with a uri, and every on() that is not listed any
\* more is freed, each unless its circumstances arose.
THEOREM RegistryCorrect == ObserversSpec => []RegistryAgrees
<1>1. ObserversInv => RegistryAgrees
  <2> SUFFICES ASSUME ObserversInv, Idle PROVE RegistryAgrees
    BY DEF RegistryAgrees
  <2>1. \A o \in Offs : off[o].at # "queued" /\ off[o].list = {}
    BY DEF Idle, ObserversInv, PlaceInv
  <2>2. ASSUME RegistryInv PROVE registry = {r \in instances : on[r].uri # NoUriGiven}
    <3>1. \A r \in registry : r \in instances /\ on[r].uri # NoUriGiven
      BY <2>1, <2>2, SMTT(30) DEF RegistryInv
    <3>2. \A r \in instances : on[r].uri # NoUriGiven => r \in registry
      <4>1. \A r \in instances : r \in Ons /\ on[r].at # "none"
        BY DEF ObserversInv, PlaceInv, ObserverTypes
      <4> QED
        BY <2>2, <4>1, SMTT(30) DEF RegistryInv, Idle
    <3> QED
      BY <3>1, <3>2
  <2>3. ASSUME FreedInv
        PROVE  \A r \in Ons : on[r].at = "done" /\ r \notin instances => on[r].freed
    <3>1. \A r \in Ons : ~(Pending(r) > 0)
      <4>1. \A r \in Ons : sent[r] + arriving[r] + works[r] = 0
        BY DEF Idle
      <4>2. \A r \in Ons : sent[r] \in Nat /\ arriving[r] \in Nat /\ works[r] \in Nat
        BY DEF ObserversInv, ObserverTypes
      <4> QED
        BY <4>1, <4>2 DEF Pending
    <3> QED
      BY <2>1, <2>3, <3>1 DEF FreedInv, Held, InList
  <2> QED
    BY <2>2, <2>3 DEF ObserversInv, RegistryAgrees, RegistryTags
<1> QED
  BY <1>1, ObserversInvariant, PTL
===============================================================================
