------------------------- MODULE DataShareConsumer -------------------------
(***************************************************************************)
(* The consumer's half of DataShare, on top of the provider's: the methods *)
(* of the JavaScript DataShareHelper object (each an asynchronous call,    *)
(* executed on a worker thread and completed on the JavaScript thread),    *)
(* the native DataShareHelper, the one DataShareConnection of the process, *)
(* and the proxy that sends the requests.                                  *)
(*                                                                         *)
(* The workers run concurrently and share the helper's uri_ and            *)
(* dataShareProxy_ and the connection without a lock; each read or write   *)
(* of one of them is a step.  The ability manager, which connects and      *)
(* disconnects on request and calls back later, is external.               *)
(***************************************************************************)
EXTENDS DataShareProvider, Sequences

CONSTANTS Helpers,      \* names of helper objects
          Offers,       \* bound: [Calls -> the methods a call may be of]
          MaxPending    \* bound: requests the ability manager has not served

VARIABLES
    helper,      \* [Helpers -> a DataShareHelper: its uri_ and dataShareProxy_]
    connection,  \* DataShareConnection: dataShareProxy_ and isConnected_
    manager,     \* the requests to the ability manager, in order
    call,        \* [Calls -> an asynchronous call]
    events,      \* history: circumstances the properties name
    down         \* the consumer's process has crashed

consumerVars == <<helper, connection, manager, call, events, down>>
shareVars == <<providerVars, consumerVars>>

NoProxy == "none"
NoUri == ""
Foreign == "foreign"    \* a uri that is not a datashare one, or has no path

NoHelper == [state |-> "none", uri |-> NoUri, proxy |-> NoProxy, of |-> NoProxy]

NoCall == [at |-> "idle", method |-> "getType", helper |-> "none", uri |-> NoUri, arg |-> "given",
           how |-> "promise", answer |-> "empty", exec |-> "ok"]

ConsumerInit ==
    /\ helper = [h \in Helpers |-> NoHelper]
    /\ connection = [proxy |-> NoProxy, connected |-> FALSE]
    /\ manager = <<>>
    /\ call = [c \in Calls |-> NoCall]
    /\ events = {}
    /\ down = FALSE

To(c, f) == [call EXCEPT ![c] = f @@ @]

InFlight == {c \in Calls : call[c].at \in {"queued", "check", "acquire", "send", "asked"}}

On(c) == helper[call[c].helper]

\* A worker is in a call of one of these methods, and its helper exists.
Works(c, ms) == c \in InFlight /\ call[c].method \in ms /\ On(c).state # "freed"

-----------------------------------------------------------------------------
(* DataShareConnection and the ability manager.                            *)

PendingConnect == \E i \in DOMAIN manager : manager[i].type = "connect"

\* ConnectDataShareExtAbility asks; the answer comes later.
Connect(p) ==
    /\ Len(manager) < MaxPending
    /\ manager' = Append(manager, [type |-> "connect", provider |-> p])

\* DisconnectDataShareExtAbility forgets the proxy before it asks.
Disconnect ==
    /\ Len(manager) < MaxPending
    /\ connection' = [proxy |-> NoProxy, connected |-> FALSE]
    /\ manager' = Append(manager, [type |-> "disconnect", provider |-> NoProxy])

\* The provider runs (it is started if need be) and its stub is handed over,
\* or the remote object is null.
OnAbilityConnectDone ==
    /\ manager # <<>> /\ Head(manager).type = "connect"
    /\ manager' = Tail(manager)
    /\ \/ LET p == Head(manager).provider
          IN /\ connection' = [proxy |-> p, connected |-> TRUE]
             /\ alive' = [alive EXCEPT ![p] = TRUE]
             /\ UNCHANGED events
       \/ /\ events' = events \cup {"connectFailed"}
          /\ UNCHANGED <<connection, alive>>
    /\ UNCHANGED <<helper, call, down, request, js, deaths, ran, faults>>

OnAbilityDisconnectDone ==
    /\ manager # <<>> /\ Head(manager).type = "disconnect"
    /\ manager' = Tail(manager)
    /\ connection' = [proxy |-> NoProxy, connected |-> FALSE]
    /\ UNCHANGED <<helper, call, events, down, providerVars>>

\* The manager notices that a connected provider is gone.
ProviderLost(p) ==
    /\ ProviderDies(p)
    /\ IF connection.proxy = p
       THEN /\ Len(manager) < MaxPending
            /\ manager' = Append(manager, [type |-> "disconnect", provider |-> NoProxy])
       ELSE UNCHANGED manager
    /\ events' = events \cup {"died"}
    /\ UNCHANGED <<helper, connection, call, down>>

-----------------------------------------------------------------------------
(* Helper objects.                                                         *)

\* DataShareHelper::Creator: the connection of the process is used if there
\* is one, whatever uri it was made for.
Creator(h, p) ==
    /\ IF connection.connected THEN UNCHANGED manager ELSE Connect(p)
    /\ helper' = [helper EXCEPT ![h] = [state |-> "live", uri |-> p, of |-> p,
                                        proxy |-> connection.proxy]]

\* createDataShareHelper(): a uri that is not a datashare one is refused and
\* leaves no object.
DataShareHelperConstructor(h, p) ==
    /\ helper[h].state = "none"
    /\ Creator(h, p)
    /\ UNCHANGED <<connection, call, events, down, providerVars>>

\* The script has dropped the object and it is collected; a helper that has
\* observers is released first.  The calls under way hold a plain pointer to
\* the helper, which is freed.
Finalize(h) ==
    /\ helper[h].state = "live"
    /\ helper' = [helper EXCEPT ![h].state = "freed"]
    /\ LET early == IF \E c \in InFlight : call[c].helper = h THEN {"collected"} ELSE {}
       IN \E observing \in BOOLEAN :
             IF observing /\ connection.connected
             THEN Disconnect /\ events' = events \cup early \cup {"closed"}
             ELSE events' = events \cup early /\ UNCHANGED <<connection, manager>>
    /\ UNCHANGED <<call, down, providerVars>>

Crash(fault) ==
    /\ down' = TRUE
    /\ faults' = faults \cup {fault}
    /\ UNCHANGED <<helper, connection, manager, call, events, request, js, alive, deaths, ran>>

\* A worker goes on with a helper that has been freed.
UsesFreed(c) ==
    /\ c \in InFlight /\ On(c).state = "freed"
    /\ call[c].at = "asked" => request[c].at = "replied"
    /\ Crash("freedHelper")

-----------------------------------------------------------------------------
(* DataShareHelper's operations, on a worker thread.                       *)

Elsewhere == UNCHANGED <<helper, connection, manager, events, down, providerVars>>

Returns(c, answer) == To(c, [at |-> "returned", answer |-> answer])

CheckOhosUri(u) == u \in Providers

\* The released helper's own uri_ is no datashare uri, so the comparison of
\* the two paths is never reached.
CheckUriParam(c) == CheckOhosUri(call[c].uri) /\ On(c).uri # NoUri

Checks(c, fails) ==
    /\ call[c].at = "check"
    /\ call' = IF CheckUriParam(c) THEN To(c, [at |-> "acquire"]) ELSE Returns(c, fails)
    /\ Elsewhere

\* Defect: the test for a null proxy is missing.
AcquiresUntested(c, fails, connects) ==
    /\ call[c].at = "acquire"
    /\ helper' = [helper EXCEPT ![call[c].helper].proxy = connection.proxy]
    /\ call' = To(c, [at |-> "send"])
    /\ UNCHANGED <<connection, manager, events, down, providerVars>>

\* Defect: any call that finds no connection makes one, to its own uri.
AcquiresAnyway(c, fails, connects) ==
    /\ call[c].at = "acquire"
    /\ IF connection.connected THEN UNCHANGED manager ELSE Connect(call[c].uri)
    /\ helper' = [helper EXCEPT ![call[c].helper].proxy = connection.proxy]
    /\ call' = IF connection.proxy = NoProxy THEN Returns(c, fails) ELSE To(c, [at |-> "send"])
    /\ UNCHANGED <<connection, events, down, providerVars>>

\* The connection's proxy becomes the helper's; only a helper that is being
\* released at this moment connects first.
Acquires(c, fails, connects) ==
    /\ call[c].at = "acquire"
    /\ IF connects /\ ~connection.connected
       THEN Connect(call[c].uri) /\ events' = events \cup {"reopened"}
       ELSE UNCHANGED <<manager, events>>
    /\ helper' = [helper EXCEPT ![call[c].helper].proxy = connection.proxy]
    /\ call' = IF connection.proxy = NoProxy THEN Returns(c, fails) ELSE To(c, [at |-> "send"])
    /\ UNCHANGED <<connection, down, providerVars>>

\* dataShareProxy_ is read again.
Sends(c) ==
    /\ call[c].at = "send"
    /\ IF On(c).proxy = NoProxy
       THEN Crash("nullProxy")
       ELSE /\ call' = To(c, [at |-> "asked"])
            /\ request' = [request EXCEPT ![c] =
                             IF alive[On(c).proxy]
                             THEN Ask(c, call[c].method, On(c).proxy, call[c].arg)
                             ELSE [Ask(c, call[c].method, On(c).proxy, call[c].arg)
                                     EXCEPT !.at = "replied", !.answer = Error, !.why = "died"]]
            /\ UNCHANGED <<helper, connection, manager, events, down, js, alive, deaths, ran, faults>>

\* The proxy has the reply.  A helper released in the meantime closes the
\* connection, whoever opened it.
Receives(c, answer) ==
    /\ call[c].at = "asked" /\ request[c].at = "replied"
    /\ IF On(c).uri = NoUri
       THEN /\ IF connection.connected
               THEN Disconnect /\ events' = events \cup {"closed"}
               ELSE UNCHANGED <<connection, manager, events>>
            /\ helper' = [helper EXCEPT ![call[c].helper].proxy = NoProxy]
       ELSE UNCHANGED <<helper, connection, manager, events>>
    /\ call' = Returns(c, answer)
    /\ UNCHANGED <<down, providerVars>>

HelperCall(c, ms, fails, answer) ==
    /\ Works(c, ms)
    /\ \/ Checks(c, fails)
       \/ Acquires(c, fails, On(c).uri = NoUri)
       \/ Sends(c)
       \/ Receives(c, answer)

\* DataShareProxy: what stands for a request that failed.
ProxyFiles(m, reply) ==
    IF reply # Error THEN reply ELSE IF m = "getFileTypes" THEN "empty" ELSE "minusOne"

\* Defect: 0 stands for a request that failed.
ProxyWritesZero(reply) == IF reply # Error THEN reply ELSE "zero"

ProxyWrites(reply) == IF reply # Error THEN reply ELSE "minusOne"

ProxyQuery(reply) == IF reply # Error THEN reply ELSE "noSet"

ProxyGetType(reply) == IF reply # Error THEN reply ELSE "empty"

ProxyBatchInsert(reply) == IF reply # Error THEN reply ELSE "minusOne"

ProxyUris(reply) == IF reply # Error THEN reply ELSE "empty"

HelperGetFileTypes(c) ==
    HelperCall(c, {"getFileTypes"}, "empty", ProxyFiles("getFileTypes", request[c].answer))

HelperOpens(c) ==
    HelperCall(c, {"openFile", "openRawFile"}, "minusOne", ProxyFiles("openFile", request[c].answer))

HelperWrites(c) ==
    HelperCall(c, {"insert", "update", "delete"}, "minusOne", ProxyWrites(request[c].answer))

HelperQuery(c) == HelperCall(c, {"query"}, "noSet", ProxyQuery(request[c].answer))

HelperGetType(c) == HelperCall(c, {"getType"}, "empty", ProxyGetType(request[c].answer))

HelperBatchInsert(c) ==
    HelperCall(c, {"batchInsert"}, "minusOne", ProxyBatchInsert(request[c].answer))

HelperUris(c) == HelperCall(c, Uris, "empty", ProxyUris(request[c].answer))

\* NotifyChange looks at the helper's own proxy to decide whether to connect,
\* and drops what the proxy answers.
HelperNotifyChange(c) ==
    /\ Works(c, {"notifyChange"})
    /\ \/ Checks(c, "void")
       \/ Acquires(c, "void", On(c).proxy = NoProxy)
       \/ Sends(c)
       \/ Receives(c, "void")

\* Defect: the connection is not closed.
HelperReleaseKeeps(c) ==
    /\ Works(c, {"release"}) /\ call[c].at = "check"
    /\ helper' = [helper EXCEPT ![call[c].helper].proxy = NoProxy,
                                ![call[c].helper].uri = NoUri]
    /\ call' = Returns(c, "true")
    /\ events' = events \cup {"released"}
    /\ UNCHANGED <<connection, manager, down, providerVars>>

\* Release: the connection is closed first, then the helper forgets its proxy
\* and its uri.
HelperRelease(c) ==
    /\ Works(c, {"release"})
    /\ \/ /\ call[c].at = "check"
          /\ IF connection.connected
             THEN Disconnect /\ events' = events \cup {"closed"}
             ELSE /\ events' = IF PendingConnect THEN events \cup {"releasedEarly"} ELSE events
                  /\ UNCHANGED <<connection, manager>>
          /\ call' = To(c, [at |-> "acquire"])
          /\ UNCHANGED <<helper, down, providerVars>>
       \/ /\ call[c].at = "acquire"
          /\ helper' = [helper EXCEPT ![call[c].helper].proxy = NoProxy,
                                      ![call[c].helper].uri = NoUri]
          /\ call' = Returns(c, "true")
          /\ events' = events \cup {"released"}
          /\ UNCHANGED <<connection, manager, down, providerVars>>

-----------------------------------------------------------------------------
(* The methods of the JavaScript object.  NAPI_X runs on the JavaScript    *)
(* thread and queues the work, XExecuteCB runs on a worker around the      *)
(* helper's operation, XCompleteCB runs on the JavaScript thread again.    *)

Targets == Providers \cup {NoUri, Foreign}

Starts(c, m, uris, args) ==
    /\ call[c].at = "idle" /\ m \in Offers[c]
    /\ \E h \in Helpers, u \in uris, a \in args :
          /\ helper[h].state = "live"
          /\ call' = [call EXCEPT ![c] = [NoCall EXCEPT !.at = "queued", !.method = m, !.helper = h,
                                                        !.uri = u, !.arg = a]]
    /\ Elsewhere

\* initial: the result that stands when the uri is empty and nothing is asked.
Executes(c, m, initial) ==
    /\ call[c].method = m
    /\ \/ /\ call[c].at = "queued" /\ On(c).state # "freed"
          /\ call' = IF call[c].uri = NoUri
                     THEN To(c, [at |-> "executed", exec |-> "invalid", answer |-> initial])
                     ELSE To(c, [at |-> "check"])
       \/ /\ call[c].at = "returned"
          /\ call' = To(c, [at |-> "executed",
                            exec |-> IF m = "query" /\ call[c].answer = "noSet" THEN "invalid" ELSE "ok"])
    /\ Elsewhere

\* The callback is called with the error and the result; when what was passed
\* for it is not a function, nobody is.  A promise is resolved with the
\* result, whatever the error is.
Completes(c, m) ==
    /\ call[c].method = m /\ call[c].at = "executed"
    /\ \/ call' = To(c, [at |-> "settled", how |-> "callback"])
       \/ call' = To(c, [at |-> "unheard"])
       \/ call' = To(c, [at |-> "settled", how |-> "promise", exec |-> "ok"])
    /\ Elsewhere

NAPI_Insert(c) == Starts(c, "insert", Targets, {"given"})
InsertExecuteCB(c) == Executes(c, "insert", "zero")
InsertCompleteCB(c) == Completes(c, "insert")

NAPI_NotifyChange(c) == Starts(c, "notifyChange", Targets, {"given"})
NotifyChangeExecuteCB(c) == Executes(c, "notifyChange", "void")
NotifyChangeCompleteCB(c) == Completes(c, "notifyChange")

NAPI_GetType(c) == Starts(c, "getType", Targets, {"given"})
GetTypeExecuteCB(c) == Executes(c, "getType", "empty")
GetTypeCompleteCB(c) == Completes(c, "getType")

NAPI_GetFileTypes(c) == Starts(c, "getFileTypes", Targets, {"given", "empty"})
GetFileTypesExecuteCB(c) == Executes(c, "getFileTypes", "empty")
GetFileTypesCompleteCB(c) == Completes(c, "getFileTypes")

NAPI_NormalizeUri(c) == Starts(c, "normalizeUri", Targets, {"given"})
NormalizeUriExecuteCB(c) == Executes(c, "normalizeUri", "empty")
NormalizeUriCompleteCB(c) == Completes(c, "normalizeUri")

NAPI_DenormalizeUri(c) == Starts(c, "denormalizeUri", Targets, {"given"})
DenormalizeUriExecuteCB(c) == Executes(c, "denormalizeUri", "empty")
DenormalizeUriCompleteCB(c) == Completes(c, "denormalizeUri")

NAPI_Delete(c) == Starts(c, "delete", Targets, {"given"})
DeleteExecuteCB(c) == Executes(c, "delete", "zero")
DeleteCompleteCB(c) == Completes(c, "delete")

NAPI_Update(c) == Starts(c, "update", Targets, {"given"})
UpdateExecuteCB(c) == Executes(c, "update", "zero")
UpdateCompleteCB(c) == Completes(c, "update")

NAPI_OpenFile(c) == Starts(c, "openFile", Targets, {"given", "empty"})
OpenFileExecuteCB(c) == Executes(c, "openFile", "zero")
OpenFileCompleteCB(c) == Completes(c, "openFile")

NAPI_BatchInsert(c) == Starts(c, "batchInsert", Targets, {"given"})
BatchInsertExecuteCB(c) == Executes(c, "batchInsert", "zero")
BatchInsertCompleteCB(c) == Completes(c, "batchInsert")

NAPI_Query(c) == Starts(c, "query", Targets, {"given"})
QueryExecuteCB(c) == Executes(c, "query", "noSet")
QueryCompleteCB(c) == Completes(c, "query")

NAPI_Release(c) == Starts(c, "release", {NoUri}, {"given"})
ReleaseCompleteCB(c) == Completes(c, "release")
ReleaseExecuteCB(c) ==
    /\ call[c].method = "release"
    /\ \/ call[c].at = "queued" /\ On(c).state # "freed" /\ call' = To(c, [at |-> "check"])
       \/ call[c].at = "returned" /\ call' = To(c, [at |-> "executed"])
    /\ Elsewhere

\* openRawFile has no JavaScript form: a native caller makes the call and
\* gets the answer.
NativeOpenRawFile(c) == Starts(c, "openRawFile", Targets, {"given", "empty"})
NativeRuns(c) ==
    /\ call[c].method = "openRawFile"
    /\ \/ call[c].at = "queued" /\ On(c).state # "freed" /\ call' = To(c, [at |-> "check"])
       \/ call[c].at = "returned" /\ call' = To(c, [at |-> "settled"])
    /\ Elsewhere
-----------------------------------------------------------------------------
Begins(c) ==
    \/ NAPI_Insert(c) \/ NAPI_NotifyChange(c) \/ NAPI_GetType(c) \/ NAPI_GetFileTypes(c)
    \/ NAPI_NormalizeUri(c) \/ NAPI_DenormalizeUri(c) \/ NAPI_Delete(c) \/ NAPI_Update(c)
    \/ NAPI_OpenFile(c) \/ NAPI_BatchInsert(c) \/ NAPI_Query(c) \/ NAPI_Release(c)
    \/ NativeOpenRawFile(c)

WorkerStep(c) ==
    \/ InsertExecuteCB(c) \/ NotifyChangeExecuteCB(c) \/ GetTypeExecuteCB(c)
    \/ GetFileTypesExecuteCB(c) \/ NormalizeUriExecuteCB(c) \/ DenormalizeUriExecuteCB(c)
    \/ DeleteExecuteCB(c) \/ UpdateExecuteCB(c) \/ OpenFileExecuteCB(c)
    \/ BatchInsertExecuteCB(c) \/ QueryExecuteCB(c) \/ ReleaseExecuteCB(c)
    \/ HelperGetFileTypes(c) \/ HelperOpens(c) \/ HelperWrites(c) \/ HelperQuery(c)
    \/ HelperGetType(c) \/ HelperBatchInsert(c) \/ HelperUris(c) \/ HelperNotifyChange(c)
    \/ HelperRelease(c) \/ UsesFreed(c)

JsCompletes(c) ==
    \/ InsertCompleteCB(c) \/ NotifyChangeCompleteCB(c) \/ GetTypeCompleteCB(c)
    \/ GetFileTypesCompleteCB(c) \/ NormalizeUriCompleteCB(c) \/ DenormalizeUriCompleteCB(c)
    \/ DeleteCompleteCB(c) \/ UpdateCompleteCB(c) \/ OpenFileCompleteCB(c)
    \/ BatchInsertCompleteCB(c) \/ QueryCompleteCB(c) \/ ReleaseCompleteCB(c)

CallStep(c) == ~down /\ (WorkerStep(c) \/ JsCompletes(c) \/ NativeRuns(c))

ManagerStep == ~down /\ (OnAbilityConnectDone \/ OnAbilityDisconnectDone)

ShareNext ==
    \/ \E c \in Calls : (~down /\ Begins(c)) \/ CallStep(c)
                        \/ (ProviderStep(c) /\ UNCHANGED consumerVars)
    \/ ManagerStep
    \/ \E h \in Helpers, p \in Providers : ~down /\ DataShareHelperConstructor(h, p)
    \/ \E h \in Helpers : ~down /\ Finalize(h)
    \/ \E p \in Providers : ProviderLost(p)

ShareInit == ProviderInit /\ ConsumerInit

\* Workers, the JavaScript threads and binder threads are all scheduled, the
\* ability manager answers, and wait_for returns in the end; nothing is
\* assumed of the script, of the extension's methods or of crashes.
ShareFairness ==
    /\ \A c \in Calls : WF_shareVars(CallStep(c))
                        /\ WF_shareVars(ProviderStep(c) /\ UNCHANGED consumerVars)
    /\ WF_shareVars(ManagerStep)

-----------------------------------------------------------------------------
Happened(tags) == events \cap tags # {}

Made == {h \in Helpers : helper[h].state # "none"}

\* What the script is told is what happened: a call settles with the value of
\* the extension's method if and only if that method ran to its end in some
\* provider.  Not so when SyncCall gave up waiting (the method runs later),
\* the provider died after it ran, or openFile returned a negative descriptor,
\* in whose place the stub puts an error.
Truthful ==
    \A c \in Calls : call[c].at = "settled" /\ call[c].method \notin {"notifyChange", "release"} =>
        \/ call[c].answer = "value" <=> \E p \in Providers : <<c, p>> \in ran
        \/ request[c].late
        \/ request[c].why \in {"died", "negative"}

\* A write or query that no provider ran is reported as failed: by the error
\* code, by -1 or by no result set, never as a plain 0 or an empty result.
\* The exceptions: the extension has no such method (the base class answers
\* 0), the entry could not be queued or was not answered in time (the stub's
\* initial `ret` is 0), a query was not permitted, and an empty uri, whose
\* error a promise does not carry.
FailureTold ==
    \A c \in Calls : call[c].at = "settled" /\ call[c].method \in Writes \cup {"query"}
                     /\ (\A p \in Providers : <<c, p>> \notin ran) =>
        \/ call[c].exec = "invalid"
        \/ call[c].answer \in {"minusOne", "noSet"}
        \/ request[c].why \in {"missing", "notQueued"}
        \/ request[c].late
        \/ request[c].why = "denied" /\ call[c].method = "query"
        \/ call[c].uri = NoUri /\ call[c].how = "promise"

\* Threads do not use what is gone.  A worker finds dataShareProxy_ null after
\* its own test only when a helper was released, the connection closed or the
\* provider lost in the meantime, and a freed helper only when the object was collected
\* under the call; the provider's loop writes to a dead frame, calls back with
\* a freed entry or waits for its own mutex only when SyncCall had given up.
\* One fault needs no circumstance and has no clause, "freedMutex": every call
\* of Purge unlocks the mutex of the entry it has freed.
NoFault ==
    /\ "nullProxy" \in faults => Happened({"released", "closed", "died"})
    /\ "freedHelper" \in faults => Happened({"collected"})
    /\ faults \cap {"deadFrame", "freedEntry", "stuck"} # {} => \E c \in Calls : request[c].late

\* A call is served by the provider its uri names, or at least by one for
\* which this process made a helper: the one connection is shared by all.
\* NotifyChange, and a call overtaken by a release, connect to the uri they
\* were given, which changes the provider of everybody else.
RightProvider ==
    \A c \in Calls, p \in Providers : <<c, p>> \in ran =>
        \/ p = call[c].uri
        \/ \E h \in Made : helper[h].of = p
        \/ Happened({"reopened"})

\* When nothing is under way the process is bound to a provider as long as a
\* helper needs it, and no longer.  A release that comes before the connection
\* is made closes nothing, and a call overtaken by a release connects again; a
\* connection may fail or be lost, and the release of one helper closes the
\* connection that all of them share.
ConnectedAsNeeded ==
    ~down /\ manager = <<>> /\ InFlight = {} =>
        IF \A h \in Made : helper[h].uri = NoUri
        THEN ~connection.connected \/ Happened({"releasedEarly", "reopened"})
        ELSE connection.connected \/ Happened({"connectFailed", "died", "closed"})

\* Every call settles: SyncCall's wait is bounded, so a method of the
\* extension that never returns holds up only the request it is serving.
Settles ==
    \A c \in Calls : call[c].at = "queued" ~>
        \/ call[c].at \in {"settled", "unheard"}
        \/ down
        \/ request[c].entry = "running" /\ js[request[c].to] = "hung"
=============================================================================
