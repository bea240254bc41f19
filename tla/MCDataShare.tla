---------------------------- MODULE MCDataShare ----------------------------
EXTENDS DataShareConsumer

VARIABLE scene    \* which small instance this behaviour is one of

mcVars == <<shareVars, scene>>

MCOffers == [c1 |-> Methods \cup {"release"}, c2 |-> {"release", "insert", "notifyChange"}]

Used(c) == call'[c].at # "idle"

\* The provider answers every request in time.
Prompt == /\ \A c \in Calls : ~request'[c].late /\ request'[c].why \notin {"notQueued", "missing", "denied"}
          /\ \A p \in Providers : js'[p] # "hung"

\* One helper of one provider: any method, with a release at the same time.
\* The methods share their paths in groups; of each group one meets the
\* provider's death and the collection of the helper.
Representatives == {"getFileTypes", "openFile", "insert", "query", "notifyChange"}

OneHelper ==
    /\ call'["c1"].method \in Representatives \/ (deaths' = 0 /\ helper'["h1"].state # "freed")
    /\ helper'["h2"].state = "none" /\ helper'["h1"].of # "p2"
    /\ \A c \in Calls : call'[c].uri # "p2"
    /\ Used("c2") => call'["c2"].method = "release"

\* One helper, two writes at the same time: one may wait behind the other in
\* the provider, or another helper is made and collected under them.
TwoWrites ==
    /\ Prompt \/ (deaths' = 0 /\ helper'["h2"].state = "none")
    /\ \A h \in Helpers : helper'[h].of # "p2"
    /\ helper'["h1"].state # "freed"
    /\ \A c \in Calls : Used(c) => call'[c].method = "insert" /\ call'[c].uri = "p1" /\ call'[c].helper = "h1"

\* Two helpers and two providers.
TwoHelpers ==
    /\ Prompt /\ deaths' = 0
    /\ helper'["h1"].of # "p2" /\ helper'["h1"].state # "freed"
    /\ Used("c1") => call'["c1"].method = "insert" /\ call'["c1"].helper = "h1" /\ call'["c1"].uri = "p1"
    /\ Used("c2") => call'["c2"].helper = "h2" /\ call'["c2"].uri # Foreign
                     /\ (call'["c2"].uri = NoUri => call'["c2"].method = "release")

Scene == \/ scene = "one helper" /\ OneHelper
         \/ scene = "two writes" /\ TwoWrites
         \/ scene = "two helpers" /\ TwoHelpers

MCInit == ShareInit /\ scene \in {"one helper", "two writes", "two helpers"}

MCNext == ShareNext /\ Scene /\ UNCHANGED scene

MCSpec == MCInit /\ [][MCNext]_mcVars

\* For liveness the helper makes one call of a few kinds beside a release.
MCLiveInit == ShareInit /\ scene \in {"one helper", "two writes"}

MCLiveNext ==
    /\ MCNext
    /\ Used("c1") => call'["c1"].method \in {"insert", "notifyChange"}

MCLiveSpec == MCLiveInit /\ [][MCLiveNext]_mcVars /\ ShareFairness
=============================================================================
