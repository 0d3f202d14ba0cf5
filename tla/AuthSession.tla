----------------------------- MODULE AuthSession -----------------------------
(***************************************************************************)
(* The authentication session of the extension host: shared/authService.ts *)
(* and its callers in extension.ts and staticHandlers.ts.                  *)
(*                                                                         *)
(* One JavaScript thread runs many handlers.  Each is a process here, and  *)
(* a step takes it from one await to the next: what the awaited call did   *)
(* (a secret read or written, a request answered) and the code that        *)
(* follows it.  Between two steps the other handlers run.                  *)
(*                                                                         *)
(* A secret is the number of the server's answer it came from, 0 if it is  *)
(* absent.  An answer to a login opens a session, named after it; each     *)
(* rotation of its refresh token is a later answer for the same session.   *)
(***************************************************************************)
EXTENDS Naturals, FiniteSets, Sequences

CONSTANTS
    Proc,        \* handlers that may run at once
    NoProc,
    MaxAnswers,  \* model bound: tokens the server ever issues
    MaxEpoch,    \* model bound: logins and logouts
    Lossy        \* whether requests and answers may get lost, or the server fail

ASSUME AuthProcAssumption == NoProc \notin Proc /\ IsFiniteSet(Proc)
ASSUME MaxAnswersAssumption == MaxAnswers \in Nat \ {0}
ASSUME MaxEpochAssumption == MaxEpoch \in Nat
ASSUME LossyAssumption == Lossy \in BOOLEAN

Answer == 1 .. MaxAnswers

\* SECRET_KEYS, but for those that identify the installation.
Key == {"accessToken", "refreshToken", "contentKeys", "email", "keysValidatedAt",
        "leaseExpiresAt"}

\* What logout deletes, in this order; so does a refused refreshKeysIfStale.
SessionKeys == <<"accessToken", "refreshToken", "contentKeys", "email",
                 "keysValidatedAt", "leaseExpiresAt">>

\* What _store writes: an email comes with a login only.
StoredKeys(op) ==
    IF op = "login"
    THEN <<"accessToken", "refreshToken", "email", "keysValidatedAt">>
    ELSE <<"accessToken", "refreshToken", "keysValidatedAt">>

\* What _syncLicenseLeases writes.
LeaseKeys == <<"contentKeys", "leaseExpiresAt">>

-----------------------------------------------------------------------------
VARIABLES
    secrets,    \* the secret storage
    epoch,      \* _sessionEpoch
    inFlight,   \* _refreshInFlight: the handler that runs the rotation
    identified, \* _serverIdentity is known
    timer,      \* a refresh is due: the one at activation, or _refreshTimer
    pc, ctx,    \* the await each handler is at, and its local variables
    session,    \* server: the session of each answer, 0 if not issued
    current,    \* server: the token each session accepts, 0 if none
    (* Ghosts: they record, and guard nothing. *)
    spoiled,    \* tokens whose successor this host may never store
    replayed,   \* tokens the server has seen again after consuming them
    ended       \* the latest of logins and logouts is a logout

client == <<secrets, epoch, inFlight, identified, timer>>
server == <<session, current>>
ghosts == <<spoiled, replayed, ended>>
vars == <<client, pc, ctx, server, ghosts>>

Op == {"none", "login", "logout", "refresh", "refreshKeysIfStale"}

\* Where a handler awaits: the server's identity, a secret it reads, the
\* server's answer to a login, the server with a rotation on its way to it and
\* back, another's rotation, a secret it writes, the lease requests.
Pc == {"idle", "identity", "validatedAt", "refreshToken", "login", "sent",
       "answered", "joined", "store", "sync", "leases", "delete"}

\* epoch is captured at the start; born is the epoch the rotation began in;
\* got is the answer in hand, 0 if the server refused; todo the keys still to
\* write; on the handler whose rotation is awaited.
Context ==
    [op : Op, epoch : Nat, born : Nat, token : Answer \cup {0},
     got : Answer \cup {0}, lost : BOOLEAN, todo : Seq(Key), on : Proc \cup {NoProc}]

NoContext ==
    [op |-> "none", epoch |-> 0, born |-> 0, token |-> 0, got |-> 0,
     lost |-> FALSE, todo |-> <<>>, on |-> NoProc]

\* The locals fit the place: keys are left to write, a real answer is stored,
\* a rotation has a token, and whoever joins one knows which.
Placed(l, c) ==
    /\ l \in {"store", "leases", "delete"} <=> c.todo # <<>>
    /\ l = "store" => c.got # 0
    /\ l = "login" => c.op = "login"
    /\ l \in {"identity", "validatedAt", "refreshToken", "sent", "answered"}
          => c.op # "login"
    /\ l \in {"sent", "answered"} => c.token # 0
    /\ l \in {"store", "sync", "leases"} => c.op = "login" \/ c.token # 0
    /\ l = "joined" => c.on # NoProc

TypeOK ==
    /\ secrets \in [Key -> Answer \cup {0}]
    /\ epoch \in Nat
    /\ inFlight \in Proc \cup {NoProc}
    /\ identified \in BOOLEAN
    /\ timer \in BOOLEAN
    /\ pc \in [Proc -> Pc]
    /\ ctx \in [Proc -> Context]
    /\ \A p \in Proc : Placed(pc[p], ctx[p])
    /\ session \in [Answer -> Answer \cup {0}]
    /\ current \in [Answer -> Answer \cup {0}]
    /\ spoiled \subseteq Answer
    /\ replayed \subseteq Answer
    /\ ended \in BOOLEAN

NoSecrets == [k \in Key |-> 0]

\* Activation: the secrets of an earlier run, or none; a refresh is due.
Init ==
    /\ epoch = 0
    /\ inFlight = NoProc
    /\ identified = FALSE
    /\ timer = TRUE
    /\ pc = [p \in Proc |-> "idle"]
    /\ ctx = [p \in Proc |-> NoContext]
    /\ spoiled = {}
    /\ replayed = {}
    /\ \/ /\ secrets = NoSecrets
          /\ ended = TRUE
          /\ session = [a \in Answer |-> 0]
       \/ /\ secrets = [k \in Key |-> 1]
          /\ ended = FALSE
          /\ session = [a \in Answer |-> IF a = 1 THEN 1 ELSE 0]
    /\ current = session

-----------------------------------------------------------------------------
(* Handlers. *)

Goto(p, l, c) == pc' = [pc EXCEPT ![p] = l] /\ ctx' = [ctx EXCEPT ![p] = c]

Exit(p) == Goto(p, "idle", NoContext)

\* A rotation runs from its request to the end of its lease requests.
Rotating(p) ==
    \/ pc[p] \in {"sent", "answered"}
    \/ pc[p] \in {"store", "sync", "leases"} /\ ctx[p].op # "login"

\* Model bound: every handler that runs may still draw an answer.
Issued == {a \in Answer : session[a] # 0}
MayStart ==
    Cardinality(Issued) + Cardinality({q \in Proc : pc[q] # "idle"}) < MaxAnswers

\* A refresh starts when its timer fires; the first one at activation.
StartRefresh(p) ==
    /\ pc[p] = "idle"
    /\ timer
    /\ MayStart
    /\ timer' = FALSE
    /\ Goto(p, IF identified THEN "refreshToken" ELSE "identity",
            [NoContext EXCEPT !.op = "refresh", !.epoch = epoch])
    /\ UNCHANGED <<secrets, epoch, inFlight, identified, server, ghosts>>

\* Before each command that runs Python with plugins.
StartRefreshKeysIfStale(p) ==
    /\ pc[p] = "idle"
    /\ MayStart
    /\ Goto(p, "validatedAt",
            [NoContext EXCEPT !.op = "refreshKeysIfStale", !.epoch = epoch])
    /\ UNCHANGED <<client, server, ghosts>>

\* _beginSession: rotations under way are no longer joined.
BeginSession(p) ==
    /\ pc[p] = "idle"
    /\ epoch < MaxEpoch
    /\ epoch' = epoch + 1
    /\ inFlight' = NoProc
    /\ spoiled' = spoiled \cup {ctx[q].token : q \in {r \in Proc : Rotating(r)}}
    /\ UNCHANGED <<secrets, timer, server, replayed>>

StartLogin(p) ==
    /\ MayStart
    /\ BeginSession(p)
    /\ ended' = FALSE
    /\ Goto(p, "login", [NoContext EXCEPT !.op = "login"])
    /\ UNCHANGED identified

StartLogout(p) ==
    /\ BeginSession(p)
    /\ ended' = TRUE
    /\ Goto(p, "refreshToken", [NoContext EXCEPT !.op = "logout"])
    /\ UNCHANGED identified

\* _ensureServerIdentity in refresh: a failure ends it.
Identity(p) ==
    /\ pc[p] = "identity"
    /\ \/ identified' = TRUE /\ Goto(p, "refreshToken", ctx[p])
       \/ UNCHANGED identified /\ Exit(p)
    /\ UNCHANGED <<secrets, epoch, inFlight, timer, server, ghosts>>

\* Any age is possible of a stamp that is there.
ValidatedAt(p) ==
    /\ pc[p] = "validatedAt"
    /\ \/ Goto(p, "refreshToken", ctx[p])
       \/ secrets["keysValidatedAt"] # 0 /\ Exit(p)
    /\ UNCHANGED <<client, server, ghosts>>

-----------------------------------------------------------------------------
(* _rotateRefreshToken. *)

\* Mutant (here and below, a plausible slip in the definition that follows):
\* every caller sends a request of its own.
RotateAlways(p) ==
    /\ inFlight' = p
    /\ spoiled' = IF ctx[p].epoch = epoch THEN spoiled
                  ELSE spoiled \cup {secrets["refreshToken"]}
    /\ Goto(p, "sent", [ctx[p] EXCEPT !.token = secrets["refreshToken"],
                                      !.born = epoch])

\* Join the rotation in flight, or begin one; one begun with an epoch captured
\* before the current session will drop its answer.
Rotate(p) ==
    \/ /\ inFlight = NoProc
       /\ inFlight' = p
       /\ spoiled' = IF ctx[p].epoch = epoch THEN spoiled
                     ELSE spoiled \cup {secrets["refreshToken"]}
       /\ Goto(p, "sent", [ctx[p] EXCEPT !.token = secrets["refreshToken"],
                                         !.born = epoch])
    \/ /\ inFlight # NoProc
       /\ Goto(p, "joined", [ctx[p] EXCEPT !.on = inFlight])
       /\ UNCHANGED <<inFlight, spoiled>>

RefreshTokenRead(p) ==
    /\ pc[p] = "refreshToken"
    /\ ctx[p].op # "logout"
    /\ IF secrets["refreshToken"] = 0
       THEN Exit(p) /\ UNCHANGED <<inFlight, spoiled>>
       ELSE Rotate(p)
    /\ UNCHANGED <<secrets, epoch, identified, timer, server, replayed, ended>>

\* The server consumes the token; a second use revokes the session.
ServerRotates(p) ==
    LET t == ctx[p].token
        s == session[t]
    IN
    /\ pc[p] = "sent"
    /\ \/ /\ current[s] = t
          /\ \E a \in Answer \ Issued :
                /\ \A b \in Answer \ Issued : a <= b
                /\ session' = [session EXCEPT ![a] = s]
                /\ current' = [current EXCEPT ![s] = a]
                /\ Goto(p, "answered", [ctx[p] EXCEPT !.got = a])
          /\ UNCHANGED replayed
       \/ /\ current[s] # t
          /\ current' = [current EXCEPT ![s] = 0]
          /\ replayed' = IF current[s] # 0 THEN replayed \cup {t} ELSE replayed
          /\ Goto(p, "answered", [ctx[p] EXCEPT !.got = 0])
          /\ UNCHANGED session
    /\ UNCHANGED <<client, spoiled, ended>>

\* The request fails before it reaches the server, or its answer is lost.
Lose(p) ==
    /\ Lossy
    /\ pc[p] \in {"sent", "answered"}
    /\ ~ctx[p].lost
    /\ spoiled' = IF ctx[p].got # 0 THEN spoiled \cup {ctx[p].token} ELSE spoiled
    /\ Goto(p, "answered", [ctx[p] EXCEPT !.lost = TRUE])
    /\ UNCHANGED <<client, server, replayed, ended>>

\* The server fails (5xx): the same error as a refusal, "Auth failed", if the
\* answer gives no detail.
ServerErrs(p) ==
    /\ Lossy
    /\ pc[p] = "sent"
    /\ Goto(p, "answered", [ctx[p] EXCEPT !.got = 0])
    /\ UNCHANGED <<client, server, ghosts>>

\* Mutant: only the rotation still in flight answers those that joined it.
AwaitingInFlight(p) ==
    {p} \cup {q \in Proc : pc[q] = "joined" /\ ctx[q].on = p /\ inFlight = p}

\* The handlers that await the rotation p runs, and p.
Awaiting(p) == {p} \cup {q \in Proc : pc[q] = "joined" /\ ctx[q].on = p}

\* Mutant: the finally clause clears the field whoever set it.
SettleAnyFlight(p, refused, ok) ==
    LET cleaning == {q \in Awaiting(p) :
                        refused /\ ctx[q].op = "refreshKeysIfStale"} IN
    /\ inFlight' = NoProc
    /\ timer' = (timer \/ (ok /\ \E q \in Awaiting(p) : ctx[q].op = "refresh"))
    /\ pc' = [q \in Proc |-> IF q \in cleaning THEN "delete"
                             ELSE IF q \in Awaiting(p) THEN "idle" ELSE pc[q]]
    /\ ctx' = [q \in Proc |->
                  IF q \in cleaning
                  THEN [NoContext EXCEPT !.op = ctx[q].op, !.todo = SessionKeys]
                  ELSE IF q \in Awaiting(p) THEN NoContext ELSE ctx[q]]

\* The promise settles: the finally clause, then all that await it go on.  A
\* refresh schedules the next one; a refusal makes refreshKeysIfStale delete.
Settle(p, refused, ok) ==
    LET cleaning == {q \in Awaiting(p) :
                        refused /\ ctx[q].op = "refreshKeysIfStale"} IN
    /\ inFlight' = IF inFlight = p THEN NoProc ELSE inFlight
    /\ timer' = (timer \/ (ok /\ \E q \in Awaiting(p) : ctx[q].op = "refresh"))
    /\ pc' = [q \in Proc |-> IF q \in cleaning THEN "delete"
                             ELSE IF q \in Awaiting(p) THEN "idle" ELSE pc[q]]
    /\ ctx' = [q \in Proc |->
                  IF q \in cleaning
                  THEN [NoContext EXCEPT !.op = ctx[q].op, !.todo = SessionKeys]
                  ELSE IF q \in Awaiting(p) THEN NoContext ELSE ctx[q]]

\* Mutant: a refusal is stored like an answer (no test of res.ok).
AnsweredUnchecked(p) ==
    /\ pc[p] = "answered"
    /\ IF ~ctx[p].lost /\ ctx[p].epoch = epoch
       THEN /\ Goto(p, "store", [ctx[p] EXCEPT !.todo = StoredKeys(ctx[p].op)])
            /\ UNCHANGED <<inFlight, timer>>
       ELSE Settle(p, FALSE, FALSE)
    /\ UNCHANGED <<secrets, epoch, identified, server, ghosts>>

\* The answer arrives: the epoch is compared, here and never again.
Answered(p) ==
    LET ok == ~ctx[p].lost /\ ctx[p].got # 0 IN
    /\ pc[p] = "answered"
    /\ IF ok /\ ctx[p].epoch = epoch
       THEN /\ Goto(p, "store", [ctx[p] EXCEPT !.todo = StoredKeys(ctx[p].op)])
            /\ UNCHANGED <<inFlight, timer>>
       ELSE Settle(p, ~ctx[p].lost /\ ctx[p].got = 0, FALSE)
    /\ UNCHANGED <<secrets, epoch, identified, server, ghosts>>

-----------------------------------------------------------------------------
(* login and logout, and the writes they share with a rotation. *)

\* POST /auth/login, tried on each candidate address: all fail, or one answers.
LoginFails(p) ==
    /\ pc[p] = "login"
    /\ identified' \in {identified, TRUE}
    /\ Exit(p)
    /\ UNCHANGED <<secrets, epoch, inFlight, timer, server, ghosts>>

LoginAnswered(p) ==
    /\ pc[p] = "login"
    /\ identified' = TRUE
    /\ \E a \in Answer \ Issued :
        /\ \A b \in Answer \ Issued : a <= b
        /\ session' = [session EXCEPT ![a] = a]
        /\ current' = [current EXCEPT ![a] = a]
        /\ Goto(p, "store", [ctx[p] EXCEPT !.got = a, !.todo = StoredKeys("login")])
    /\ UNCHANGED <<secrets, epoch, inFlight, timer, ghosts>>

\* The request to revoke the session is not awaited; it may fail.
LogoutRead(p) ==
    LET s == session[secrets["refreshToken"]] IN
    /\ pc[p] = "refreshToken"
    /\ ctx[p].op = "logout"
    /\ \/ UNCHANGED current
       \/ secrets["refreshToken"] # 0 /\ current' = [current EXCEPT ![s] = 0]
    /\ Goto(p, "delete", [ctx[p] EXCEPT !.todo = SessionKeys])
    /\ UNCHANGED <<client, session, ghosts>>

Write(p, value) ==
    secrets' = [secrets EXCEPT ![Head(ctx[p].todo)] = value]

\* One more key to write after this one.
WriteNext(p) ==
    /\ pc[p] \in {"store", "leases", "delete"}
    /\ Len(ctx[p].todo) > 1
    /\ Write(p, IF pc[p] = "delete" THEN 0 ELSE ctx[p].got)
    /\ Goto(p, pc[p], [ctx[p] EXCEPT !.todo = Tail(@)])
    /\ UNCHANGED <<epoch, inFlight, identified, timer, server, ghosts>>

StoreLast(p) ==
    /\ pc[p] = "store"
    /\ Len(ctx[p].todo) = 1
    /\ Write(p, ctx[p].got)
    /\ Goto(p, "sync", [ctx[p] EXCEPT !.todo = <<>>])
    /\ UNCHANGED <<epoch, inFlight, identified, timer, server, ghosts>>

\* A login schedules the next refresh and ends; a rotation settles.
Finish(p) ==
    IF ctx[p].op = "login"
    THEN Exit(p) /\ timer' = TRUE /\ UNCHANGED inFlight
    ELSE Settle(p, FALSE, TRUE)

\* The lease requests: keys and their lease, no plugin to have keys for, or an
\* error, which is swallowed.
SyncAnswered(p) ==
    /\ pc[p] = "sync"
    /\ \E got \in {0, ctx[p].got} :
          Goto(p, "leases", [ctx[p] EXCEPT !.got = got, !.todo = LeaseKeys])
    /\ UNCHANGED <<client, server, ghosts>>

SyncFails(p) ==
    /\ pc[p] = "sync"
    /\ Finish(p)
    /\ UNCHANGED <<secrets, epoch, identified, server, ghosts>>

LeaseLast(p) ==
    /\ pc[p] = "leases"
    /\ Len(ctx[p].todo) = 1
    /\ Write(p, ctx[p].got)
    /\ Finish(p)
    /\ UNCHANGED <<epoch, identified, server, ghosts>>

\* Only a logout clears the timer.
DeleteLast(p) ==
    /\ pc[p] = "delete"
    /\ Len(ctx[p].todo) = 1
    /\ Write(p, 0)
    /\ timer' = (timer /\ ctx[p].op # "logout")
    /\ Exit(p)
    /\ UNCHANGED <<epoch, inFlight, identified, server, ghosts>>

-----------------------------------------------------------------------------
Step(p) ==
    \/ Identity(p) \/ ValidatedAt(p) \/ RefreshTokenRead(p)
    \/ ServerRotates(p) \/ ServerErrs(p) \/ Lose(p) \/ Answered(p)
    \/ LoginFails(p) \/ LoginAnswered(p) \/ LogoutRead(p)
    \/ WriteNext(p) \/ StoreLast(p)
    \/ SyncAnswered(p) \/ SyncFails(p) \/ LeaseLast(p) \/ DeleteLast(p)

Start(p) ==
    \/ StartRefresh(p) \/ StartRefreshKeysIfStale(p)
    \/ StartLogin(p) \/ StartLogout(p)

Next == \E p \in Proc : Start(p) \/ Step(p)

Spec == Init /\ [][Next]_vars

-----------------------------------------------------------------------------
(* Properties. *)

(* Concurrent calls share one request: two rotations are under way only if *)
(* a login or logout came between their beginnings (single-flight,         *)
(* _rotateRefreshToken).                                                   *)
SingleFlight ==
    \A p, q \in Proc :
        p # q /\ Rotating(p) /\ Rotating(q) => ctx[p].born # ctx[q].born

(* A handler that joined a rotation awaits one that still runs, and so     *)
(* will be answered, even if a session has begun since.                    *)
Joined == \A p \in Proc : pc[p] = "joined" => Rotating(ctx[p].on)

(* The server never sees a consumed refresh token again, unless an answer  *)
(* was lost or the session changed while a refresh was under way.          *)
NoReplay == replayed \subseteq spoiled

(* A logout is final: once every handler is done and nobody has logged in  *)
(* since, no token and no content key is left ("il ne ressuscite pas la    *)
(* session", _rotateRefreshToken).                                         *)
NoResurrection ==
    (ended /\ \A p \in Proc : pc[p] = "idle") =>
        \A k \in {"accessToken", "refreshToken", "contentKeys"} : secrets[k] = 0
=============================================================================
