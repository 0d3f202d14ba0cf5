------------------------- MODULE AuthSession_proofs -------------------------
(***************************************************************************)
(* What AuthSession keeps for any number of handlers, answers and          *)
(* sessions, whatever gets lost and in whatever order the handlers run.    *)
(***************************************************************************)
EXTENDS AuthSession, SequenceTheorems, TLAPS

-----------------------------------------------------------------------------
(* Types. *)

LEMMA NoContextTyped ==
    /\ NoContext \in Context
    /\ Placed("idle", NoContext)
<1>1. NoContext.todo \in Seq(Key) /\ NoContext.todo = <<>>
  BY DEF NoContext
<1>2. QED
  BY <1>1 DEF NoContext, Context, Op, Placed

LEMMA KeyLists ==
    /\ SessionKeys \in Seq(Key) /\ SessionKeys # <<>>
    /\ LeaseKeys \in Seq(Key) /\ LeaseKeys # <<>>
    /\ \A op \in Op : StoredKeys(op) \in Seq(Key) /\ StoredKeys(op) # <<>>
<1>1. SessionKeys \in Seq(Key) /\ Len(SessionKeys) = 6
  BY DEF SessionKeys, Key
<1>2. LeaseKeys \in Seq(Key) /\ Len(LeaseKeys) = 2
  BY DEF LeaseKeys, Key
<1>3. ASSUME NEW op \in Op
      PROVE  StoredKeys(op) \in Seq(Key) /\ Len(StoredKeys(op)) \in {3, 4}
  <2>1. CASE op = "login"
    BY <2>1 DEF StoredKeys, Key
  <2>2. CASE op # "login"
    BY <2>2 DEF StoredKeys, Key
  <2>3. QED
    BY <2>1, <2>2
<1>4. Len(<<>>) = 0
  OBVIOUS
<1>5. QED
  BY <1>1, <1>2, <1>3, <1>4

\* A handler that moves on to a place with fitting locals.
LEMMA GotoTyped ==
    ASSUME TypeOK, NEW p \in Proc, NEW l \in Pc, NEW c \in Context,
           Placed(l, c), Goto(p, l, c)
    PROVE  /\ pc' \in [Proc -> Pc]
           /\ ctx' \in [Proc -> Context]
           /\ \A q \in Proc : Placed(pc'[q], ctx'[q])
<1>1. pc' \in [Proc -> Pc] /\ ctx' \in [Proc -> Context]
  BY DEF TypeOK, Goto
<1>2. ASSUME NEW q \in Proc
      PROVE  Placed(pc'[q], ctx'[q])
  <2>1. CASE q = p
    BY <2>1 DEF TypeOK, Goto
  <2>2. CASE q # p
    BY <2>2 DEF TypeOK, Goto
  <2>3. QED
    BY <2>1, <2>2
<1>3. QED
  BY <1>1, <1>2

LEMMA ExitTyped ==
    ASSUME TypeOK, NEW p \in Proc, Exit(p)
    PROVE  /\ pc' \in [Proc -> Pc]
           /\ ctx' \in [Proc -> Context]
           /\ \A q \in Proc : Placed(pc'[q], ctx'[q])
<1>1. "idle" \in Pc
  BY DEF Pc
<1>2. QED
  BY <1>1, NoContextTyped, GotoTyped DEF Exit

\* What a settled rotation makes of each handler.
LEMMA Settled ==
    ASSUME TypeOK, NEW p \in Proc, NEW refused, NEW ok, Settle(p, refused, ok),
           NEW q \in Proc
    PROVE  /\ q \notin Awaiting(p) => pc'[q] = pc[q] /\ ctx'[q] = ctx[q]
           /\ q \in Awaiting(p) =>
                 \/ pc'[q] = "idle" /\ ctx'[q] = NoContext
                 \/ /\ pc'[q] = "delete"
                    /\ ctx'[q] = [NoContext EXCEPT !.op = ctx[q].op,
                                                   !.todo = SessionKeys]
  BY DEF Settle

LEMMA SettleTyped ==
    ASSUME TypeOK, NEW p \in Proc, NEW refused, NEW ok, Settle(p, refused, ok)
    PROVE  /\ inFlight' \in Proc \cup {NoProc}
           /\ timer' \in BOOLEAN
           /\ pc' \in [Proc -> Pc]
           /\ ctx' \in [Proc -> Context]
           /\ \A q \in Proc : Placed(pc'[q], ctx'[q])
<1>1. inFlight' \in Proc \cup {NoProc} /\ timer' \in BOOLEAN
  BY DEF TypeOK, Settle
<1>2. ASSUME NEW q \in Proc
      PROVE  pc'[q] \in Pc /\ ctx'[q] \in Context /\ Placed(pc'[q], ctx'[q])
  <2> DEFINE c == [NoContext EXCEPT !.op = ctx[q].op, !.todo = SessionKeys]
  <2>1. c \in Context /\ Placed("delete", c)
    <3>1. ctx[q].op \in Op
      BY DEF TypeOK, Context
    <3>2. QED
      BY <3>1, NoContextTyped, KeyLists DEF Context, NoContext, Placed
  <2>2. "idle" \in Pc /\ "delete" \in Pc
    BY DEF Pc
  <2>3. pc[q] \in Pc /\ ctx[q] \in Context /\ Placed(pc[q], ctx[q])
    BY DEF TypeOK
  <2>4. QED
    BY <2>1, <2>2, <2>3, NoContextTyped, Settled
<1>3. pc' = [q \in Proc |-> pc'[q]] /\ ctx' = [q \in Proc |-> ctx'[q]]
  BY DEF Settle
<1>4. QED
  BY <1>1, <1>2, <1>3

LEMMA InitTyped == Init => TypeOK
<1> SUFFICES ASSUME Init PROVE TypeOK
  OBVIOUS
<1>1. 1 \in Answer
  BY MaxAnswersAssumption DEF Answer
<1>2. secrets \in [Key -> Answer \cup {0}] /\ session \in [Answer -> Answer \cup {0}]
  BY <1>1 DEF Init, NoSecrets
<1>3. ended \in BOOLEAN
  BY DEF Init
<1>4. pc \in [Proc -> Pc] /\ ctx \in [Proc -> Context]
  BY NoContextTyped DEF Init, Pc
<1>5. \A p \in Proc : Placed(pc[p], ctx[p])
  BY NoContextTyped DEF Init
<1>6. QED
  BY <1>2, <1>3, <1>4, <1>5 DEF Init, TypeOK

LEMMA StartTyped ==
    ASSUME TypeOK, NEW p \in Proc, Start(p)
    PROVE  TypeOK'
<1> DEFINE Begin(op) == [NoContext EXCEPT !.op = op]
           Captured(op) == [NoContext EXCEPT !.op = op, !.epoch = epoch]
<1>1. \A op \in Op : /\ Begin(op) \in Context /\ Captured(op) \in Context
                     /\ Begin(op).todo = <<>> /\ Captured(op).todo = <<>>
                     /\ Begin(op).op = op /\ Captured(op).op = op
  BY NoContextTyped DEF TypeOK, Context, NoContext
<1>2. {"login", "logout", "refresh", "refreshKeysIfStale"} \subseteq Op
  BY DEF Op
<1>3. \A c \in Context : c.todo = <<>> =>
        /\ \A l \in {"identity", "refreshToken", "validatedAt"} :
              l \in Pc /\ (c.op # "login" => Placed(l, c))
        /\ c.op = "login" => "login" \in Pc /\ Placed("login", c)
  BY DEF Pc, Placed
<1>4. CASE StartRefresh(p)
  <2>1. /\ pc' \in [Proc -> Pc]
        /\ ctx' \in [Proc -> Context]
        /\ \A q \in Proc : Placed(pc'[q], ctx'[q])
    <3>1. Goto(p, IF identified THEN "refreshToken" ELSE "identity", Captured("refresh"))
      BY <1>4 DEF StartRefresh
    <3>2. QED
      BY <1>1, <1>2, <1>3, <3>1, GotoTyped
  <2>2. QED
    BY <1>4, <2>1 DEF StartRefresh, TypeOK, server, ghosts
<1>5. CASE StartRefreshKeysIfStale(p)
  <2>1. /\ pc' \in [Proc -> Pc]
        /\ ctx' \in [Proc -> Context]
        /\ \A q \in Proc : Placed(pc'[q], ctx'[q])
    <3>1. Goto(p, "validatedAt", Captured("refreshKeysIfStale"))
      BY <1>5 DEF StartRefreshKeysIfStale
    <3>2. QED
      BY <1>1, <1>2, <1>3, <3>1, GotoTyped
  <2>2. QED
    BY <1>5, <2>1 DEF StartRefreshKeysIfStale, TypeOK, client, server, ghosts
<1>6. CASE StartLogin(p) \/ StartLogout(p)
  <2>1. /\ pc' \in [Proc -> Pc]
        /\ ctx' \in [Proc -> Context]
        /\ \A q \in Proc : Placed(pc'[q], ctx'[q])
    <3>1. Goto(p, "login", Begin("login")) \/ Goto(p, "refreshToken", Begin("logout"))
      BY <1>6 DEF StartLogin, StartLogout
    <3>2. QED
      BY <1>1, <1>2, <1>3, <3>1, GotoTyped
  <2>2. /\ epoch' \in Nat /\ inFlight' = NoProc
        /\ UNCHANGED <<secrets, timer, server, replayed, identified>>
    BY <1>6 DEF StartLogin, StartLogout, BeginSession, TypeOK, server
  <2>5. ended' \in BOOLEAN
    BY <1>6 DEF StartLogin, StartLogout
  <2>3. spoiled' \subseteq Answer
    <3>1. \A q \in Proc : Rotating(q) => ctx[q].token \in Answer
      BY DEF TypeOK, Context, Rotating, Placed
    <3>2. QED
      BY <1>6, <3>1 DEF StartLogin, StartLogout, BeginSession, TypeOK
  <2>4. QED
    BY <2>1, <2>2, <2>3, <2>5 DEF TypeOK, server
<1>7. QED
  BY <1>4, <1>5, <1>6 DEF Start

\* What typing says of one handler.
LEMMA HandlerTyped ==
    ASSUME TypeOK, NEW p \in Proc
    PROVE  /\ pc[p] \in Pc /\ ctx[p] \in Context /\ Placed(pc[p], ctx[p])
           /\ ctx[p].op \in Op /\ ctx[p].epoch \in Nat /\ ctx[p].born \in Nat
           /\ ctx[p].token \in Answer \cup {0} /\ ctx[p].got \in Answer \cup {0}
           /\ ctx[p].lost \in BOOLEAN /\ ctx[p].todo \in Seq(Key)
           /\ ctx[p].on \in Proc \cup {NoProc}
  BY DEF TypeOK, Context

LEMMA ReadTyped ==
    ASSUME TypeOK, NEW p \in Proc, Identity(p) \/ ValidatedAt(p)
    PROVE  TypeOK'
<1>1. "refreshToken" \in Pc /\ (pc[p] \in {"identity", "validatedAt"}
                                => Placed("refreshToken", ctx[p]))
  BY HandlerTyped DEF Pc, Placed
<1>2. Goto(p, "refreshToken", ctx[p]) \/ Exit(p)
  BY DEF Identity, ValidatedAt
<1>3. /\ pc' \in [Proc -> Pc]
      /\ ctx' \in [Proc -> Context]
      /\ \A q \in Proc : Placed(pc'[q], ctx'[q])
  BY <1>1, <1>2, HandlerTyped, GotoTyped, ExitTyped DEF Identity, ValidatedAt
<1>4. identified' \in BOOLEAN
  BY DEF TypeOK, Identity, ValidatedAt, client
<1>5. UNCHANGED <<secrets, epoch, inFlight, timer, server, ghosts>>
  BY DEF Identity, ValidatedAt, client
<1>6. QED
  BY <1>3, <1>4, <1>5 DEF TypeOK, server, ghosts

LEMMA RefreshTokenReadTyped ==
    ASSUME TypeOK, NEW p \in Proc, RefreshTokenRead(p)
    PROVE  TypeOK'
<1> DEFINE t == secrets["refreshToken"]
           begun == [ctx[p] EXCEPT !.token = t, !.born = epoch]
           joined == [ctx[p] EXCEPT !.on = inFlight]
<1>1. t \in Answer \cup {0}
  BY DEF TypeOK, Key
<1>2. ctx[p].todo = <<>> /\ pc[p] = "refreshToken"
  BY HandlerTyped DEF RefreshTokenRead, Placed
<1>3. begun \in Context /\ joined \in Context /\ begun.token = t
      /\ begun.todo = <<>> /\ joined.todo = <<>> /\ joined.on = inFlight
      /\ begun.op # "login"
  BY <1>1, <1>2, HandlerTyped DEF TypeOK, Context, Placed
<1>4. "sent" \in Pc /\ "joined" \in Pc
      /\ (inFlight # NoProc => Placed("joined", joined))
      /\ (t # 0 => Placed("sent", begun))
  BY <1>3 DEF Pc, Placed
<1>5. \/ Exit(p) /\ UNCHANGED <<inFlight, spoiled>>
      \/ t # 0 /\ inFlight' = p /\ Goto(p, "sent", begun)
         /\ spoiled' \in {spoiled, spoiled \cup {t}}
      \/ inFlight # NoProc /\ Goto(p, "joined", joined) /\ UNCHANGED <<inFlight, spoiled>>
  BY DEF RefreshTokenRead, Rotate
<1>6. /\ pc' \in [Proc -> Pc]
      /\ ctx' \in [Proc -> Context]
      /\ \A q \in Proc : Placed(pc'[q], ctx'[q])
  BY <1>3, <1>4, <1>5, GotoTyped, ExitTyped
<1>7. inFlight' \in Proc \cup {NoProc} /\ spoiled' \subseteq Answer
  BY <1>1, <1>5 DEF TypeOK
<1>8. UNCHANGED <<secrets, epoch, identified, timer, server, replayed, ended>>
  BY DEF RefreshTokenRead
<1>9. QED
  BY <1>6, <1>7, <1>8 DEF TypeOK, server

LEMMA RotationTyped ==
    ASSUME TypeOK, NEW p \in Proc, ServerRotates(p) \/ ServerErrs(p) \/ Lose(p)
    PROVE  TypeOK'
<1> DEFINE t == ctx[p].token
           s == session[t]
           answer(a) == [ctx[p] EXCEPT !.got = a]
           missed == [ctx[p] EXCEPT !.lost = TRUE]
<1>1. pc[p] \in {"sent", "answered"} /\ t \in Answer /\ s \in Answer \cup {0}
  BY HandlerTyped DEF ServerRotates, ServerErrs, Lose, Placed, TypeOK
<1>2. ctx[p].todo = <<>>
  BY <1>1, HandlerTyped DEF Placed
<1>3. \A a \in Answer \cup {0} : answer(a) \in Context /\ Placed("answered", answer(a))
  BY <1>1, <1>2, HandlerTyped DEF Context, Placed
<1>4. missed \in Context /\ Placed("answered", missed)
  BY <1>1, <1>2, HandlerTyped DEF Context, Placed
<1>5. \/ \E a \in Answer \cup {0} : Goto(p, "answered", answer(a))
      \/ Goto(p, "answered", missed)
  BY DEF ServerRotates, ServerErrs, Lose, Issued
<1>6. "answered" \in Pc
  BY DEF Pc
<1>7. /\ pc' \in [Proc -> Pc]
      /\ ctx' \in [Proc -> Context]
      /\ \A q \in Proc : Placed(pc'[q], ctx'[q])
  BY <1>3, <1>4, <1>5, <1>6, GotoTyped
<1>8. /\ session' \in [Answer -> Answer \cup {0}]
      /\ current' \in [Answer -> Answer \cup {0}]
      /\ replayed' \subseteq Answer
      /\ spoiled' \subseteq Answer
  <2>1. CASE ServerRotates(p)
    <3>1. spoiled' \subseteq Answer
      BY <2>1 DEF ServerRotates, TypeOK
    <3>2. \/ \E a \in Answer : /\ session' = [session EXCEPT ![a] = s]
                               /\ current' = [current EXCEPT ![s] = a]
                               /\ replayed' = replayed
          \/ /\ session' = session
             /\ current' = [current EXCEPT ![s] = 0]
             /\ replayed' \in {replayed, replayed \cup {t}}
      BY <2>1 DEF ServerRotates, Issued
    <3>3. QED
      BY <1>1, <3>1, <3>2 DEF TypeOK
  <2>2. CASE ServerErrs(p)
    BY <2>2 DEF ServerErrs, TypeOK, server, ghosts
  <2>3. CASE Lose(p)
    BY <2>3, <1>1 DEF Lose, TypeOK, server
  <2>4. QED
    BY <2>1, <2>2, <2>3
<1>9. UNCHANGED <<client, ended>>
  BY DEF ServerRotates, ServerErrs, Lose, ghosts
<1>10. QED
  BY <1>7, <1>8, <1>9 DEF TypeOK, client

LEMMA AnsweredTyped ==
    ASSUME TypeOK, NEW p \in Proc, Answered(p)
    PROVE  TypeOK'
<1> DEFINE stored == [ctx[p] EXCEPT !.todo = StoredKeys(ctx[p].op)]
<1>1. UNCHANGED <<secrets, epoch, identified, server, ghosts>>
  BY DEF Answered
<1>2. CASE Settle(p, ~ctx[p].lost /\ ctx[p].got = 0, FALSE)
  BY <1>1, <1>2, SettleTyped DEF TypeOK, server, ghosts
<1>3. CASE /\ ctx[p].got # 0
           /\ Goto(p, "store", stored)
           /\ UNCHANGED <<inFlight, timer>>
  <2>1. ctx[p].token # 0
    BY HandlerTyped DEF Answered, Placed
  <2>2. stored \in Context
    BY HandlerTyped, KeyLists DEF Context
  <2>3. "store" \in Pc /\ Placed("store", stored)
    BY <1>3, <2>1, HandlerTyped, KeyLists DEF Pc, Placed, Context
  <2>4. QED
    BY <1>1, <1>3, <2>2, <2>3, GotoTyped DEF TypeOK, server, ghosts
<1>4. QED
  BY <1>2, <1>3 DEF Answered

LEMMA LoginTyped ==
    ASSUME TypeOK, NEW p \in Proc,
           LoginFails(p) \/ LoginAnswered(p) \/ LogoutRead(p)
    PROVE  TypeOK'
<1>1. CASE LoginFails(p)
  <2>1. identified' \in BOOLEAN
    BY <1>1 DEF LoginFails, TypeOK
  <2>2. QED
    BY <1>1, <2>1, ExitTyped DEF LoginFails, TypeOK, server, ghosts
<1>2. CASE LoginAnswered(p)
  <2>1. PICK a \in Answer :
            /\ session' = [session EXCEPT ![a] = a]
            /\ current' = [current EXCEPT ![a] = a]
            /\ Goto(p, "store", [ctx[p] EXCEPT !.got = a, !.todo = StoredKeys("login")])
    BY <1>2 DEF LoginAnswered
  <2> DEFINE c == [ctx[p] EXCEPT !.got = a, !.todo = StoredKeys("login")]
  <2>2. "login" \in Op /\ a # 0
    BY DEF Op, Answer
  <2>3. c \in Context /\ c.got # 0 /\ c.todo # <<>> /\ c.op = ctx[p].op
    BY <2>2, HandlerTyped, KeyLists DEF Context
  <2>4. ctx[p].op = "login"
    BY <1>2, HandlerTyped DEF LoginAnswered, Placed
  <2>5. "store" \in Pc /\ Placed("store", c)
    BY <2>3, <2>4 DEF Pc, Placed
  <2>6. session' \in [Answer -> Answer \cup {0}] /\ current' \in [Answer -> Answer \cup {0}]
    BY <2>1 DEF TypeOK
  <2>7. QED
    BY <1>2, <2>1, <2>3, <2>5, <2>6, GotoTyped DEF LoginAnswered, TypeOK, ghosts
<1>3. CASE LogoutRead(p)
  <2> DEFINE c == [ctx[p] EXCEPT !.todo = SessionKeys]
  <2>1. c \in Context /\ "delete" \in Pc /\ Placed("delete", c)
    <3>1. c \in Context /\ c.todo # <<>>
      BY HandlerTyped, KeyLists DEF Context
    <3>2. QED
      BY <3>1 DEF Pc, Placed
  <2>2. current' \in [Answer -> Answer \cup {0}]
    BY <1>3 DEF LogoutRead, TypeOK
  <2>3. QED
    BY <1>3, <2>1, <2>2, GotoTyped DEF LogoutRead, TypeOK, client, ghosts
<1>4. QED
  BY <1>1, <1>2, <1>3

LEMMA WriteTyped ==
    ASSUME TypeOK, NEW p \in Proc, NEW value \in Answer \cup {0},
           Write(p, value)
    PROVE  secrets' \in [Key -> Answer \cup {0}]
  BY DEF Write, TypeOK

LEMMA WritesTyped ==
    ASSUME TypeOK, NEW p \in Proc,
           WriteNext(p) \/ StoreLast(p) \/ LeaseLast(p) \/ DeleteLast(p)
    PROVE  TypeOK'
<1>1. secrets' \in [Key -> Answer \cup {0}]
  BY WriteTyped, HandlerTyped DEF WriteNext, StoreLast, LeaseLast, DeleteLast
<1>2. CASE WriteNext(p)
  <2> DEFINE c == [ctx[p] EXCEPT !.todo = Tail(@)]
  <2>1. Tail(ctx[p].todo) \in Seq(Key) /\ Tail(ctx[p].todo) # <<>>
    <3> DEFINE s == ctx[p].todo
    <3>1. s \in Seq(Key) /\ Len(s) \in Nat /\ Len(s) > 1
      BY <1>2, HandlerTyped, LenProperties DEF WriteNext
    <3> HIDE DEF s
    <3>2. Tail(s) \in Seq(Key) /\ Len(Tail(s)) = Len(s) - 1
      BY <3>1, HeadTailProperties, EmptySeq
    <3>3. Len(Tail(s)) # 0 /\ Len(<<>>) = 0
      BY <3>1, <3>2
    <3>4. QED
      BY <3>2, <3>3 DEF s
  <2>2. c \in Context /\ Placed(pc[p], c)
    <3>1. /\ c \in Context /\ c.todo # <<>>
          /\ c.op = ctx[p].op /\ c.got = ctx[p].got /\ c.token = ctx[p].token
      BY <2>1, HandlerTyped DEF Context
    <3>2. pc[p] \in {"store", "leases", "delete"}
      BY <1>2 DEF WriteNext
    <3>3. QED
      BY <3>1, <3>2, HandlerTyped DEF Placed
  <2>3. QED
    BY <1>1, <1>2, <2>2, HandlerTyped, GotoTyped DEF WriteNext, TypeOK, server, ghosts
<1>3. CASE StoreLast(p)
  <2> DEFINE c == [ctx[p] EXCEPT !.todo = <<>>]
  <2>1. <<>> \in Seq(Key) /\ "sync" \in Pc
    BY DEF Pc
  <2>2. c \in Context /\ Placed("sync", c)
    BY <1>3, <2>1, HandlerTyped DEF StoreLast, Context, Placed
  <2>3. QED
    BY <1>1, <1>3, <2>1, <2>2, GotoTyped DEF StoreLast, TypeOK, server, ghosts
<1>4. CASE LeaseLast(p)
  <2>1. \/ Exit(p) /\ timer' = TRUE /\ UNCHANGED inFlight
        \/ Settle(p, FALSE, TRUE)
    BY <1>4 DEF LeaseLast, Finish
  <2>2. QED
    BY <1>1, <1>4, <2>1, ExitTyped, SettleTyped DEF LeaseLast, TypeOK, server, ghosts
<1>5. CASE DeleteLast(p)
  <2>1. timer' \in BOOLEAN
    BY <1>5 DEF DeleteLast, TypeOK
  <2>2. QED
    BY <1>1, <1>5, <2>1, ExitTyped DEF DeleteLast, TypeOK, server, ghosts
<1>6. QED
  BY <1>2, <1>3, <1>4, <1>5

LEMMA SyncTyped ==
    ASSUME TypeOK, NEW p \in Proc, SyncAnswered(p) \/ SyncFails(p)
    PROVE  TypeOK'
<1>1. CASE SyncAnswered(p)
  <2>1. PICK got \in {0, ctx[p].got} :
            Goto(p, "leases", [ctx[p] EXCEPT !.got = got, !.todo = LeaseKeys])
    BY <1>1 DEF SyncAnswered
  <2> DEFINE c == [ctx[p] EXCEPT !.got = got, !.todo = LeaseKeys]
  <2>2. c \in Context /\ "leases" \in Pc
    BY HandlerTyped, KeyLists DEF Context, Pc
  <2>3. Placed("leases", c)
    BY <1>1, HandlerTyped, KeyLists DEF SyncAnswered, Placed, Context
  <2>4. QED
    BY <1>1, <2>1, <2>2, <2>3, GotoTyped DEF SyncAnswered, TypeOK, client, server, ghosts
<1>2. CASE SyncFails(p)
  <2>1. \/ Exit(p) /\ timer' = TRUE /\ UNCHANGED inFlight
        \/ Settle(p, FALSE, TRUE)
    BY <1>2 DEF SyncFails, Finish
  <2>2. QED
    BY <1>2, <2>1, ExitTyped, SettleTyped DEF SyncFails, TypeOK, server, ghosts
<1>3. QED
  BY <1>1, <1>2

LEMMA NextTyped == TypeOK /\ [Next]_vars => TypeOK'
<1> SUFFICES ASSUME TypeOK, [Next]_vars PROVE TypeOK'
  OBVIOUS
<1>1. ASSUME NEW p \in Proc, Start(p) \/ Step(p)
      PROVE  TypeOK'
  BY <1>1, StartTyped, ReadTyped, RefreshTokenReadTyped, RotationTyped,
     AnsweredTyped, LoginTyped, WritesTyped, SyncTyped DEF Step
<1>2. CASE UNCHANGED vars
  BY <1>2 DEF vars, client, server, ghosts, TypeOK
<1>3. QED
  BY <1>1, <1>2 DEF Next

(* Secrets, tokens and locals are always well formed: what is stored is an *)
(* answer of the server and never a refusal, and whatever is under way has *)
(* a token.                                                                *)
THEOREM SessionTypeCorrect == Spec => []TypeOK
<1>1. Init => TypeOK
  BY InitTyped
<1>2. TypeOK /\ [Next]_vars => TypeOK'
  BY NextTyped
<1>3. QED
  BY <1>1, <1>2, PTL DEF Spec
-----------------------------------------------------------------------------
(***************************************************************************)
(* Single flight.  A rotation of the current session is the one in flight, *)
(* and what is in flight runs; so no second one can begin, nor a handler   *)
(* join one that is over.  SingleFlight itself carries the rotations of    *)
(* earlier sessions.                                                       *)
(***************************************************************************)
FlightInv ==
    /\ \A p \in Proc : Rotating(p) => ctx[p].born <= epoch
    /\ \A p \in Proc : Rotating(p) /\ ctx[p].born = epoch => inFlight = p
    /\ inFlight # NoProc => Rotating(inFlight)
    /\ SingleFlight
    /\ Joined

LEMMA InitFlight == Init => FlightInv
  BY DEF Init, FlightInv, SingleFlight, Joined, Rotating, NoContext

LEMMA JoinedTarget ==
    ASSUME TypeOK, NEW p \in Proc, pc[p] = "joined"
    PROVE  ctx[p].on \in Proc
  BY HandlerTyped DEF Placed

\* A step that begins and ends no rotation.
LEMMA FlightStays ==
    ASSUME TypeOK, FlightInv, inFlight' = inFlight, epoch' = epoch,
           \A q \in Proc :
              /\ Rotating(q)' <=> Rotating(q)
              /\ Rotating(q) => ctx'[q].born = ctx[q].born
              /\ pc'[q] = "joined" => pc[q] = "joined" /\ ctx'[q].on = ctx[q].on
    PROVE  FlightInv'
<1>1. ASSUME NEW p \in Proc, pc'[p] = "joined"
      PROVE  Rotating(ctx[p].on)'
  <2>1. pc[p] = "joined" /\ ctx'[p].on = ctx[p].on
    BY <1>1
  <2>2. Rotating(ctx[p].on) /\ ctx[p].on \in Proc
    BY <2>1, JoinedTarget DEF FlightInv, Joined
  <2>3. QED
    BY <2>1, <2>2 DEF Rotating
<1>2. inFlight # NoProc => inFlight \in Proc /\ Rotating(inFlight)
  BY DEF TypeOK, FlightInv
<1>3. inFlight' # NoProc => Rotating(inFlight)'
  BY <1>2 DEF Rotating
<1>4. QED
  BY <1>1, <1>2, <1>3 DEF FlightInv, SingleFlight, Joined

LEMMA StartFlight ==
    ASSUME TypeOK, FlightInv, NEW p \in Proc, Start(p)
    PROVE  FlightInv'
<1>1. pc[p] = "idle" /\ pc'[p] \notin {"sent", "answered", "store", "sync", "leases", "joined"}
  BY DEF Start, StartRefresh, StartRefreshKeysIfStale, StartLogin, StartLogout,
         BeginSession, Goto, TypeOK
<1>2. \A q \in Proc \ {p} : pc'[q] = pc[q] /\ ctx'[q] = ctx[q]
  BY DEF Start, StartRefresh, StartRefreshKeysIfStale, StartLogin, StartLogout, Goto, TypeOK
<1>3. \A q \in Proc :
         /\ Rotating(q)' <=> Rotating(q)
         /\ Rotating(q) => ctx'[q].born = ctx[q].born
         /\ pc'[q] = "joined" => pc[q] = "joined" /\ ctx'[q].on = ctx[q].on
  BY <1>1, <1>2 DEF Rotating
<1>4. CASE StartRefresh(p) \/ StartRefreshKeysIfStale(p)
  <2>1. UNCHANGED <<inFlight, epoch>>
    BY <1>4 DEF StartRefresh, StartRefreshKeysIfStale, client
  <2>2. QED
    BY <1>3, <2>1, FlightStays
<1>5. CASE StartLogin(p) \/ StartLogout(p)
  <2>1. epoch' = epoch + 1 /\ inFlight' = NoProc
    BY <1>5 DEF StartLogin, StartLogout, BeginSession
  <2>2. \A q \in Proc : Rotating(q)' =>
           ctx'[q].born \in Nat /\ ctx'[q].born <= epoch /\ ctx'[q].born < epoch'
    BY <1>3, <2>1, HandlerTyped DEF FlightInv, TypeOK
  <2>3. SingleFlight'
    BY <1>3 DEF FlightInv, SingleFlight
  <2>4. Joined'
    <3>1. ASSUME NEW q \in Proc, pc'[q] = "joined"
          PROVE  Rotating(ctx[q].on)'
      <4>1. Rotating(ctx[q].on) /\ ctx[q].on \in Proc /\ ctx'[q].on = ctx[q].on
        BY <1>3, <3>1, JoinedTarget DEF FlightInv, Joined
      <4>2. ctx[q].on # p
        BY <1>1, <4>1 DEF Rotating
      <4>3. QED
        BY <1>2, <4>1, <4>2 DEF Rotating
    <3>2. QED
      BY <3>1 DEF Joined
  <2>5. epoch \in Nat /\ epoch' \in Nat
    BY <2>1 DEF TypeOK
  <2>6. QED
    BY <2>1, <2>2, <2>3, <2>4, <2>5 DEF FlightInv
<1>6. QED
  BY <1>4, <1>5 DEF Start

\* A rotation begins only when none of this session runs.
LEMMA RefreshTokenReadFlight ==
    ASSUME TypeOK, FlightInv, NEW p \in Proc, RefreshTokenRead(p)
    PROVE  FlightInv'
<1> DEFINE t == secrets["refreshToken"]
<1>1. pc[p] = "refreshToken" /\ epoch' = epoch
  BY DEF RefreshTokenRead
<1>2. ~Rotating(p)
  BY <1>1 DEF Rotating
<1>3. CASE Exit(p) /\ inFlight' = inFlight
  <2>1. \A q \in Proc :
           /\ Rotating(q)' <=> Rotating(q)
           /\ Rotating(q) => ctx'[q].born = ctx[q].born
           /\ pc'[q] = "joined" => pc[q] = "joined" /\ ctx'[q].on = ctx[q].on
    BY <1>2, <1>3 DEF TypeOK, Exit, Goto, Rotating
  <2>2. QED
    BY <1>1, <1>3, <2>1, FlightStays
<1>4. CASE /\ inFlight = NoProc /\ inFlight' = p
           /\ Goto(p, "sent", [ctx[p] EXCEPT !.token = t, !.born = epoch])
  <2>1. pc'[p] = "sent" /\ ctx'[p].born = epoch
    BY <1>4, HandlerTyped DEF TypeOK, Goto, Context
  <2>2. \A q \in Proc \ {p} : pc'[q] = pc[q] /\ ctx'[q] = ctx[q]
    BY <1>4 DEF TypeOK, Goto
  <2>3. \A q \in Proc \ {p} : Rotating(q)' => Rotating(q) /\ ctx[q].born < epoch
    <3>1. \A q \in Proc : Rotating(q) => ctx[q].born # epoch
      BY <1>4, AuthProcAssumption DEF FlightInv
    <3>2. \A q \in Proc : Rotating(q) => ctx[q].born < epoch
      BY <3>1, HandlerTyped DEF FlightInv, TypeOK
    <3>3. QED
      BY <2>2, <3>2 DEF Rotating
  <2>4. Rotating(p)'
    BY <2>1 DEF Rotating
  <2>5. \A q \in Proc \ {p} : Rotating(q) => Rotating(q)'
    BY <2>2 DEF Rotating
  <2>6. epoch \in Nat /\ \A q \in Proc : ctx[q].born \in Nat
    BY HandlerTyped DEF TypeOK
  <2>7. SingleFlight'
    BY <2>1, <2>2, <2>3, <2>6 DEF FlightInv, SingleFlight
  <2>8. Joined'
    <3>1. ASSUME NEW q \in Proc, pc'[q] = "joined"
          PROVE  Rotating(ctx[q].on)'
      <4>1. q # p
        BY <2>1, <3>1
      <4>2. Rotating(ctx[q].on) /\ ctx[q].on \in Proc /\ ctx'[q].on = ctx[q].on
        BY <2>2, <3>1, <4>1, JoinedTarget DEF FlightInv, Joined
      <4>3. ctx[q].on # p
        BY <1>2, <4>2
      <4>4. QED
        BY <2>2, <4>2, <4>3 DEF Rotating
    <3>2. QED
      BY <3>1 DEF Joined
  <2>9. Rotating(inFlight)'
    BY <1>4, <2>1 DEF Rotating
  <2>10. QED
    BY <1>1, <1>4, <2>1, <2>2, <2>3, <2>6, <2>7, <2>8, <2>9 DEF FlightInv
<1>5. CASE /\ inFlight # NoProc /\ inFlight' = inFlight
           /\ Goto(p, "joined", [ctx[p] EXCEPT !.on = inFlight])
  <2>1. pc'[p] = "joined" /\ ctx'[p].on = inFlight
    BY <1>5, HandlerTyped DEF TypeOK, Goto, Context
  <2>2. \A q \in Proc \ {p} : pc'[q] = pc[q] /\ ctx'[q] = ctx[q]
    BY <1>5 DEF TypeOK, Goto
  <2>3. \A q \in Proc : Rotating(q)' <=> Rotating(q)
    BY <1>2, <2>1, <2>2 DEF Rotating
  <2>4. \A q \in Proc : Rotating(q)' => ctx'[q] = ctx[q]
    BY <1>2, <2>2, <2>3
  <2>5. inFlight \in Proc /\ Rotating(inFlight) /\ inFlight # p
    BY <1>2, <1>5 DEF FlightInv, TypeOK
  <2>6. Rotating(inFlight)'
    BY <1>5, <2>2, <2>5 DEF Rotating
  <2>7. Joined'
    <3>1. ASSUME NEW q \in Proc, pc'[q] = "joined"
          PROVE  Rotating(ctx[q].on)'
      <4>1. CASE q = p
        BY <1>5, <2>1, <2>5, <2>2, <4>1 DEF Rotating
      <4>2. CASE q # p
        <5>1. Rotating(ctx[q].on) /\ ctx[q].on \in Proc /\ ctx'[q].on = ctx[q].on
          BY <2>2, <3>1, <4>2, JoinedTarget DEF FlightInv, Joined
        <5>2. ctx[q].on # p
          BY <1>2, <5>1
        <5>3. QED
          BY <2>2, <5>1, <5>2 DEF Rotating
      <4>3. QED
        BY <4>1, <4>2
    <3>2. QED
      BY <3>1 DEF Joined
  <2>8. QED
    BY <1>1, <1>5, <2>3, <2>4, <2>6, <2>7 DEF FlightInv, SingleFlight
<1>6. QED
  BY <1>3, <1>4, <1>5 DEF RefreshTokenRead, Rotate

\* The end of a rotation: it is no longer in flight, nobody awaits it.
LEMMA SettleFlight ==
    ASSUME TypeOK, FlightInv, NEW p \in Proc, Rotating(p), epoch' = epoch,
           NEW refused, NEW ok, Settle(p, refused, ok)
    PROVE  FlightInv'
<1>1. inFlight' = IF inFlight = p THEN NoProc ELSE inFlight
  BY DEF Settle
<1>2. p \in Awaiting(p)
  BY DEF Awaiting
<1>3. \A q \in Awaiting(p) \cap Proc : pc'[q] \in {"idle", "delete"}
  BY Settled
<1>4. \A q \in Proc \ Awaiting(p) : pc'[q] = pc[q] /\ ctx'[q] = ctx[q]
  BY Settled
<1>5. \A q \in Proc : Rotating(q) /\ q # p => q \notin Awaiting(p)
  BY DEF Rotating, Awaiting
<1>6. \A q \in Proc : Rotating(q)' <=> Rotating(q) /\ q # p
  BY <1>2, <1>3, <1>4, <1>5 DEF Rotating
<1>7. \A q \in Proc : Rotating(q)' => ctx'[q] = ctx[q]
  BY <1>4, <1>5, <1>6
<1>8. inFlight' # NoProc => Rotating(inFlight)'
  <2> SUFFICES ASSUME inFlight' # NoProc PROVE Rotating(inFlight)'
    OBVIOUS
  <2>1. inFlight' = inFlight /\ inFlight # p /\ inFlight \in Proc /\ Rotating(inFlight)
    BY <1>1 DEF FlightInv, TypeOK
  <2>2. QED
    BY <1>4, <1>5, <2>1 DEF Rotating
<1>9. Joined'
  <2>1. ASSUME NEW q \in Proc, pc'[q] = "joined"
        PROVE  Rotating(ctx[q].on)'
    <3>1. q \notin Awaiting(p) /\ pc[q] = "joined" /\ ctx'[q].on = ctx[q].on
      BY <1>3, <1>4, <2>1
    <3>2. Rotating(ctx[q].on) /\ ctx[q].on \in Proc /\ ctx[q].on # p
      BY <3>1, JoinedTarget DEF FlightInv, Joined, Awaiting
    <3>3. QED
      BY <1>4, <1>5, <3>1, <3>2 DEF Rotating
  <2>2. QED
    BY <2>1 DEF Joined
<1>10. SingleFlight'
  BY <1>6, <1>7 DEF FlightInv, SingleFlight
<1>11. \A q \in Proc : Rotating(q)' /\ ctx'[q].born = epoch' => inFlight' = q
  BY <1>1, <1>6, <1>7 DEF FlightInv
<1>12. QED
  BY <1>6, <1>7, <1>8, <1>9, <1>10, <1>11 DEF FlightInv

LEMMA FinishFlight ==
    ASSUME TypeOK, FlightInv, NEW p \in Proc, pc[p] \in {"sync", "leases"},
           epoch' = epoch, Finish(p)
    PROVE  FlightInv'
<1>1. CASE ctx[p].op = "login"
  <2>1. Exit(p) /\ inFlight' = inFlight /\ ~Rotating(p)
    BY <1>1 DEF Finish, Rotating
  <2>2. \A q \in Proc :
           /\ Rotating(q)' <=> Rotating(q)
           /\ Rotating(q) => ctx'[q].born = ctx[q].born
           /\ pc'[q] = "joined" => pc[q] = "joined" /\ ctx'[q].on = ctx[q].on
    BY <2>1 DEF TypeOK, Exit, Goto, Rotating
  <2>3. QED
    BY <2>1, <2>2, FlightStays
<1>2. CASE ctx[p].op # "login"
  <2>1. Rotating(p) /\ Settle(p, FALSE, TRUE)
    BY <1>2 DEF Finish, Rotating
  <2>2. QED
    BY <2>1, SettleFlight
<1>3. QED
  BY <1>1, <1>2

\* A handler that moves within or outside a rotation.
LEMMA GotoFlight ==
    ASSUME TypeOK, FlightInv, NEW p \in Proc, NEW l \in Pc \ {"joined"},
           NEW c \in Context, Goto(p, l, c), UNCHANGED <<inFlight, epoch>>,
           Rotating(p) <=> \/ l \in {"sent", "answered"}
                           \/ l \in {"store", "sync", "leases"} /\ c.op # "login",
           Rotating(p) => c.born = ctx[p].born
    PROVE  FlightInv'
<1>1. \A q \in Proc :
         /\ Rotating(q)' <=> Rotating(q)
         /\ Rotating(q) => ctx'[q].born = ctx[q].born
         /\ pc'[q] = "joined" => pc[q] = "joined" /\ ctx'[q].on = ctx[q].on
  BY DEF TypeOK, Goto, Rotating
<1>2. QED
  BY <1>1, FlightStays

LEMMA ExitFlight ==
    ASSUME TypeOK, FlightInv, NEW p \in Proc, ~Rotating(p), Exit(p),
           UNCHANGED <<inFlight, epoch>>
    PROVE  FlightInv'
<1>1. "idle" \in Pc
  BY DEF Pc
<1>2. QED
  BY <1>1, NoContextTyped, GotoFlight DEF Exit

LEMMA StepFlight ==
    ASSUME TypeOK, FlightInv, NEW p \in Proc, Step(p)
    PROVE  FlightInv'
<1>1. CASE Identity(p) \/ ValidatedAt(p)
  <2>1. /\ pc[p] \in {"identity", "validatedAt"}
        /\ Goto(p, "refreshToken", ctx[p]) \/ Exit(p)
        /\ UNCHANGED <<inFlight, epoch>>
    BY <1>1 DEF Identity, ValidatedAt, client
  <2>2. ~Rotating(p)
    BY <2>1 DEF Rotating
  <2>3. "refreshToken" \in Pc
    BY DEF Pc
  <2>4. QED
    BY <2>1, <2>2, <2>3, HandlerTyped, GotoFlight, ExitFlight
<1>2. CASE RefreshTokenRead(p)
  BY <1>2, RefreshTokenReadFlight
<1>3. CASE ServerRotates(p) \/ ServerErrs(p) \/ Lose(p)
  <2>1. Rotating(p) /\ UNCHANGED <<inFlight, epoch>>
    BY <1>3 DEF ServerRotates, ServerErrs, Lose, Rotating, client
  <2>2. \E c \in Context : Goto(p, "answered", c) /\ c.born = ctx[p].born
    <3>1. \A a \in Answer \cup {0} :
             /\ [ctx[p] EXCEPT !.got = a] \in Context
             /\ [ctx[p] EXCEPT !.got = a].born = ctx[p].born
      BY HandlerTyped DEF Context
    <3>2. /\ [ctx[p] EXCEPT !.lost = TRUE] \in Context
          /\ [ctx[p] EXCEPT !.lost = TRUE].born = ctx[p].born
      BY HandlerTyped DEF Context
    <3>3. \/ \E a \in Answer \cup {0} : Goto(p, "answered", [ctx[p] EXCEPT !.got = a])
          \/ Goto(p, "answered", [ctx[p] EXCEPT !.lost = TRUE])
      BY <1>3 DEF ServerRotates, ServerErrs, Lose, Issued
    <3>4. QED
      BY <3>1, <3>2, <3>3
  <2>3. "answered" \in Pc
    BY DEF Pc
  <2>4. QED
    BY <2>1, <2>2, <2>3, GotoFlight
<1>4. CASE Answered(p)
  <2>1. Rotating(p) /\ epoch' = epoch /\ ctx[p].op # "login"
    BY <1>4, HandlerTyped DEF Answered, Rotating, Placed
  <2>2. CASE Settle(p, ~ctx[p].lost /\ ctx[p].got = 0, FALSE)
    BY <2>1, <2>2, SettleFlight
  <2>3. CASE /\ Goto(p, "store", [ctx[p] EXCEPT !.todo = StoredKeys(ctx[p].op)])
             /\ inFlight' = inFlight
    <3> DEFINE c == [ctx[p] EXCEPT !.todo = StoredKeys(ctx[p].op)]
    <3>1. c \in Context /\ c.op = ctx[p].op /\ c.born = ctx[p].born
      BY HandlerTyped, KeyLists DEF Context
    <3>2. "store" \in Pc
      BY DEF Pc
    <3>3. QED
      BY <2>1, <2>3, <3>1, <3>2, GotoFlight
  <2>4. QED
    BY <1>4, <2>2, <2>3 DEF Answered
<1>5. CASE LoginFails(p)
  <2>1. ~Rotating(p) /\ Exit(p) /\ UNCHANGED <<inFlight, epoch>>
    BY <1>5 DEF LoginFails, Rotating
  <2>2. QED
    BY <2>1, ExitFlight
<1>6. CASE LoginAnswered(p)
  <2>1. ~Rotating(p) /\ UNCHANGED <<inFlight, epoch>>
    BY <1>6 DEF LoginAnswered, Rotating
  <2>2. PICK a \in Answer :
           Goto(p, "store", [ctx[p] EXCEPT !.got = a, !.todo = StoredKeys("login")])
    BY <1>6 DEF LoginAnswered
  <2> DEFINE c == [ctx[p] EXCEPT !.got = a, !.todo = StoredKeys("login")]
  <2>3. "store" \in Pc /\ "login" \in Op
    BY DEF Pc, Op
  <2>4. c \in Context /\ c.op = ctx[p].op
    BY <2>3, HandlerTyped, KeyLists DEF Context
  <2>5. c.op = "login"
    BY <1>6, <2>4, HandlerTyped DEF LoginAnswered, Placed
  <2>6. QED
    BY <2>1, <2>2, <2>3, <2>4, <2>5, GotoFlight
<1>7. CASE LogoutRead(p)
  <2> DEFINE c == [ctx[p] EXCEPT !.todo = SessionKeys]
  <2>1. ~Rotating(p) /\ Goto(p, "delete", c) /\ UNCHANGED <<inFlight, epoch>>
    BY <1>7 DEF LogoutRead, Rotating, client
  <2>2. c \in Context /\ "delete" \in Pc
    BY HandlerTyped, KeyLists DEF Context, Pc
  <2>3. QED
    BY <2>1, <2>2, GotoFlight
<1>8. CASE WriteNext(p)
  <2> DEFINE c == [ctx[p] EXCEPT !.todo = Tail(@)]
  <2>1. /\ pc[p] \in {"store", "leases", "delete"} /\ Goto(p, pc[p], c)
        /\ UNCHANGED <<inFlight, epoch>>
    BY <1>8 DEF WriteNext
  <2>2. c \in Context /\ c.op = ctx[p].op /\ c.born = ctx[p].born
    <3>1. Tail(ctx[p].todo) \in Seq(Key)
      BY <2>1, HandlerTyped, HeadTailProperties DEF Placed
    <3>2. QED
      BY <3>1, HandlerTyped DEF Context
  <2>3. QED
    BY <2>1, <2>2, HandlerTyped, GotoFlight DEF Rotating
<1>9. CASE StoreLast(p)
  <2> DEFINE c == [ctx[p] EXCEPT !.todo = <<>>]
  <2>1. pc[p] = "store" /\ Goto(p, "sync", c) /\ UNCHANGED <<inFlight, epoch>>
    BY <1>9 DEF StoreLast
  <2>2. c \in Context /\ c.op = ctx[p].op /\ c.born = ctx[p].born /\ "sync" \in Pc
    <3>1. <<>> \in Seq(Key)
      OBVIOUS
    <3>2. QED
      BY <3>1, HandlerTyped DEF Context, Pc
  <2>3. QED
    BY <2>1, <2>2, GotoFlight DEF Rotating
<1>10. CASE SyncAnswered(p)
  <2>1. PICK got \in {0, ctx[p].got} :
            Goto(p, "leases", [ctx[p] EXCEPT !.got = got, !.todo = LeaseKeys])
    BY <1>10 DEF SyncAnswered
  <2> DEFINE c == [ctx[p] EXCEPT !.got = got, !.todo = LeaseKeys]
  <2>2. pc[p] = "sync" /\ UNCHANGED <<inFlight, epoch>>
    BY <1>10 DEF SyncAnswered, client
  <2>3. c \in Context /\ c.op = ctx[p].op /\ c.born = ctx[p].born /\ "leases" \in Pc
    BY HandlerTyped, KeyLists DEF Context, Pc
  <2>4. QED
    BY <2>1, <2>2, <2>3, GotoFlight DEF Rotating
<1>11. CASE SyncFails(p) \/ LeaseLast(p)
  <2>1. pc[p] \in {"sync", "leases"} /\ epoch' = epoch /\ Finish(p)
    BY <1>11 DEF SyncFails, LeaseLast
  <2>2. QED
    BY <2>1, FinishFlight
<1>12. CASE DeleteLast(p)
  <2>1. ~Rotating(p) /\ Exit(p) /\ UNCHANGED <<inFlight, epoch>>
    BY <1>12 DEF DeleteLast, Rotating
  <2>2. QED
    BY <2>1, ExitFlight
<1>13. QED
  BY <1>1, <1>2, <1>3, <1>4, <1>5, <1>6, <1>7, <1>8, <1>9, <1>10, <1>11, <1>12 DEF Step

LEMMA NextFlight == TypeOK /\ FlightInv /\ [Next]_vars => FlightInv'
<1> SUFFICES ASSUME TypeOK, FlightInv, [Next]_vars PROVE FlightInv'
  OBVIOUS
<1>1. CASE Next
  BY <1>1, StartFlight, StepFlight DEF Next
<1>2. CASE UNCHANGED vars
  <2>1. UNCHANGED <<pc, ctx, inFlight, epoch>>
    BY <1>2 DEF vars, client
  <2>2. \A q \in Proc : Rotating(q)' <=> Rotating(q)
    BY <2>1 DEF Rotating
  <2>3. QED
    BY <2>1, <2>2, FlightStays
<1>3. QED
  BY <1>1, <1>2

(* Callers within one session share one request, for any number of them    *)
(* and whatever logins and logouts come in between.                        *)
THEOREM OneFlight == Spec => []SingleFlight
<1>1. Init => TypeOK /\ FlightInv
  BY InitTyped, InitFlight
<1>2. TypeOK /\ FlightInv /\ [Next]_vars => TypeOK' /\ FlightInv'
  BY NextTyped, NextFlight
<1>3. FlightInv => SingleFlight
  BY DEF FlightInv
<1>4. QED
  BY <1>1, <1>2, <1>3, PTL DEF Spec

(* Whoever awaits another's rotation awaits one that runs.                 *)
THEOREM NobodyStranded == Spec => []Joined
<1>1. Init => TypeOK /\ FlightInv
  BY InitTyped, InitFlight
<1>2. TypeOK /\ FlightInv /\ [Next]_vars => TypeOK' /\ FlightInv'
  BY NextTyped, NextFlight
<1>3. FlightInv => Joined
  BY DEF FlightInv
<1>4. QED
  BY <1>1, <1>2, <1>3, PTL DEF Spec
-----------------------------------------------------------------------------
(***************************************************************************)
(* No replay.  What makes a token safe to send is that its session still   *)
(* accepts it, or accepts nothing, or that it is spoiled.  So it is of the *)
(* token in the secret storage, unless the rotation in flight has its      *)
(* successor in hand and will store it; and of every answer in hand, which *)
(* nobody else has seen.                                                   *)
(***************************************************************************)
Accepted(t) == current[session[t]] \in {t, 0} \/ t \in spoiled

\* At this place, with these locals, the answer's refresh token is not stored.
Unstored(l, c) ==
    /\ c.got # 0
    /\ l = "answered" \/ (l = "store" /\ \E i \in DOMAIN c.todo : c.todo[i] = "refreshToken")

Holds(p) == Unstored(pc[p], ctx[p])

\* The answer in hand is the successor of the token t, and will be stored.
Replaces(p, t) ==
    /\ Rotating(p) /\ Holds(p)
    /\ ~ctx[p].lost /\ inFlight = p /\ ctx[p].token = t

\* A refresh token is stored once, and by no lease.
StoresOnce(l, c) ==
    /\ l = "leases" => \A i \in DOMAIN c.todo : c.todo[i] # "refreshToken"
    /\ l = "store" =>
          \A i, j \in DOMAIN c.todo :
              c.todo[i] = "refreshToken" /\ c.todo[j] = "refreshToken" => i = j

\* The answer of a rotation begun in an earlier session will be dropped.
Timely(p) == ctx[p].born = epoch /\ ctx[p].epoch = epoch

HandlerInv(p) ==
    /\ pc[p] = "sent" => ~ctx[p].lost /\ ctx[p].got = 0 /\ Accepted(ctx[p].token)
    /\ Rotating(p) => session[ctx[p].token] # 0 /\ (Timely(p) \/ ctx[p].token \in spoiled)
    /\ Holds(p) => session[ctx[p].got] # 0 /\ Accepted(ctx[p].got)
    /\ StoresOnce(pc[p], ctx[p])

\* An answer in hand is in nobody else's.
InOneHand(p) ==
    Holds(p) =>
        /\ ctx[p].got # secrets["refreshToken"]
        /\ \A q \in Proc : pc[q] = "sent" => ctx[q].token # ctx[p].got
        /\ \A q \in Proc \ {p} : Holds(q) => ctx[q].got # ctx[p].got

StoredInv ==
    LET t == secrets["refreshToken"] IN
    t # 0 => /\ session[t] # 0
             /\ Accepted(t) \/ \E q \in Proc : Replaces(q, t)

SessionsOpen == \A a \in Answer : session[a] # 0 => session[session[a]] # 0

TokenInv ==
    /\ \A p \in Proc : HandlerInv(p)
    /\ \A p \in Proc : InOneHand(p)
    /\ StoredInv
    /\ SessionsOpen
    /\ NoReplay

LEMMA InitTokens == Init => TokenInv
<1> SUFFICES ASSUME Init PROVE TokenInv
  OBVIOUS
<1>1. 1 \in Answer
  BY MaxAnswersAssumption DEF Answer
<1>2. \A p \in Proc : pc[p] = "idle" /\ ~Rotating(p) /\ ~Holds(p)
  BY DEF Init, Rotating, Holds, Unstored
<1>3. \A p \in Proc : HandlerInv(p) /\ InOneHand(p)
  BY <1>2 DEF HandlerInv, InOneHand, StoresOnce
<1>4. StoredInv
  BY <1>1 DEF Init, StoredInv, Accepted, NoSecrets, Key
<1>5. SessionsOpen
  BY <1>1 DEF Init, SessionsOpen
<1>6. NoReplay
  BY DEF Init, NoReplay
<1>7. QED
  BY <1>3, <1>4, <1>5, <1>6 DEF TokenInv

\* What a server that only forgets leaves accepted.
LEMMA StillAccepted ==
    ASSUME TypeOK, NEW t \in Answer, session[t] # 0, Accepted(t), session' = session,
           \A a \in Answer : current'[a] \in {current[a], 0}, spoiled \subseteq spoiled'
    PROVE  Accepted(t)'
<1>1. session[t] \in Answer
  BY DEF TypeOK
<1>2. current'[session[t]] \in {current[session[t]], 0}
  BY <1>1
<1>3. QED
  BY <1>2 DEF Accepted

\* A step that hands nobody anything: no token is sent that was not, no answer is
\* held that was not, and what is stored stays or is deleted.
LEMMA TokensStay ==
    ASSUME TypeOK, TokenInv, session' = session,
           \A a \in Answer : current'[a] \in {current[a], 0},
           spoiled \subseteq spoiled', replayed' \subseteq spoiled',
           secrets'["refreshToken"] \in {secrets["refreshToken"], 0},
           \A q \in Proc : pc'[q] = "sent" => pc[q] = "sent" /\ ctx'[q] = ctx[q],
           \A q \in Proc : Rotating(q)' => /\ Rotating(q) /\ ctx'[q].token = ctx[q].token
                                           /\ (Timely(q) => Timely(q)') \/ ctx[q].token \in spoiled',
           \A q \in Proc : Holds(q)' => Holds(q) /\ ctx'[q].got = ctx[q].got,
           \A q \in Proc : StoresOnce(pc[q], ctx[q])',
           \A q \in Proc : Replaces(q, secrets["refreshToken"])
              => \/ Replaces(q, secrets["refreshToken"])'
                 \/ secrets["refreshToken"] \in spoiled' \/ secrets'["refreshToken"] = 0
    PROVE  TokenInv'
<1> USE DEF TokenInv
<1>1. \A q \in Proc : Rotating(q) => ctx[q].token \in Answer
  BY HandlerTyped DEF Rotating, Placed
<1>2. \A q \in Proc : Holds(q) => ctx[q].got \in Answer
  BY HandlerTyped DEF Holds, Unstored
<1>3. ASSUME NEW q \in Proc
      PROVE  HandlerInv(q)'
  <2>1. pc'[q] = "sent" => /\ ~ctx'[q].lost /\ ctx'[q].got = 0
                           /\ Accepted(ctx[q].token)'
    <3> SUFFICES ASSUME pc'[q] = "sent"
                 PROVE  ~ctx'[q].lost /\ ctx'[q].got = 0 /\ Accepted(ctx[q].token)'
      OBVIOUS
    <3>1. pc[q] = "sent" /\ ctx'[q] = ctx[q] /\ Rotating(q)
      BY DEF Rotating
    <3>2. session[ctx[q].token] # 0 /\ Accepted(ctx[q].token)
      BY <3>1 DEF HandlerInv
    <3>3. Accepted(ctx[q].token)'
      BY <1>1, <3>1, <3>2, StillAccepted DEF Accepted
    <3>4. QED
      BY <3>1, <3>3 DEF HandlerInv
  <2>2. Rotating(q)' => session'[ctx'[q].token] # 0 /\ (Timely(q)' \/ ctx'[q].token \in spoiled')
    BY DEF HandlerInv
  <2>3. Holds(q)' => session'[ctx'[q].got] # 0 /\ Accepted(ctx[q].got)'
    <3> SUFFICES ASSUME Holds(q)'
                 PROVE  session'[ctx'[q].got] # 0 /\ Accepted(ctx[q].got)'
      OBVIOUS
    <3>1. Holds(q) /\ ctx'[q].got = ctx[q].got /\ ctx[q].got \in Answer
      BY <1>2
    <3>2. session[ctx[q].got] # 0 /\ Accepted(ctx[q].got)
      BY <3>1 DEF HandlerInv
    <3>3. QED
      BY <3>1, <3>2, StillAccepted DEF Accepted
  <2>4. QED
    BY <2>1, <2>2, <2>3 DEF HandlerInv
<1>4. ASSUME NEW q \in Proc
      PROVE  InOneHand(q)'
  <2> SUFFICES ASSUME Holds(q)'
               PROVE  /\ ctx'[q].got # secrets'["refreshToken"]
                      /\ \A r \in Proc : pc'[r] = "sent" => ctx'[r].token # ctx'[q].got
                      /\ \A r \in Proc \ {q} : Holds(r)' => ctx'[r].got # ctx'[q].got
    BY DEF InOneHand
  <2>1. Holds(q) /\ ctx'[q].got = ctx[q].got /\ ctx[q].got # 0
    BY DEF Holds, Unstored
  <2>2. QED
    BY <2>1 DEF InOneHand
<1>5. StoredInv'
  <2> DEFINE t == secrets["refreshToken"]
  <2> SUFFICES ASSUME secrets'["refreshToken"] # 0
               PROVE  /\ session'[t] # 0
                      /\ Accepted(t)' \/ \E q \in Proc : Replaces(q, t)'
    BY DEF StoredInv, Accepted, Replaces
  <2>1. t # 0 /\ secrets'["refreshToken"] = t
    OBVIOUS
  <2>2. t \in Answer
    BY <2>1 DEF TypeOK, Key
  <2>3. session[t] # 0 /\ (Accepted(t) \/ \E q \in Proc : Replaces(q, t))
    BY <2>1 DEF StoredInv
  <2>4. CASE Accepted(t)
    BY <2>2, <2>3, <2>4, StillAccepted DEF Accepted
  <2>5. ASSUME NEW q \in Proc, Replaces(q, t)
        PROVE  Accepted(t)' \/ Replaces(q, t)'
    BY <2>1, <2>5 DEF Accepted
  <2>6. QED
    BY <2>3, <2>4, <2>5
<1>6. SessionsOpen' /\ NoReplay'
  BY DEF SessionsOpen, NoReplay
<1>7. QED
  BY <1>3, <1>4, <1>5, <1>6

\* A handler that moves on without taking a token or an answer.
LEMMA GotoTokens ==
    ASSUME TypeOK, TokenInv, NEW p \in Proc, NEW l, NEW c, Goto(p, l, c),
           session' = session, \A a \in Answer : current'[a] \in {current[a], 0},
           spoiled \subseteq spoiled', replayed' \subseteq spoiled',
           secrets'["refreshToken"] \in {secrets["refreshToken"], 0},
           UNCHANGED <<epoch, inFlight>>, l # "sent",
           l = "answered" \/ (l \in {"store", "sync", "leases"} /\ c.op # "login") =>
              /\ Rotating(p)
              /\ c.token = ctx[p].token /\ c.born = ctx[p].born /\ c.epoch = ctx[p].epoch,
           Unstored(l, c) => Holds(p) /\ c.got = ctx[p].got,
           StoresOnce(l, c),
           Replaces(p, secrets["refreshToken"])
              => \/ Unstored(l, c) /\ c.lost = ctx[p].lost /\ c.op = ctx[p].op
                 \/ ctx[p].token \in spoiled'
    PROVE  TokenInv'
<1>1. pc'[p] = l /\ ctx'[p] = c
  BY DEF TypeOK, Goto
<1>2. \A q \in Proc \ {p} : pc'[q] = pc[q] /\ ctx'[q] = ctx[q]
  BY DEF TypeOK, Goto
<1>3. \A q \in Proc : pc'[q] = "sent" => pc[q] = "sent" /\ ctx'[q] = ctx[q]
  BY <1>1, <1>2
<1>4. ASSUME NEW q \in Proc, Rotating(q)'
      PROVE  /\ Rotating(q) /\ ctx'[q].token = ctx[q].token
             /\ Timely(q) => Timely(q)'
  <2>1. CASE q = p
    BY <1>1, <1>4, <2>1 DEF Rotating, Timely
  <2>2. CASE q # p
    BY <1>2, <1>4, <2>2 DEF Rotating, Timely
  <2>3. QED
    BY <2>1, <2>2
<1>5. ASSUME NEW q \in Proc, Holds(q)'
      PROVE  Holds(q) /\ ctx'[q].got = ctx[q].got
  BY <1>1, <1>2, <1>5 DEF Holds
<1>6. \A q \in Proc : StoresOnce(pc[q], ctx[q])'
  <2>1. \A q \in Proc : StoresOnce(pc[q], ctx[q])
    BY DEF TokenInv, HandlerInv
  <2>2. \A q \in Proc : StoresOnce(pc'[q], ctx'[q])
    BY <1>1, <1>2, <2>1
  <2>3. QED
    BY <2>2 DEF StoresOnce
<1>7. ASSUME NEW q \in Proc, Replaces(q, secrets["refreshToken"])
      PROVE  \/ Replaces(q, secrets["refreshToken"])'
             \/ secrets["refreshToken"] \in spoiled' \/ secrets'["refreshToken"] = 0
  <2> DEFINE t == secrets["refreshToken"]
  <2> SUFFICES ASSUME t \notin spoiled', secrets'["refreshToken"] # 0
               PROVE  Replaces(q, t)'
    BY DEF Replaces
  <2>0. t = secrets'["refreshToken"]
    OBVIOUS
  <2>1. CASE q # p
    BY <1>2, <1>7, <2>0, <2>1 DEF Replaces, Rotating, Holds
  <2>2. CASE q = p
    <3>1. ctx[p].token = t /\ Unstored(l, c) /\ c.lost = ctx[p].lost /\ c.op = ctx[p].op
      BY <1>7, <2>2 DEF Replaces
    <3>2. l = "answered" \/ (l = "store" /\ c.op # "login")
      BY <1>7, <2>2, <3>1, HandlerTyped DEF Replaces, Unstored, Rotating, Placed
    <3>3. Rotating(p)' /\ Holds(p)' /\ c.token = t /\ ~c.lost /\ inFlight' = p
      BY <1>1, <1>7, <2>2, <3>1, <3>2 DEF Replaces, Rotating, Holds
    <3>4. QED
      BY <1>1, <2>0, <2>2, <3>3 DEF Replaces
  <2>3. QED
    BY <2>1, <2>2
<1>8. QED
  BY <1>3, <1>4, <1>5, <1>6, <1>7, TokensStay

\* ... from a place that has neither.
LEMMA QuietTokens ==
    ASSUME TypeOK, TokenInv, NEW p \in Proc, ~Rotating(p), NEW l, NEW c, Goto(p, l, c),
           UNCHANGED <<session, replayed, spoiled, epoch, inFlight>>,
           \A a \in Answer : current'[a] \in {current[a], 0},
           secrets'["refreshToken"] \in {secrets["refreshToken"], 0},
           l \notin {"sent", "answered", "store", "sync", "leases"}
    PROVE  TokenInv'
<1>1. ~Unstored(l, c) /\ StoresOnce(l, c) /\ ~Replaces(p, secrets["refreshToken"])
  BY DEF Unstored, StoresOnce, Replaces
<1>2. replayed' \subseteq spoiled'
  BY DEF TokenInv, NoReplay
<1>3. QED
  BY <1>1, <1>2, GotoTokens

LEMMA SettleTokens ==
    ASSUME TypeOK, TokenInv, NEW p \in Proc, NEW refused, NEW ok, Settle(p, refused, ok),
           UNCHANGED <<server, spoiled, replayed, epoch>>,
           secrets'["refreshToken"] \in {secrets["refreshToken"], 0},
           Replaces(p, secrets["refreshToken"]) => ctx[p].token \in spoiled
    PROVE  TokenInv'
<1> DEFINE t == secrets["refreshToken"]
<1>1. \A q \in Proc : \/ pc'[q] \in {"idle", "delete"}
                      \/ q # p /\ pc'[q] = pc[q] /\ ctx'[q] = ctx[q]
  <2>1. p \in Awaiting(p)
    BY DEF Awaiting
  <2>2. QED
    BY <2>1, Settled
<1>2. \A q \in Proc : pc'[q] = "sent" => pc[q] = "sent" /\ ctx'[q] = ctx[q]
  BY <1>1
<1>3. \A q \in Proc : Rotating(q)' => /\ Rotating(q) /\ ctx'[q].token = ctx[q].token
                                      /\ Timely(q) => Timely(q)'
  BY <1>1 DEF Rotating, Timely
<1>4. \A q \in Proc : Holds(q)' => Holds(q) /\ ctx'[q].got = ctx[q].got
  BY <1>1 DEF Holds, Unstored
<1>5. \A q \in Proc : StoresOnce(pc[q], ctx[q])'
  <2>1. \A q \in Proc : StoresOnce(pc[q], ctx[q])
    BY DEF TokenInv, HandlerInv
  <2>2. QED
    BY <1>1, <2>1 DEF StoresOnce
<1>6. ASSUME NEW q \in Proc, Replaces(q, t), t \notin spoiled, secrets'["refreshToken"] = t
      PROVE  Replaces(q, t)'
  <2>1. q # p /\ Rotating(q) /\ Holds(q) /\ inFlight = q
    BY <1>6 DEF Replaces
  <2>2. q \notin Awaiting(p)
    BY <2>1 DEF Awaiting, Rotating
  <2>3. pc'[q] = pc[q] /\ ctx'[q] = ctx[q] /\ inFlight' = q
    BY <2>1, <2>2, Settled DEF Settle
  <2>4. QED
    BY <1>6, <2>3 DEF Replaces, Rotating, Holds
<1>7. /\ session' = session /\ (\A a \in Answer : current'[a] \in {current[a], 0})
      /\ spoiled \subseteq spoiled' /\ replayed' \subseteq spoiled'
  BY DEF server, TokenInv, NoReplay
<1>8. \A q \in Proc : Replaces(q, t) => Replaces(q, t)' \/ t \in spoiled'
                                           \/ secrets'["refreshToken"] = 0
  BY <1>6 DEF Replaces
<1>9. QED
  BY <1>2, <1>3, <1>4, <1>5, <1>7, <1>8, TokensStay

LEMMA StartTokens ==
    ASSUME TypeOK, TokenInv, NEW p \in Proc, Start(p)
    PROVE  TokenInv'
<1>1. pc[p] = "idle" /\ ~Rotating(p) /\ ~Holds(p)
  BY DEF Start, StartRefresh, StartRefreshKeysIfStale, StartLogin, StartLogout,
         BeginSession, Rotating, Holds, Unstored
<1>2. CASE StartRefresh(p) \/ StartRefreshKeysIfStale(p)
  <2>1. /\ UNCHANGED <<secrets, session, current, replayed, spoiled, epoch, inFlight>>
        /\ \E l \in {"refreshToken", "identity", "validatedAt"}, c \in {ctx'[p]} : Goto(p, l, c)
    <3>1. PICK l \in {"refreshToken", "identity", "validatedAt"} :
             \E c \in Context : Goto(p, l, c)
      <4>1. \A op \in Op : [NoContext EXCEPT !.op = op, !.epoch = epoch] \in Context
        BY NoContextTyped DEF TypeOK, Context
      <4>2. QED
        BY <1>2, <4>1 DEF StartRefresh, StartRefreshKeysIfStale, Op
    <3>2. PICK c \in Context : Goto(p, l, c)
      BY <3>1
    <3>3. ctx'[p] = c
      BY <3>2 DEF TypeOK, Goto
    <3>4. QED
      BY <1>2, <3>2, <3>3 DEF StartRefresh, StartRefreshKeysIfStale, server, ghosts, client
  <2>2. QED
    BY <1>1, <2>1, QuietTokens
<1>3. CASE StartLogin(p) \/ StartLogout(p)
  <2>1. /\ UNCHANGED <<secrets, session, current, replayed>>
        /\ spoiled' = spoiled \cup {ctx[q].token : q \in {r \in Proc : Rotating(r)}}
    BY <1>3 DEF StartLogin, StartLogout, BeginSession, server
  <2>2. pc'[p] \in {"login", "refreshToken"}
    BY <1>3 DEF StartLogin, StartLogout, Goto, TypeOK
  <2>3. \A q \in Proc \ {p} : pc'[q] = pc[q] /\ ctx'[q] = ctx[q]
    BY <1>3 DEF StartLogin, StartLogout, Goto, TypeOK
  <2>4. \A q \in Proc : pc'[q] = "sent" => pc[q] = "sent" /\ ctx'[q] = ctx[q]
    BY <2>2, <2>3
  <2>5. \A q \in Proc : Rotating(q)' => /\ Rotating(q) /\ ctx'[q].token = ctx[q].token
                                        /\ ctx[q].token \in spoiled'
    BY <2>1, <2>2, <2>3 DEF Rotating
  <2>6. \A q \in Proc : Holds(q)' => Holds(q) /\ ctx'[q].got = ctx[q].got
    BY <2>2, <2>3 DEF Holds, Unstored
  <2>7. \A q \in Proc : StoresOnce(pc[q], ctx[q])'
    <3>1. \A q \in Proc : StoresOnce(pc[q], ctx[q])
      BY DEF TokenInv, HandlerInv
    <3>2. QED
      BY <2>2, <2>3, <3>1 DEF StoresOnce
  <2>8. \A q \in Proc : Replaces(q, secrets["refreshToken"]) => secrets["refreshToken"] \in spoiled'
    BY <2>1 DEF Replaces
  <2>9. spoiled \subseteq spoiled' /\ replayed' \subseteq spoiled'
    BY <2>1 DEF TokenInv, NoReplay
  <2>10. QED
    BY <2>1, <2>4, <2>5, <2>6, <2>7, <2>8, <2>9, TokensStay
<1>4. QED
  BY <1>2, <1>3 DEF Start

(***************************************************************************)
(* A handler that has sent no request yet has no answer of one.            *)
(***************************************************************************)
Fresh ==
    \A p \in Proc : pc[p] \in {"identity", "validatedAt", "refreshToken", "sent"}
                        => ~ctx[p].lost /\ ctx[p].got = 0

LEMMA GotoFresh ==
    ASSUME TypeOK, Fresh, NEW p \in Proc, NEW l, NEW c, Goto(p, l, c),
           l \in {"identity", "validatedAt", "refreshToken", "sent"}
              => ~c.lost /\ c.got = 0
    PROVE  Fresh'
  BY DEF TypeOK, Fresh, Goto

LEMMA SettleFresh ==
    ASSUME TypeOK, Fresh, NEW p \in Proc, NEW refused, NEW ok, Settle(p, refused, ok)
    PROVE  Fresh'
<1>1. ASSUME NEW q \in Proc
      PROVE  pc'[q] \in {"idle", "delete"} \/ (pc'[q] = pc[q] /\ ctx'[q] = ctx[q])
  BY Settled
<1>2. QED
  BY <1>1 DEF Fresh

LEMMA NextFresh == TypeOK /\ Fresh /\ [Next]_vars => Fresh'
<1> SUFFICES ASSUME TypeOK, Fresh, [Next]_vars PROVE Fresh'
  OBVIOUS
<1>1. ASSUME NEW p \in Proc, Start(p)
      PROVE  Fresh'
  <2>1. \A op \in Op : /\ ~[NoContext EXCEPT !.op = op].lost
                       /\ [NoContext EXCEPT !.op = op].got = 0
                       /\ ~[NoContext EXCEPT !.op = op, !.epoch = epoch].lost
                       /\ [NoContext EXCEPT !.op = op, !.epoch = epoch].got = 0
    BY DEF NoContext
  <2>2. {"login", "logout", "refresh", "refreshKeysIfStale"} \subseteq Op
    BY DEF Op
  <2>3. \E l \in Pc, op \in Op :
           \/ Goto(p, l, [NoContext EXCEPT !.op = op])
           \/ Goto(p, l, [NoContext EXCEPT !.op = op, !.epoch = epoch])
    BY <1>1, <2>2 DEF Start, StartRefresh, StartRefreshKeysIfStale, StartLogin, StartLogout, Pc
  <2>4. QED
    BY <2>1, <2>3, GotoFresh
<1>2. ASSUME NEW p \in Proc, Step(p)
      PROVE  Fresh'
  <2>1. CASE Identity(p) \/ ValidatedAt(p)
    BY <2>1, GotoFresh DEF Identity, ValidatedAt, Exit, Fresh
  <2>2. CASE RefreshTokenRead(p)
    <3>1. ASSUME NEW t, NEW b
          PROVE  /\ [ctx[p] EXCEPT !.token = t, !.born = b].lost = ctx[p].lost
                 /\ [ctx[p] EXCEPT !.token = t, !.born = b].got = ctx[p].got
      BY HandlerTyped DEF Context
    <3>2. ~ctx[p].lost /\ ctx[p].got = 0
      BY <2>2 DEF RefreshTokenRead, Fresh
    <3>3. QED
      BY <2>2, <3>1, <3>2, GotoFresh DEF RefreshTokenRead, Rotate, Exit
  <2>3. CASE ServerRotates(p) \/ ServerErrs(p) \/ Lose(p)
    BY <2>3, GotoFresh DEF ServerRotates, ServerErrs, Lose
  <2>4. CASE Answered(p) \/ SyncFails(p) \/ LeaseLast(p)
    BY <2>4, GotoFresh, SettleFresh DEF Answered, SyncFails, LeaseLast, Finish, Exit
  <2>5. CASE LoginFails(p) \/ LoginAnswered(p) \/ LogoutRead(p)
    BY <2>5, GotoFresh DEF LoginFails, LoginAnswered, LogoutRead, Exit
  <2>6. CASE WriteNext(p) \/ StoreLast(p) \/ SyncAnswered(p) \/ DeleteLast(p)
    BY <2>6, GotoFresh DEF WriteNext, StoreLast, SyncAnswered, DeleteLast, Exit
  <2>7. QED
    BY <1>2, <2>1, <2>2, <2>3, <2>4, <2>5, <2>6 DEF Step
<1>3. CASE UNCHANGED vars
  BY <1>3 DEF vars, Fresh
<1>4. QED
  BY <1>1, <1>2, <1>3 DEF Next

\* What _store writes has one refresh token, and no lease has any.
LEMMA StoredOnce ==
    /\ \A op \in Op : /\ \E i \in DOMAIN StoredKeys(op) : StoredKeys(op)[i] = "refreshToken"
                      /\ \A i, j \in DOMAIN StoredKeys(op) :
                            StoredKeys(op)[i] = "refreshToken" /\ StoredKeys(op)[j] = "refreshToken"
                               => i = j
    /\ \A i \in DOMAIN LeaseKeys : LeaseKeys[i] # "refreshToken"
<1>1. ASSUME NEW op \in Op
      PROVE  /\ \E i \in DOMAIN StoredKeys(op) : StoredKeys(op)[i] = "refreshToken"
             /\ \A i, j \in DOMAIN StoredKeys(op) :
                   StoredKeys(op)[i] = "refreshToken" /\ StoredKeys(op)[j] = "refreshToken"
                               => i = j
  <2> DEFINE s == StoredKeys(op)
  <2>1. CASE op = "login"
    <3>1. /\ DOMAIN s = 1 .. 4 /\ s[1] = "accessToken" /\ s[2] = "refreshToken"
          /\ s[3] = "email" /\ s[4] = "keysValidatedAt"
      BY <2>1 DEF StoredKeys
    <3>2. 2 \in DOMAIN s /\ \A i \in DOMAIN s : s[i] = "refreshToken" => i = 2
      BY <3>1
    <3>3. \E i \in DOMAIN s : s[i] = "refreshToken"
      BY <3>1, <3>2
    <3>4. QED
      BY <3>2, <3>3
  <2>2. CASE op # "login"
    <3>1. /\ DOMAIN s = 1 .. 3 /\ s[1] = "accessToken" /\ s[2] = "refreshToken"
          /\ s[3] = "keysValidatedAt"
      BY <2>2 DEF StoredKeys
    <3>2. 2 \in DOMAIN s /\ \A i \in DOMAIN s : s[i] = "refreshToken" => i = 2
      BY <3>1
    <3>3. \E i \in DOMAIN s : s[i] = "refreshToken"
      BY <3>1, <3>2
    <3>4. QED
      BY <3>2, <3>3
  <2>3. QED
    BY <2>1, <2>2
<1>2. \A i \in DOMAIN LeaseKeys : LeaseKeys[i] # "refreshToken"
  BY DEF LeaseKeys
<1>3. QED
  BY <1>1, <1>2

LEMMA QuietSteps ==
    ASSUME TypeOK, TokenInv, NEW p \in Proc,
           Identity(p) \/ ValidatedAt(p) \/ LoginFails(p) \/ LogoutRead(p) \/ DeleteLast(p)
    PROVE  TokenInv'
<1>1. ~Rotating(p)
  BY DEF Identity, ValidatedAt, LoginFails, LogoutRead, DeleteLast, Rotating
<1>2. \E l \in {"refreshToken", "idle", "delete"} : \E c \in {ctx'[p]} : Goto(p, l, c)
  <2>1. \E l \in {"refreshToken", "idle", "delete"} : \E c : Goto(p, l, c)
    BY DEF Identity, ValidatedAt, LoginFails, LogoutRead, DeleteLast, Exit
  <2>2. QED
    BY <2>1 DEF TypeOK, Goto
<1>3. UNCHANGED <<session, replayed, spoiled, epoch, inFlight>>
  BY DEF Identity, ValidatedAt, LoginFails, LogoutRead, DeleteLast, client, server, ghosts
<1>4. \A a \in Answer : current'[a] \in {current[a], 0}
  BY DEF Identity, ValidatedAt, LoginFails, LogoutRead, DeleteLast, server, TypeOK
<1>5. secrets'["refreshToken"] \in {secrets["refreshToken"], 0}
  BY DEF Identity, ValidatedAt, LoginFails, LogoutRead, DeleteLast, client, Write, TypeOK, Key
<1>6. QED
  BY <1>1, <1>2, <1>3, <1>4, <1>5, QuietTokens

\* The stored token is sent: no rotation is in flight, so none replaces it.
LEMMA SendTokens ==
    ASSUME TypeOK, FlightInv, Fresh, TokenInv, NEW p \in Proc, RefreshTokenRead(p)
    PROVE  TokenInv'
<1> DEFINE t == secrets["refreshToken"]
           begun == [ctx[p] EXCEPT !.token = t, !.born = epoch]
<1>1. /\ pc[p] = "refreshToken" /\ ~Rotating(p) /\ ~Holds(p)
      /\ UNCHANGED <<secrets, epoch, session, current, replayed>>
  BY DEF RefreshTokenRead, Rotating, Holds, Unstored, server
<1>2. CASE /\ \E l \in {"idle", "joined"} : \E c : Goto(p, l, c)
           /\ UNCHANGED <<inFlight, spoiled>>
  <2>1. \A a \in Answer : current'[a] \in {current[a], 0}
    BY <1>1
  <2>2. QED
    BY <1>1, <1>2, <2>1, QuietTokens
<1>3. CASE /\ t # 0 /\ inFlight = NoProc /\ inFlight' = p /\ Goto(p, "sent", begun)
           /\ spoiled' = IF ctx[p].epoch = epoch THEN spoiled ELSE spoiled \cup {t}
  <2>1. /\ pc'[p] = "sent" /\ ctx'[p].token = t /\ ctx'[p].born = epoch
        /\ ctx'[p].epoch = ctx[p].epoch /\ ~ctx'[p].lost /\ ctx'[p].got = 0
    BY <1>1, <1>3, HandlerTyped DEF TypeOK, Goto, Fresh, Context
  <2>2. \A q \in Proc \ {p} : pc'[q] = pc[q] /\ ctx'[q] = ctx[q]
    BY <1>3 DEF TypeOK, Goto
  <2>3. session[t] # 0 /\ Accepted(t)
    BY <1>3, AuthProcAssumption DEF TokenInv, StoredInv, Replaces
  <2>4. \A x : Accepted(x) => Accepted(x)'
    BY <1>1, <1>3 DEF Accepted
  <2>5. ~Holds(p)' /\ \A q \in Proc \ {p} : Holds(q)' <=> Holds(q)
    BY <2>1, <2>2 DEF Holds, Unstored
  <2>6. HandlerInv(p)'
    BY <1>1, <1>3, <2>1, <2>3, <2>4, <2>5 DEF HandlerInv, Rotating, Timely, StoresOnce, Accepted
  <2>7. ASSUME NEW q \in Proc \ {p}
        PROVE  HandlerInv(q)'
    <3>1. HandlerInv(q)
      BY DEF TokenInv
    <3>2. (Rotating(q)' <=> Rotating(q)) /\ (Timely(q)' <=> Timely(q))
      BY <1>1, <2>2 DEF Rotating, Timely
    <3>3. Accepted(ctx[q].token) => Accepted(ctx[q].token)'
      BY <2>2, <2>4 DEF Accepted
    <3>4. Accepted(ctx[q].got) => Accepted(ctx[q].got)'
      BY <2>2, <2>4 DEF Accepted
    <3>5. spoiled \subseteq spoiled'
      BY <1>3
    <3>6. QED
      BY <1>1, <2>2, <2>5, <3>1, <3>2, <3>3, <3>4, <3>5 DEF HandlerInv, Accepted, StoresOnce
  <2>8. \A q \in Proc : InOneHand(q)'
    BY <1>1, <2>1, <2>2, <2>5 DEF TokenInv, InOneHand
  <2>9. StoredInv'
    BY <1>1, <2>3, <2>4 DEF StoredInv, Accepted
  <2>10. SessionsOpen' /\ NoReplay'
    BY <1>1, <1>3 DEF TokenInv, SessionsOpen, NoReplay
  <2>11. QED
    BY <2>6, <2>7, <2>8, <2>9, <2>10 DEF TokenInv
<1>4. QED
  BY <1>2, <1>3 DEF RefreshTokenRead, Rotate, Exit

\* The server accepts the token: its successor is in the hand of p alone.
LEMMA RotationTokens ==
    ASSUME TypeOK, FlightInv, TokenInv, NEW p \in Proc, NEW t, NEW s,
           t = ctx[p].token, s = session[t],
           pc[p] = "sent", current[s] = t, NEW a \in Answer \ Issued,
           session' = [session EXCEPT ![a] = s],
           current' = [current EXCEPT ![s] = a],
           Goto(p, "answered", [ctx[p] EXCEPT !.got = a]),
           UNCHANGED <<secrets, epoch, inFlight, spoiled, replayed>>
    PROVE  TokenInv'
<1>1. /\ Rotating(p) /\ ~Holds(p) /\ ~ctx[p].lost /\ t \in Answer /\ session[t] # 0
      /\ Timely(p) \/ t \in spoiled
  BY HandlerTyped DEF Rotating, Holds, Unstored, TokenInv, HandlerInv, Placed
<1>2. a # 0 /\ session[a] = 0
  BY DEF Issued, Answer
<1>3. s \in Answer /\ s # 0 /\ session[s] # 0 /\ s # a
  BY <1>1, <1>2 DEF TypeOK, TokenInv, SessionsOpen
<1>4. /\ \A x \in Answer : session'[x] = IF x = a THEN s ELSE session[x]
      /\ \A x \in Answer : current'[x] = IF x = s THEN a ELSE current[x]
  BY <1>3 DEF TypeOK
<1>5. /\ pc'[p] = "answered" /\ ctx'[p].got = a /\ ctx'[p].token = t
      /\ ctx'[p].born = ctx[p].born /\ ctx'[p].epoch = ctx[p].epoch
      /\ ctx'[p].lost = ctx[p].lost
  BY <1>1, HandlerTyped DEF TypeOK, Goto, Context
<1>6. \A q \in Proc \ {p} : pc'[q] = pc[q] /\ ctx'[q] = ctx[q]
  BY DEF TypeOK, Goto
<1>7. ASSUME NEW x \in Answer, session[x] # 0, Accepted(x), x # t \/ x \in spoiled
      PROVE  Accepted(x)'
  <2>1. session'[x] = session[x] /\ session[x] \in Answer
    BY <1>2, <1>4, <1>7 DEF TypeOK
  <2>2. CASE session[x] = s
    BY <1>7, <2>1, <2>2, <1>1 DEF Accepted, Answer
  <2>3. CASE session[x] # s
    BY <1>4, <1>7, <2>1, <2>3 DEF Accepted
  <2>4. QED
    BY <2>2, <2>3
<1>8. Accepted(a)'
  BY <1>3, <1>4 DEF Accepted
<1>9. Rotating(p)' /\ Holds(p)'
  BY <1>2, <1>5 DEF Rotating, Holds, Unstored
<1>10. ASSUME NEW q \in Proc \ {p}
       PROVE  /\ Rotating(q)' <=> Rotating(q)
              /\ Holds(q)' <=> Holds(q)
              /\ Timely(q)' <=> Timely(q)
  BY <1>6 DEF Rotating, Holds, Timely
<1>11. HandlerInv(p)'
  <2>1. session'[t] # 0 /\ session'[a] # 0
    BY <1>1, <1>3, <1>4
  <2>2. Timely(p) => Timely(p)'
    BY <1>5 DEF Timely
  <2>3. QED
    BY <1>1, <1>5, <1>8, <2>1, <2>2 DEF HandlerInv, StoresOnce, Accepted
<1>12. ASSUME NEW q \in Proc \ {p}
       PROVE  HandlerInv(q)'
  <2>1. HandlerInv(q)
    BY DEF TokenInv
  <2>2. ASSUME pc[q] = "sent"
        PROVE  Accepted(ctx[q].token)'
    <3>1. Rotating(q) /\ ctx[q].token \in Answer
      BY <2>2, HandlerTyped DEF Rotating, Placed
    <3>2. ctx[q].token = t => t \in spoiled
      <4>1. ctx[q].born # ctx[p].born
        BY <1>1, <3>1 DEF FlightInv, SingleFlight
      <4>2. Timely(q) \/ ctx[q].token \in spoiled
        BY <2>1, <3>1 DEF HandlerInv
      <4>3. QED
        BY <1>1, <4>1, <4>2 DEF Timely
    <3>3. Accepted(ctx[q].token) /\ session[ctx[q].token] # 0
      BY <2>1, <2>2, <3>1 DEF HandlerInv
    <3>4. ctx'[q].token = ctx[q].token
      BY <1>6
    <3>5. QED
      BY <1>7, <3>1, <3>2, <3>3, <3>4 DEF Accepted
  <2>3. ASSUME Holds(q)
        PROVE  session'[ctx[q].got] # 0 /\ Accepted(ctx[q].got)'
    <3>1. ctx[q].got \in Answer /\ ctx[q].got # t
      BY <1>1, <2>3, HandlerTyped DEF Holds, Unstored, TokenInv, InOneHand
    <3>2. Accepted(ctx[q].got) /\ session[ctx[q].got] # 0
      BY <2>1, <2>3 DEF HandlerInv
    <3>3. ctx'[q].got = ctx[q].got
      BY <1>6
    <3>4. session'[ctx[q].got] # 0
      BY <1>3, <1>4, <3>1, <3>2
    <3>5. QED
      BY <1>7, <3>1, <3>2, <3>3, <3>4 DEF Accepted
  <2>4. Rotating(q) => session'[ctx[q].token] # 0
    BY <1>3, <1>4, <2>1, HandlerTyped DEF HandlerInv, Rotating, Placed, TypeOK
  <2>5. QED
    BY <1>6, <1>10, <2>1, <2>2, <2>3, <2>4 DEF HandlerInv, StoresOnce, Accepted
<1>13. ASSUME NEW q \in Proc
       PROVE  InOneHand(q)'
  <2>1. secrets["refreshToken"] # a
    BY <1>2 DEF TokenInv, StoredInv
  <2>2. \A r \in Proc : pc[r] = "sent" => ctx[r].token # a
    BY <1>2 DEF TokenInv, HandlerInv, Rotating
  <2>3. \A r \in Proc : Holds(r) => ctx[r].got # a
    BY <1>2 DEF TokenInv, HandlerInv
  <2>4. CASE q = p
    BY <1>5, <1>6, <1>10, <2>1, <2>2, <2>3, <2>4 DEF InOneHand
  <2>5. CASE q # p
    <3>1. InOneHand(q)
      BY DEF TokenInv
    <3>2. QED
      BY <1>5, <1>6, <1>10, <2>3, <2>5, <3>1 DEF InOneHand
  <2>6. QED
    BY <2>4, <2>5
<1>14. StoredInv'
  <2> DEFINE u == secrets["refreshToken"]
  <2> SUFFICES ASSUME u # 0
               PROVE  session'[u] # 0 /\ (Accepted(u)' \/ \E q \in Proc : Replaces(q, u)')
    BY DEF StoredInv, Accepted, Replaces
  <2>1. u \in Answer /\ session[u] # 0 /\ (Accepted(u) \/ \E q \in Proc : Replaces(q, u))
    BY DEF TypeOK, Key, TokenInv, StoredInv
  <2>2. session'[u] # 0
    BY <1>3, <1>4, <2>1
  <2>3. CASE Accepted(u) /\ (u # t \/ u \in spoiled)
    BY <1>7, <2>1, <2>2, <2>3 DEF Accepted
  <2>4. CASE u = t /\ u \notin spoiled
    <3>1. inFlight = p
      BY <1>1, <2>4 DEF Timely, FlightInv
    <3>2. Replaces(p, u)'
      BY <1>1, <1>5, <1>9, <2>4, <3>1 DEF Replaces
    <3>3. QED
      BY <2>2, <3>2
  <2>5. ASSUME NEW q \in Proc, Replaces(q, u)
        PROVE  Replaces(q, u)'
    <3>1. q # p
      BY <1>1, <2>5 DEF Replaces
    <3>2. QED
      BY <1>6, <1>10, <2>5, <3>1 DEF Replaces
  <2>6. QED
    BY <2>1, <2>2, <2>3, <2>4, <2>5
<1>15. SessionsOpen'
  <2>1. ASSUME NEW x \in Answer, session'[x] # 0
        PROVE  session'[session'[x]] # 0
    BY <1>2, <1>3, <1>4, <2>1 DEF TokenInv, SessionsOpen, TypeOK
  <2>2. QED
    BY <2>1 DEF SessionsOpen
<1>16. NoReplay'
  BY DEF TokenInv, NoReplay
<1>17. QED
  BY <1>11, <1>12, <1>13, <1>14, <1>15, <1>16 DEF TokenInv

\* What happens to a request or an answer under way.
LEMMA ServerTokens ==
    ASSUME TypeOK, FlightInv, Fresh, TokenInv, NEW p \in Proc,
           ServerRotates(p) \/ ServerErrs(p) \/ Lose(p)
    PROVE  TokenInv'
<1> DEFINE t == ctx[p].token
           s == session[t]
<1>1. CASE ServerRotates(p) /\ current[s] = t
  <2>1. PICK a \in Answer \ Issued :
           /\ session' = [session EXCEPT ![a] = s]
           /\ current' = [current EXCEPT ![s] = a]
           /\ Goto(p, "answered", [ctx[p] EXCEPT !.got = a])
    BY <1>1 DEF ServerRotates
  <2>2. pc[p] = "sent" /\ UNCHANGED <<secrets, epoch, inFlight, spoiled, replayed>>
    BY <1>1 DEF ServerRotates, client
  <2>3. QED
    BY <1>1, <2>1, <2>2, RotationTokens
<1>2. CASE \/ ServerRotates(p) /\ current[s] # t
           \/ ServerErrs(p)
  <2> DEFINE c == [ctx[p] EXCEPT !.got = 0]
  <2>1. /\ pc[p] = "sent" /\ Rotating(p) /\ ~Holds(p)
        /\ Goto(p, "answered", c)
        /\ UNCHANGED <<session, spoiled, secrets, epoch, inFlight>>
        /\ \A a \in Answer : current'[a] \in {current[a], 0}
    BY <1>2 DEF ServerRotates, ServerErrs, server, client, ghosts, Rotating, Holds, Unstored, TypeOK
  <2>2. /\ c.token = ctx[p].token /\ c.born = ctx[p].born /\ c.epoch = ctx[p].epoch
        /\ c.got = 0
    BY HandlerTyped DEF Context
  <2>3. Accepted(t)
    BY <2>1 DEF TokenInv, HandlerInv
  <2>4. replayed' \subseteq spoiled'
    BY <1>2, <2>1, <2>3 DEF ServerRotates, ServerErrs, ghosts, TokenInv, NoReplay, Accepted
  <2>5. ~Unstored("answered", c) /\ StoresOnce("answered", c)
    BY <2>2 DEF Unstored, StoresOnce
  <2>6. ~Replaces(p, secrets["refreshToken"])
    BY <2>1 DEF Replaces
  <2>7. QED
    BY <2>1, <2>2, <2>4, <2>5, <2>6, GotoTokens
<1>3. CASE Lose(p)
  <2> DEFINE c == [ctx[p] EXCEPT !.lost = TRUE]
  <2>1. /\ pc[p] \in {"sent", "answered"} /\ Rotating(p)
        /\ Goto(p, "answered", c)
        /\ UNCHANGED <<session, current, secrets, epoch, inFlight, replayed>>
        /\ spoiled' = IF ctx[p].got # 0 THEN spoiled \cup {ctx[p].token} ELSE spoiled
    BY <1>3 DEF Lose, server, client, Rotating
  <2>2. /\ c.token = ctx[p].token /\ c.born = ctx[p].born /\ c.epoch = ctx[p].epoch
        /\ c.got = ctx[p].got
    BY HandlerTyped DEF Context
  <2>3. Unstored("answered", c) => Holds(p) /\ c.got = ctx[p].got
    BY <2>1, <2>2 DEF Unstored, Holds, Fresh
  <2>4. Replaces(p, secrets["refreshToken"]) => ctx[p].token \in spoiled'
    BY <2>1 DEF Replaces, Holds, Unstored
  <2>5. /\ spoiled \subseteq spoiled' /\ replayed' \subseteq spoiled'
        /\ \A a \in Answer : current'[a] \in {current[a], 0}
    BY <2>1 DEF TokenInv, NoReplay
  <2>6. StoresOnce("answered", c)
    BY DEF StoresOnce
  <2>7. QED
    BY <2>1, <2>2, <2>3, <2>4, <2>5, <2>6, GotoTokens
<1>4. QED
  BY <1>1, <1>2, <1>3

LEMMA AnsweredTokens ==
    ASSUME TypeOK, TokenInv, NEW p \in Proc, Answered(p)
    PROVE  TokenInv'
<1> DEFINE ok == ~ctx[p].lost /\ ctx[p].got # 0
           c == [ctx[p] EXCEPT !.todo = StoredKeys(ctx[p].op)]
<1>1. /\ pc[p] = "answered" /\ Rotating(p)
      /\ UNCHANGED <<secrets, epoch, session, current, spoiled, replayed>>
  BY DEF Answered, Rotating, server, ghosts
<1>2. CASE ok /\ ctx[p].epoch = epoch
  <2>1. Goto(p, "store", c) /\ inFlight' = inFlight
    BY <1>2 DEF Answered
  <2>2. /\ c.token = ctx[p].token /\ c.born = ctx[p].born /\ c.epoch = ctx[p].epoch
        /\ c.got = ctx[p].got /\ c.lost = ctx[p].lost /\ c.op = ctx[p].op
        /\ c.todo = StoredKeys(ctx[p].op)
    BY HandlerTyped DEF Context
  <2>3. Holds(p)
    BY <1>1, <1>2 DEF Holds, Unstored
  <2>4. StoresOnce("store", c) /\ Unstored("store", c)
    BY <1>2, <2>2, StoredOnce, HandlerTyped DEF StoresOnce, Unstored
  <2>5. replayed' \subseteq spoiled' /\ \A a \in Answer : current'[a] \in {current[a], 0}
    BY <1>1 DEF TokenInv, NoReplay
  <2>6. QED
    BY <1>1, <2>1, <2>2, <2>3, <2>4, <2>5, GotoTokens
<1>3. CASE ~(ok /\ ctx[p].epoch = epoch)
  <2>1. Settle(p, ~ctx[p].lost /\ ctx[p].got = 0, FALSE)
    BY <1>3 DEF Answered
  <2>2. Replaces(p, secrets["refreshToken"]) => ctx[p].token \in spoiled
    <3> SUFFICES ASSUME Replaces(p, secrets["refreshToken"])
                 PROVE  ctx[p].token \in spoiled
      OBVIOUS
    <3>1. ok
      BY DEF Replaces, Holds, Unstored
    <3>2. ~Timely(p)
      BY <1>3, <3>1 DEF Timely
    <3>3. QED
      BY <1>1, <3>2 DEF TokenInv, HandlerInv
  <2>3. QED
    BY <1>1, <2>1, <2>2, SettleTokens DEF server
<1>4. QED
  BY <1>2, <1>3

LEMMA LoginTokens ==
    ASSUME TypeOK, TokenInv, NEW p \in Proc, LoginAnswered(p)
    PROVE  TokenInv'
<1> DEFINE c(a) == [ctx[p] EXCEPT !.got = a, !.todo = StoredKeys("login")]
<1>1. PICK a \in Answer \ Issued :
         /\ session' = [session EXCEPT ![a] = a]
         /\ current' = [current EXCEPT ![a] = a]
         /\ Goto(p, "store", c(a))
  BY DEF LoginAnswered
<1>2. pc[p] = "login" /\ UNCHANGED <<secrets, epoch, inFlight, spoiled, replayed>>
  BY DEF LoginAnswered, ghosts
<1>3. a # 0 /\ session[a] = 0
  BY DEF Issued, Answer
<1>4. /\ \A x \in Answer : session'[x] = IF x = a THEN a ELSE session[x]
      /\ \A x \in Answer : current'[x] = IF x = a THEN a ELSE current[x]
  BY <1>1 DEF TypeOK
<1>5. /\ pc'[p] = "store" /\ ctx'[p].got = a /\ ctx'[p].op = "login"
      /\ ctx'[p].todo = StoredKeys("login")
  BY <1>1, <1>2, HandlerTyped DEF TypeOK, Goto, Context, Placed
<1>6. \A q \in Proc \ {p} : pc'[q] = pc[q] /\ ctx'[q] = ctx[q]
  BY <1>1 DEF TypeOK, Goto
<1>7. ASSUME NEW x \in Answer, session[x] # 0, Accepted(x)
      PROVE  session'[x] # 0 /\ Accepted(x)'
  <2>1. session[x] \in Answer /\ session[x] # a /\ x # a
    BY <1>3, <1>7 DEF TypeOK, TokenInv, SessionsOpen
  <2>2. QED
    BY <1>2, <1>4, <1>7, <2>1 DEF Accepted
<1>8. session'[a] # 0 /\ Accepted(a)'
  BY <1>3, <1>4 DEF Accepted
<1>9. ~Rotating(p)' /\ Holds(p)' /\ StoresOnce(pc'[p], ctx'[p])
  <2>1. "login" \in Op
    BY DEF Op
  <2>2. Unstored("store", ctx'[p]) /\ StoresOnce("store", ctx'[p])
    BY <1>3, <1>5, <2>1, StoredOnce DEF Unstored, StoresOnce
  <2>3. QED
    BY <1>5, <2>2 DEF Rotating, Holds
<1>10. ASSUME NEW q \in Proc \ {p}
       PROVE  /\ Rotating(q)' <=> Rotating(q)
              /\ Holds(q)' <=> Holds(q)
              /\ Timely(q)' <=> Timely(q)
              /\ StoresOnce(pc[q], ctx[q])'
  BY <1>2, <1>6 DEF Rotating, Holds, Timely, TokenInv, HandlerInv, StoresOnce
<1>11. HandlerInv(p)'
  BY <1>5, <1>8, <1>9 DEF HandlerInv, Accepted, StoresOnce
<1>12. ASSUME NEW q \in Proc \ {p}
       PROVE  HandlerInv(q)'
  <2>1. HandlerInv(q)
    BY DEF TokenInv
  <2>2. ASSUME pc[q] = "sent"
        PROVE  Accepted(ctx[q].token)'
    <3>1. ctx[q].token \in Answer /\ session[ctx[q].token] # 0 /\ Accepted(ctx[q].token)
      BY <2>1, <2>2, HandlerTyped DEF HandlerInv, Rotating, Placed
    <3>2. QED
      BY <1>6, <1>7, <3>1 DEF Accepted
  <2>3. ASSUME Holds(q)
        PROVE  session'[ctx[q].got] # 0 /\ Accepted(ctx[q].got)'
    <3>1. ctx[q].got \in Answer /\ session[ctx[q].got] # 0 /\ Accepted(ctx[q].got)
      BY <2>1, <2>3, HandlerTyped DEF HandlerInv, Holds, Unstored
    <3>2. QED
      BY <1>6, <1>7, <3>1 DEF Accepted
  <2>4. Rotating(q) => session'[ctx[q].token] # 0
    BY <1>3, <1>4, <2>1, HandlerTyped DEF HandlerInv, Rotating, Placed, TypeOK
  <2>5. QED
    BY <1>2, <1>6, <1>10, <2>1, <2>2, <2>3, <2>4 DEF HandlerInv, Accepted
<1>13. ASSUME NEW q \in Proc
       PROVE  InOneHand(q)'
  <2>1. secrets["refreshToken"] # a
    BY <1>3 DEF TokenInv, StoredInv
  <2>2. \A r \in Proc : pc[r] = "sent" => ctx[r].token # a
    BY <1>3 DEF TokenInv, HandlerInv, Rotating
  <2>3. \A r \in Proc : Holds(r) => ctx[r].got # a
    BY <1>3 DEF TokenInv, HandlerInv
  <2>4. CASE q = p
    BY <1>2, <1>5, <1>6, <1>10, <2>1, <2>2, <2>3, <2>4 DEF InOneHand
  <2>5. CASE q # p
    <3>1. InOneHand(q)
      BY DEF TokenInv
    <3>2. QED
      BY <1>2, <1>5, <1>6, <1>10, <2>3, <2>5, <3>1 DEF InOneHand
  <2>6. QED
    BY <2>4, <2>5
<1>14. StoredInv'
  <2> DEFINE u == secrets["refreshToken"]
  <2> SUFFICES ASSUME u # 0
               PROVE  session'[u] # 0 /\ (Accepted(u)' \/ \E q \in Proc : Replaces(q, u)')
    BY <1>2 DEF StoredInv, Accepted, Replaces
  <2>1. u \in Answer /\ session[u] # 0 /\ (Accepted(u) \/ \E q \in Proc : Replaces(q, u))
    BY DEF TypeOK, Key, TokenInv, StoredInv
  <2>2. session'[u] # 0
    BY <1>3, <1>4, <2>1
  <2>3. CASE Accepted(u)
    BY <1>2, <1>7, <2>1, <2>2, <2>3 DEF Accepted
  <2>4. ASSUME NEW q \in Proc, Replaces(q, u)
        PROVE  Replaces(q, u)'
    <3>1. q # p
      BY <1>2, <2>4, HandlerTyped DEF Replaces, Rotating
    <3>2. QED
      BY <1>2, <1>6, <1>10, <2>4, <3>1 DEF Replaces
  <2>5. QED
    BY <2>1, <2>2, <2>3, <2>4
<1>15. SessionsOpen'
  <2>1. ASSUME NEW x \in Answer, session'[x] # 0
        PROVE  session'[session'[x]] # 0
    BY <1>3, <1>4, <2>1 DEF TokenInv, SessionsOpen, TypeOK
  <2>2. QED
    BY <2>1 DEF SessionsOpen
<1>16. NoReplay'
  BY <1>2 DEF TokenInv, NoReplay
<1>17. QED
  BY <1>11, <1>12, <1>13, <1>14, <1>15, <1>16 DEF TokenInv

\* The answer in hand becomes the stored token.
LEMMA StoreTokens ==
    ASSUME TypeOK, TokenInv, NEW p \in Proc, Holds(p), NEW l, NEW c, Goto(p, l, c),
           l \in {"store", "sync"}, ~Unstored(l, c), StoresOnce(l, c),
           c.op = ctx[p].op, c.token = ctx[p].token, c.born = ctx[p].born,
           c.epoch = ctx[p].epoch, pc[p] = "store",
           secrets'["refreshToken"] = ctx[p].got,
           UNCHANGED <<session, current, spoiled, replayed, epoch, inFlight>>
    PROVE  TokenInv'
<1> DEFINE g == ctx[p].got
<1>1. pc'[p] = l /\ ctx'[p] = c
  BY DEF TypeOK, Goto
<1>2. \A q \in Proc \ {p} : pc'[q] = pc[q] /\ ctx'[q] = ctx[q]
  BY DEF TypeOK, Goto
<1>3. ~Holds(p)' /\ (Rotating(p)' <=> Rotating(p)) /\ (Timely(p)' <=> Timely(p))
  BY <1>1 DEF Holds, Rotating, Timely
<1>4. ASSUME NEW q \in Proc \ {p}
      PROVE  /\ Rotating(q)' <=> Rotating(q)
             /\ Holds(q)' <=> Holds(q)
             /\ Timely(q)' <=> Timely(q)
  BY <1>2 DEF Rotating, Holds, Timely
<1>5. \A x : Accepted(x) => Accepted(x)'
  BY DEF Accepted
<1>6. HandlerInv(p)'
  <2>1. HandlerInv(p)
    BY DEF TokenInv
  <2>2. QED
    BY <1>1, <1>3, <2>1 DEF HandlerInv, StoresOnce
<1>7. ASSUME NEW q \in Proc \ {p}
      PROVE  HandlerInv(q)'
  <2>1. HandlerInv(q)
    BY DEF TokenInv
  <2>2. QED
    BY <1>2, <1>4, <2>1 DEF HandlerInv, StoresOnce, Accepted
<1>8. ASSUME NEW q \in Proc
      PROVE  InOneHand(q)'
  <2>1. CASE q = p
    BY <1>3, <2>1 DEF InOneHand
  <2>2. CASE q # p
    <3>1. InOneHand(q) /\ InOneHand(p)
      BY DEF TokenInv
    <3>2. QED
      BY <1>1, <1>2, <1>3, <1>4, <2>2, <3>1 DEF InOneHand
  <2>3. QED
    BY <2>1, <2>2
<1>9. StoredInv'
  BY <1>5 DEF StoredInv, TokenInv, HandlerInv, Accepted
<1>10. SessionsOpen' /\ NoReplay'
  BY DEF TokenInv, SessionsOpen, NoReplay
<1>11. QED
  BY <1>6, <1>7, <1>8, <1>9, <1>10 DEF TokenInv

LEMMA StoringTokens ==
    ASSUME TypeOK, TokenInv, NEW p \in Proc, pc[p] = "store",
           WriteNext(p) \/ StoreLast(p)
    PROVE  TokenInv'
<1> DEFINE todo == ctx[p].todo
           c == [ctx[p] EXCEPT !.todo = Tail(todo)]
           l == IF Len(todo) > 1 THEN "store" ELSE "sync"
<1>1. /\ todo \in Seq(Key) /\ todo # <<>>
      /\ ctx[p].got # 0 /\ StoresOnce("store", ctx[p])
  BY HandlerTyped DEF Placed, TokenInv, HandlerInv
<1>2. /\ Tail(todo) \in Seq(Key) /\ Len(todo) >= 1 /\ Len(Tail(todo)) = Len(todo) - 1
      /\ \A i \in 1 .. (Len(todo) - 1) : Tail(todo)[i] = todo[i + 1]
      /\ DOMAIN todo = 1 .. Len(todo) /\ DOMAIN Tail(todo) = 1 .. (Len(todo) - 1)
      /\ Head(todo) = todo[1]
  BY <1>1, EmptySeq, LenProperties, HeadTailProperties
<1>3. Len(todo) = 1 => Tail(todo) = <<>>
  BY <1>2, EmptySeq
<1>4. Goto(p, l, c)
  BY <1>2, <1>3 DEF WriteNext, StoreLast
<1>5. /\ c.token = ctx[p].token /\ c.born = ctx[p].born /\ c.epoch = ctx[p].epoch
      /\ c.got = ctx[p].got /\ c.lost = ctx[p].lost /\ c.op = ctx[p].op
      /\ c.todo = Tail(todo)
  BY HandlerTyped DEF Context
<1>6. /\ UNCHANGED <<session, current, spoiled, replayed, epoch, inFlight>>
      /\ secrets' = [secrets EXCEPT ![Head(todo)] = ctx[p].got]
  BY DEF WriteNext, StoreLast, Write, server, ghosts
<1>7. StoresOnce(l, c)
  <2>1. ASSUME NEW i \in DOMAIN Tail(todo), NEW j \in DOMAIN Tail(todo),
               Tail(todo)[i] = "refreshToken", Tail(todo)[j] = "refreshToken"
        PROVE  i = j
    <3>1. /\ i + 1 \in DOMAIN todo /\ todo[i + 1] = "refreshToken"
          /\ j + 1 \in DOMAIN todo /\ todo[j + 1] = "refreshToken"
      BY <1>2, <2>1
    <3>2. i + 1 = j + 1
      BY <1>1, <3>1 DEF StoresOnce
    <3>3. QED
      BY <1>2, <3>2
  <2>2. QED
    BY <1>5, <2>1 DEF StoresOnce
<1>8. CASE Head(todo) = "refreshToken"
  <2>1. Holds(p)
    BY <1>1, <1>2, <1>8 DEF Holds, Unstored
  <2>2. ~Unstored(l, c)
    BY <1>1, <1>2, <1>5, <1>8 DEF StoresOnce, Unstored
  <2>3. secrets'["refreshToken"] = ctx[p].got
    BY <1>6, <1>8 DEF TypeOK, Key
  <2>4. QED
    BY <1>4, <1>5, <1>6, <1>7, <2>1, <2>2, <2>3, StoreTokens
<1>9. CASE Head(todo) # "refreshToken"
  <2>1. secrets'["refreshToken"] = secrets["refreshToken"]
    BY <1>6, <1>9 DEF TypeOK, Key
  <2>2. Unstored(l, c) <=> Holds(p)
    <3> DEFINE Left(s) == \E i \in DOMAIN s : s[i] = "refreshToken"
    <3>1. ASSUME NEW i \in DOMAIN todo, todo[i] = "refreshToken"
          PROVE  i - 1 \in DOMAIN Tail(todo) /\ Tail(todo)[i - 1] = "refreshToken"
      BY <1>2, <1>9, <3>1
    <3>2. ASSUME NEW i \in DOMAIN Tail(todo), Tail(todo)[i] = "refreshToken"
          PROVE  i + 1 \in DOMAIN todo /\ todo[i + 1] = "refreshToken"
      BY <1>2, <3>2
    <3>3. Left(todo) <=> Left(Tail(todo))
      BY <3>1, <3>2
    <3>4. Left(Tail(todo)) => l = "store"
      BY <1>2
    <3>5. Holds(p) <=> Left(todo)
      BY <1>1 DEF Holds, Unstored
    <3>6. Unstored(l, c) <=> l = "store" /\ Left(Tail(todo))
      BY <1>1, <1>5 DEF Unstored
    <3>7. QED
      BY <3>3, <3>4, <3>5, <3>6
  <2>3. c.op # "login" => Rotating(p)
    BY <1>5 DEF Rotating
  <2>4. Replaces(p, secrets["refreshToken"]) => Holds(p)
    BY DEF Replaces
  <2>5. replayed' \subseteq spoiled' /\ \A a \in Answer : current'[a] \in {current[a], 0}
    BY <1>6 DEF TokenInv, NoReplay
  <2>6. QED
    BY <1>4, <1>5, <1>6, <1>7, <2>1, <2>2, <2>3, <2>4, <2>5, GotoTokens
<1>10. QED
  BY <1>8, <1>9

\* The end of a login, or of a rotation whose token is stored.
LEMMA FinishTokens ==
    ASSUME TypeOK, TokenInv, NEW p \in Proc, pc[p] \in {"sync", "leases"}, Finish(p),
           UNCHANGED <<server, spoiled, replayed, epoch>>,
           secrets'["refreshToken"] = secrets["refreshToken"]
    PROVE  TokenInv'
<1>1. ~Replaces(p, secrets["refreshToken"])
  BY DEF Replaces, Holds, Unstored
<1>2. CASE ctx[p].op = "login"
  <2>1. ~Rotating(p) /\ Goto(p, "idle", NoContext) /\ inFlight' = inFlight
    BY <1>2 DEF Finish, Exit, Rotating
  <2>2. UNCHANGED <<session, replayed, spoiled, epoch, inFlight>>
    BY <2>1 DEF server
  <2>3. \A a \in Answer : current'[a] \in {current[a], 0}
    BY DEF server
  <2>4. QED
    BY <2>1, <2>2, <2>3, QuietTokens
<1>3. CASE ctx[p].op # "login"
  BY <1>1, <1>3, SettleTokens DEF Finish
<1>4. QED
  BY <1>2, <1>3

LEMMA LeaseTokens ==
    ASSUME TypeOK, TokenInv, NEW p \in Proc,
           \/ SyncAnswered(p) \/ SyncFails(p) \/ LeaseLast(p)
           \/ pc[p] \in {"leases", "delete"} /\ WriteNext(p)
    PROVE  TokenInv'
<1> DEFINE todo == ctx[p].todo
           t == secrets["refreshToken"]
<1>1. CASE SyncAnswered(p)
  <2> DEFINE c(got) == [ctx[p] EXCEPT !.got = got, !.todo = LeaseKeys]
  <2>1. PICK got \in {0, ctx[p].got} : Goto(p, "leases", c(got))
    BY <1>1 DEF SyncAnswered
  <2>2. /\ c(got).token = ctx[p].token /\ c(got).born = ctx[p].born
        /\ c(got).epoch = ctx[p].epoch /\ c(got).op = ctx[p].op /\ c(got).todo = LeaseKeys
    BY HandlerTyped DEF Context
  <2>3. /\ pc[p] = "sync"
        /\ UNCHANGED <<secrets, epoch, inFlight, session, current, spoiled, replayed>>
    BY <1>1 DEF SyncAnswered, client, server, ghosts
  <2>4. ~Unstored("leases", c(got)) /\ StoresOnce("leases", c(got)) /\ ~Replaces(p, t)
    BY <2>2, <2>3, StoredOnce DEF Unstored, StoresOnce, Replaces, Holds
  <2>5. c(got).op # "login" => Rotating(p)
    BY <2>2, <2>3 DEF Rotating
  <2>6. replayed' \subseteq spoiled' /\ \A a \in Answer : current'[a] \in {current[a], 0}
    BY <2>3 DEF TokenInv, NoReplay
  <2>7. QED
    BY <2>1, <2>2, <2>3, <2>4, <2>5, <2>6, GotoTokens
<1>2. CASE SyncFails(p)
  BY <1>2, FinishTokens DEF SyncFails, ghosts
<1>3. ASSUME pc[p] = "leases"
      PROVE  /\ todo \in Seq(Key) /\ todo # <<>> /\ Head(todo) # "refreshToken"
             /\ \A i \in DOMAIN todo : todo[i] # "refreshToken"
  <2>1. todo \in Seq(Key) /\ todo # <<>> /\ StoresOnce("leases", ctx[p])
    BY <1>3, HandlerTyped DEF Placed, TokenInv, HandlerInv
  <2>2. 1 \in DOMAIN todo /\ Head(todo) = todo[1]
    BY <2>1, EmptySeq, LenProperties, HeadTailProperties
  <2>3. QED
    BY <2>1, <2>2 DEF StoresOnce
<1>4. CASE LeaseLast(p)
  <2>1. pc[p] = "leases" /\ secrets' = [secrets EXCEPT ![Head(todo)] = ctx[p].got]
    BY <1>4 DEF LeaseLast, Write
  <2>2. secrets'["refreshToken"] = t
    BY <1>3, <2>1 DEF TypeOK, Key
  <2>3. QED
    BY <1>4, <2>1, <2>2, FinishTokens DEF LeaseLast, ghosts
<1>5. CASE pc[p] = "leases" /\ WriteNext(p)
  <2> DEFINE c == [ctx[p] EXCEPT !.todo = Tail(todo)]
  <2>1. /\ Goto(p, "leases", c)
        /\ secrets' = [secrets EXCEPT ![Head(todo)] = ctx[p].got]
        /\ UNCHANGED <<epoch, inFlight, session, current, spoiled, replayed>>
    BY <1>5 DEF WriteNext, Write, server, ghosts
  <2>2. secrets'["refreshToken"] = t
    BY <1>3, <1>5, <2>1 DEF TypeOK, Key
  <2>3. /\ c.token = ctx[p].token /\ c.born = ctx[p].born
        /\ c.epoch = ctx[p].epoch /\ c.op = ctx[p].op /\ c.todo = Tail(todo)
    BY HandlerTyped DEF Context
  <2>4. \A i \in DOMAIN Tail(todo) : Tail(todo)[i] # "refreshToken"
    BY <1>3, <1>5, EmptySeq, LenProperties, HeadTailProperties
  <2>5. ~Unstored("leases", c) /\ StoresOnce("leases", c) /\ ~Replaces(p, t)
    BY <1>5, <2>3, <2>4 DEF Unstored, StoresOnce, Replaces, Holds
  <2>6. c.op # "login" => Rotating(p)
    BY <1>5, <2>3 DEF Rotating
  <2>7. replayed' \subseteq spoiled' /\ \A a \in Answer : current'[a] \in {current[a], 0}
    BY <2>1 DEF TokenInv, NoReplay
  <2>8. QED
    BY <2>1, <2>2, <2>3, <2>5, <2>6, <2>7, GotoTokens
<1>6. CASE pc[p] = "delete" /\ WriteNext(p)
  <2> DEFINE c == [ctx[p] EXCEPT !.todo = Tail(todo)]
  <2>1. /\ Goto(p, "delete", c) /\ ~Rotating(p)
        /\ secrets'["refreshToken"] \in {t, 0}
        /\ UNCHANGED <<epoch, inFlight, session, current, spoiled, replayed>>
    BY <1>6 DEF WriteNext, Write, server, ghosts, TypeOK, Key, Rotating
  <2>2. \A a \in Answer : current'[a] \in {current[a], 0}
    BY <2>1
  <2>3. QED
    BY <2>1, <2>2, QuietTokens
<1>7. QED
  BY <1>1, <1>2, <1>4, <1>5, <1>6

LEMMA NextTokens ==
    TypeOK /\ FlightInv /\ Fresh /\ TokenInv /\ [Next]_vars => TokenInv'
<1> SUFFICES ASSUME TypeOK, FlightInv, Fresh, TokenInv, [Next]_vars PROVE TokenInv'
  OBVIOUS
<1>1. ASSUME NEW p \in Proc, Step(p)
      PROVE  TokenInv'
  <2>1. CASE WriteNext(p) \/ StoreLast(p)
    <3>1. CASE pc[p] = "store"
      BY <2>1, <3>1, StoringTokens
    <3>2. CASE pc[p] # "store"
      BY <2>1, <3>2, LeaseTokens DEF WriteNext, StoreLast
    <3>3. QED
      BY <3>1, <3>2
  <2>2. QED
    BY <1>1, <2>1, QuietSteps, SendTokens, ServerTokens, AnsweredTokens, LoginTokens,
       LeaseTokens DEF Step
<1>2. CASE UNCHANGED vars
  <2>1. UNCHANGED <<secrets, epoch, inFlight, pc, ctx, session, current, spoiled, replayed>>
    BY <1>2 DEF vars, client, server, ghosts
  <2>2. QED
    BY <2>1 DEF TokenInv, HandlerInv, InOneHand, StoredInv, SessionsOpen, NoReplay, Rotating,
       Holds, Replaces, Timely, Accepted, StoresOnce, Unstored
<1>3. QED
  BY <1>1, <1>2, StartTokens DEF Next

(* The server never sees a consumed refresh token again, however many      *)
(* handlers refresh at once and whatever gets lost: it would take a lost   *)
(* answer, or a login or logout during a refresh.                          *)
THEOREM NoTokenReplayed == Spec => []NoReplay
<1>1. Init => TypeOK /\ FlightInv /\ Fresh /\ TokenInv
  BY InitTyped, InitFlight, InitTokens DEF Init, Fresh
<1>2. TypeOK /\ FlightInv /\ Fresh /\ TokenInv /\ [Next]_vars
         => TypeOK' /\ FlightInv' /\ Fresh' /\ TokenInv'
  BY NextTyped, NextFlight, NextFresh, NextTokens
<1>3. TokenInv => NoReplay
  BY DEF TokenInv
<1>4. QED
  BY <1>1, <1>2, <1>3, PTL DEF Spec
=============================================================================
