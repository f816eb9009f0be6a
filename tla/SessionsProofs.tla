---------------------------- MODULE SessionsProofs ----------------------------
(***************************************************************************)
(* Rotation, lineage and cut-off of refresh-token sessions, for any number *)
(* of sessions, requests and reset tokens: proofs about Sessions.          *)
(***************************************************************************)
EXTENDS Sessions, TLAPS

-----------------------------------------------------------------------------
(* The inductive invariant                                                  *)

\* TypeOK but for the history of the reset tokens, which has an invariant of its own.
StateOK ==
    /\ password \in Nat
    /\ session \in [Sid -> Session]
    /\ next \in 1 .. MaxSession + 1
    /\ store \in [Token -> {"new", "valid", "gone"}]
    /\ req \in [Req -> Request]

Issues(q) == q.op \in {"login", "refresh"}

\* What a request holds at each point of its transaction.
ReqOK(q) ==
    /\ q.pc = "idle" => q.op = "none" /\ q.sid = UserRow /\ q.locks = {}
    /\ q.op = "none" => q.pc = "idle"
    /\ q.pc \in {"revoke", "rows", "burn"} => q.op = "reset"
    /\ q.op = "reset" /\ q.pc \in {"burn", "respond", "commit"} => q.hits = {}
    /\ q.op \in {"refresh", "logout"} => q.sid \in Sid
    /\ IF Issues(q)
       THEN q.jti \in Sid /\ q.new.state = "live"
       ELSE q.jti = UserRow
    /\ q.op = "login" => q.new.parent = UserRow /\ q.new.root = q.jti
    /\ q.op = "refresh" =>
          /\ q.new.parent = q.sid
          /\ q.pc # "write" => q.sid \in q.locks

\* The rows a request loaded or wrote are in the table.
Loaded(q) ==
    /\ q.sid \in Sid => session[q.sid].state # "none"
    /\ \A s \in Sid : s \in q.locks => session[s].state # "none"

\* A jti is drawn once, and not in the table before its request commits.
FreshJti ==
    \A r \in Req : req[r].jti \in Sid =>
        /\ req[r].jti < next
        /\ session[req[r].jti].state = "none"
        /\ \A o \in Req \ {r} : req[o].jti # req[r].jti

\* The login a session goes back to is in the table.
RowsOK ==
    \A s \in Sid : session[s].state # "none" =>
        /\ s < next
        /\ session[s].root \in Sid
        /\ session[session[s].root].state # "none"

\* A refresh continues the line of the session it loaded, and any other live
\* session of that line is there because of an overlap.
RefreshOK(q) ==
    q.op = "refresh" =>
        /\ q.new.root = session[q.sid].root
        /\ \A u \in Sid : u # q.sid /\ Live(u) /\ session[u].root = q.new.root =>
              q.new.forked = TRUE /\ session[u].forked = TRUE

\* Two refreshes in one line overlap.
PairsForked ==
    \A r, o \in Req :
        /\ r # o /\ req[r].op = "refresh" /\ req[o].op = "refresh"
        /\ req[r].new.root = req[o].new.root
        => req[r].new.forked = TRUE

LiveForked ==
    \A s, u \in Sid :
        s # u /\ Live(s) /\ Live(u) /\ session[s].root = session[u].root =>
            session[s].forked = TRUE

\* Once revoke_all_for_user has its snapshot, a live session is on its way to be
\* revoked, or came in by an overlap.
CutOK(q) ==
    q.op = "reset" /\ q.pc \in {"rows", "burn", "respond", "commit"} =>
        \A s \in Sid : Live(s) /\ s \notin q.locks \cup q.hits => session[s].late = TRUE

\* What is issued while a reset is in flight is late.
OverlapLate ==
    \A r, o \in Req :
        req[r].op = "reset" /\ Issues(req[o]) => req[o].new.late = TRUE

\* What is not late belongs to the current password.
GenOK(q) == Issues(q) /\ q.new.late = FALSE => q.new.gen = password

LiveGen ==
    \A s \in Sid : Live(s) /\ session[s].late = FALSE => session[s].gen = password

Burnt(q) ==
    q.op = "reset" /\ q.pc \in {"respond", "commit"} =>
        \A t \in q.tokens : store[t] = "gone"

EachOK(q) ==
    ReqOK(q) /\ Loaded(q) /\ RefreshOK(q) /\ CutOK(q) /\ GenOK(q) /\ Burnt(q)

IInv ==
    /\ StateOK
    /\ \A r \in Req : EachOK(req[r])
    /\ FreshJti /\ RowsOK /\ RotationAtomic
    /\ PairsForked /\ LiveForked
    /\ OverlapLate /\ LiveGen

-----------------------------------------------------------------------------
(* Lemmas                                                                   *)

LEMMA IdleOK ==
    /\ Idle \in Request
    /\ Idle.pc = "idle" /\ Idle.op = "none" /\ Idle.sid = UserRow /\ Idle.jti = UserRow
    /\ Idle.tokens = {} /\ Idle.hits = {} /\ Idle.locks = {}
BY DEF Idle, Request, NoSession, Session, Row, UserRow

LEMMA SidFacts ==
    /\ Sid \subseteq Nat \ {0} /\ Sid \subseteq Row /\ UserRow \notin Sid
    /\ MaxSession \in Nat /\ Row = {UserRow} \cup Sid
BY SessionsAssumption DEF Sid, Row, UserRow

\* An idle request satisfies whatever is said of each request.
LEMMA IdleEach == EachOK(Idle)
<1>1. Idle.sid \notin Sid
    BY IdleOK, SidFacts
<1>2. QED
    BY <1>1, IdleOK DEF EachOK, ReqOK, Loaded, RefreshOK, CutOK, GenOK, Burnt, Issues

LEMMA InitInv == Init => IInv
<1> SUFFICES ASSUME Init PROVE IInv
    OBVIOUS
<1>1. NoSession \in Session /\ NoSession.state = "none"
    BY DEF NoSession, Session, Row, UserRow
<1>2. StateOK
    BY <1>1, IdleOK, SidFacts DEF Init, StateOK
<1>3. \A s \in Sid : session[s].state = "none"
    BY <1>1 DEF Init
<1>4. \A r \in Req : req[r] = Idle
    BY DEF Init
<1>5. \A r \in Req : EachOK(req[r])
    BY <1>4, IdleEach
<1>6. FreshJti /\ OverlapLate /\ PairsForked
    BY <1>4, IdleOK, SidFacts DEF FreshJti, OverlapLate, PairsForked
<1>7. RowsOK /\ RotationAtomic /\ LiveForked /\ LiveGen
    BY <1>3 DEF RowsOK, RotationAtomic, LiveForked, LiveGen, Live
<1>8. QED
    BY <1>2, <1>5, <1>6, <1>7 DEF IInv

\* A request that another one's start may have marked in its history.
Marks(q, n) ==
    /\ n.pc = q.pc /\ n.op = q.op /\ n.sid = q.sid /\ n.jti = q.jti
    /\ n.tokens = q.tokens /\ n.hits = q.hits /\ n.locks = q.locks
    /\ n.new.state = q.new.state /\ n.new.gen = q.new.gen
    /\ n.new.parent = q.new.parent /\ n.new.root = q.new.root
    /\ q.new.forked = TRUE => n.new.forked = TRUE
    /\ q.new.late = TRUE => n.new.late = TRUE

\* A step of r up to its commit: it keeps or draws its jti, and the table stays.
LEMMA StepInv ==
    ASSUME IInv, NEW r \in Req,
           req' \in [Req -> Request],
           \A o \in Req \ {r} : Marks(req[o], req'[o]),
           UNCHANGED <<password, session>>,
           store' \in [Token -> {"new", "valid", "gone"}],
           \A t \in Token : store[t] = "gone" => store'[t] = "gone",
           \/ next' = next /\ req'[r].jti \in {UserRow, req[r].jti}
           \/ next \in Sid /\ next' = next + 1 /\ req'[r].jti = next,
           EachOK(req[r])',
           req'[r].op = "refresh" =>
               \A o \in Req \ {r} :
                   req[o].op = "refresh" /\ req[o].new.root = req'[r].new.root =>
                       req'[r].new.forked = TRUE /\ req'[o].new.forked = TRUE,
           req'[r].op = "reset" =>
               \A o \in Req \ {r} : Issues(req[o]) => req'[o].new.late = TRUE,
           Issues(req'[r]) =>
               \A o \in Req \ {r} : req[o].op = "reset" => req'[r].new.late = TRUE
    PROVE  IInv'
<1>1. /\ session \in [Sid -> Session] /\ req \in [Req -> Request]
      /\ store \in [Token -> {"new", "valid", "gone"}]
      /\ next \in 1 .. MaxSession + 1 /\ next' \in 1 .. MaxSession + 1 /\ next <= next'
    BY SidFacts DEF IInv, StateOK, Sid
<1>2. \A o \in Req : req[o].new.late \in BOOLEAN /\ req'[o].new.late \in BOOLEAN
    BY <1>1 DEF Request, Session
<1>3. StateOK'
    BY <1>1 DEF IInv, StateOK
<1>4. ASSUME NEW o \in Req \ {r} PROVE EachOK(req[o])'
  <2>1. EachOK(req[o]) /\ Marks(req[o], req'[o])
      BY DEF IInv
  <2>2. Issues(req'[o]) <=> Issues(req[o])
      BY <2>1 DEF Marks, Issues
  <2>4. Loaded(req[o])'
      BY <2>1 DEF EachOK, Loaded, Marks
  <2>5. RefreshOK(req[o])'
      BY <2>1 DEF EachOK, RefreshOK, Marks, Live
  <2>6. CutOK(req[o])'
      BY <2>1 DEF EachOK, CutOK, Marks, Live
  <2>7. GenOK(req[o])'
      BY <1>2, <2>1, <2>2 DEF EachOK, GenOK, Marks, Issues
  <2>8. Burnt(req[o])'
    <3>1. req[o].tokens \subseteq Token
        BY <1>1 DEF Request
    <3>2. QED
        BY <2>1, <3>1 DEF EachOK, Burnt, Marks
  <2>9. ReqOK(req[o])'
      BY <2>1, <2>2 DEF EachOK, ReqOK, Marks, Issues
  <2>10. QED
      BY <2>4, <2>5, <2>6, <2>7, <2>8, <2>9 DEF EachOK
<1>5. \A o \in Req : EachOK(req[o])'
    BY <1>4
<1>6. FreshJti'
  <2>1. \A o \in Req \ {r} : req'[o].jti = req[o].jti
      BY DEF Marks
  <2>2. \A o \in Req : req[o].jti \in Sid => req[o].jti < next
      BY DEF IInv, FreshJti
  <2>3. CASE next' = next /\ req'[r].jti \in {UserRow, req[r].jti}
      BY <2>1, <2>3, SidFacts DEF IInv, FreshJti
  <2>4. CASE next \in Sid /\ next' = next + 1 /\ req'[r].jti = next
    <3>1. session[next].state = "none"
        BY <1>1, <2>4 DEF IInv, RowsOK
    <3>2. \A o \in Req \ {r} : req[o].jti # next
        BY <1>1, <2>2, <2>4
    <3>3. \A o \in Req \ {r} : req'[o].jti \in Sid =>
              /\ req'[o].jti < next'
              /\ session'[req'[o].jti].state = "none"
              /\ \A m \in Req \ {o} : req'[m].jti # req'[o].jti
      <4> SUFFICES ASSUME NEW o \in Req \ {r}, req'[o].jti \in Sid
                   PROVE  /\ req'[o].jti < next'
                          /\ session'[req'[o].jti].state = "none"
                          /\ \A m \in Req \ {o} : req'[m].jti # req'[o].jti
          OBVIOUS
      <4>1. /\ req'[o].jti = req[o].jti /\ req[o].jti < next
            /\ session[req[o].jti].state = "none"
            /\ \A m \in Req \ {o} : req[m].jti # req[o].jti
          BY <2>1 DEF IInv, FreshJti
      <4>2. req'[o].jti < next'
        <5>1. req[o].jti \in Nat /\ next \in Nat /\ next' = next + 1
            BY <2>4, <4>1, SidFacts
        <5>2. QED
            BY <4>1, <5>1
      <4>3. ASSUME NEW m \in Req \ {o} PROVE req'[m].jti # req'[o].jti
          BY <2>1, <2>4, <3>2, <4>1
      <4>4. QED
          BY <4>1, <4>2, <4>3
    <3>4. /\ req'[r].jti < next' /\ session'[req'[r].jti].state = "none"
          /\ \A m \in Req \ {r} : req'[m].jti # req'[r].jti
        BY <1>1, <2>1, <2>4, <3>1, <3>2
    <3>5. QED
        BY <3>3, <3>4 DEF FreshJti
  <2>5. QED
      BY <2>3, <2>4
<1>7. RowsOK' /\ RotationAtomic' /\ LiveForked' /\ LiveGen'
  <2>1. RowsOK'
      BY <1>1, SidFacts DEF IInv, RowsOK
  <2>2. QED
      BY <2>1 DEF IInv, RotationAtomic, LiveForked, LiveGen, Live
<1>8. PairsForked'
  <2> SUFFICES ASSUME NEW a \in Req, NEW b \in Req, a # b,
                      req'[a].op = "refresh", req'[b].op = "refresh",
                      req'[a].new.root = req'[b].new.root
               PROVE  req'[a].new.forked = TRUE
      BY DEF PairsForked
  <2>1. CASE a = r
      BY <2>1 DEF Marks
  <2>2. CASE b = r
      BY <2>2 DEF Marks
  <2>3. CASE a # r /\ b # r
      BY <2>3 DEF IInv, PairsForked, Marks
  <2>4. QED
      BY <2>1, <2>2, <2>3
<1>9. OverlapLate'
  <2> SUFFICES ASSUME NEW a \in Req, NEW b \in Req,
                      req'[a].op = "reset", Issues(req'[b])
               PROVE  req'[b].new.late = TRUE
      BY DEF OverlapLate, Issues
  <2>1. \A o \in Req \ {r} : Issues(req'[o]) <=> Issues(req[o])
      BY DEF Marks, Issues
  <2>2. CASE a = r
    <3>1. b # r
        BY <2>2 DEF Issues
    <3>2. QED
        BY <2>1, <2>2, <3>1
  <2>3. CASE b = r /\ a # r
      BY <2>3 DEF Marks
  <2>4. CASE a # r /\ b # r
      BY <2>1, <2>4 DEF IInv, OverlapLate, Marks
  <2>5. QED
      BY <2>2, <2>3, <2>4
<1>10. QED
    BY <1>3, <1>5, <1>6, <1>7, <1>8, <1>9 DEF IInv

\* A step that leaves the other requests alone, draws no jti and starts neither a
\* refresh nor a reset.
LEMMA LocalInv ==
    ASSUME IInv, NEW r \in Req, NEW q \in Request,
           req' = [req EXCEPT ![r] = q],
           UNCHANGED <<password, session, next>>,
           store' \in [Token -> {"new", "valid", "gone"}],
           \A t \in Token : store[t] = "gone" => store'[t] = "gone",
           \/ q.op \in {"none", "logout"} /\ q.jti = UserRow
           \/ q.op = req[r].op /\ q.jti = req[r].jti /\ q.new = req[r].new,
           EachOK(q)'
    PROVE  IInv'
<1>1. /\ req \in [Req -> Request] /\ req' \in [Req -> Request]
      /\ req'[r] = q /\ \A o \in Req \ {r} : req'[o] = req[o]
    BY DEF IInv, StateOK
<1>2. \A o \in Req \ {r} : Marks(req[o], req'[o])
    BY <1>1 DEF Marks
<1>3. EachOK(req[r])'
    BY <1>1
<1>4. next' = next /\ req'[r].jti \in {UserRow, req[r].jti}
    BY <1>1
<1>5. /\ q.op = "refresh" => req[r].op = "refresh" /\ q.new = req[r].new
      /\ q.op = "reset" => req[r].op = "reset"
      /\ Issues(q) => Issues(req[r]) /\ q.new = req[r].new
    BY DEF Issues
<1>6. req'[r].op = "refresh" =>
          \A o \in Req \ {r} :
              req[o].op = "refresh" /\ req[o].new.root = req'[r].new.root =>
                  req'[r].new.forked = TRUE /\ req'[o].new.forked = TRUE
    BY <1>1, <1>5 DEF IInv, PairsForked
<1>7. req'[r].op = "reset" =>
          \A o \in Req \ {r} : Issues(req[o]) => req'[o].new.late = TRUE
    BY <1>1, <1>5 DEF IInv, OverlapLate
<1>8. Issues(req'[r]) =>
          \A o \in Req \ {r} : req[o].op = "reset" => req'[r].new.late = TRUE
    BY <1>1, <1>5 DEF IInv, OverlapLate
<1>9. QED
    BY <1>1, <1>2, <1>3, <1>4, <1>6, <1>7, <1>8, StepInv

\* login writes, refresh and logout revoke their own row, and get_db answers.
LEMMA WriteSteps ==
    ASSUME IInv, NEW r \in Req,
           LoginWrite(r) \/ RefreshWrite(r) \/ LogoutWrite(r) \/ Respond(r)
    PROVE  IInv'
<1>1. /\ req \in [Req -> Request] /\ req[r] \in Request /\ EachOK(req[r])
      /\ store \in [Token -> {"new", "valid", "gone"}]
    BY DEF IInv, StateOK
<1>2. UNCHANGED <<password, session, next, store>>
    BY DEF LoginWrite, RefreshWrite, LogoutWrite, RevokeOwn, Respond
<1>3. CASE LoginWrite(r)
  <2>1. PICK q : q = [req[r] EXCEPT !.pc = "respond", !.locks = {UserRow}]
      OBVIOUS
  <2>2. q \in Request
      BY <1>1, <2>1, SidFacts DEF Request
  <2>3. /\ q.pc = "respond" /\ q.locks = {UserRow} /\ q.op = req[r].op
        /\ q.sid = req[r].sid /\ q.jti = req[r].jti /\ q.new = req[r].new
      BY <1>1, <2>1 DEF Request
  <2>4. req' = [req EXCEPT ![r] = q] /\ req[r].op = "login" /\ q.op = "login"
      BY <1>1, <1>3, <2>1, <2>3 DEF LoginWrite
  <2>5. EachOK(q)'
      BY <1>1, <1>2, <2>3, <2>4, SidFacts
      DEF EachOK, ReqOK, Loaded, RefreshOK, CutOK, GenOK, Burnt, Issues
  <2>6. QED
      BY <1>1, <1>2, <2>2, <2>3, <2>4, <2>5, LocalInv
<1>4. CASE RefreshWrite(r) \/ LogoutWrite(r)
  <2>1. PICK q : q = [req[r] EXCEPT !.pc = "respond", !.locks = {req[r].sid}]
      OBVIOUS
  <2>2. q \in Request
      BY <1>1, <2>1 DEF Request
  <2>3. /\ q.pc = "respond" /\ q.locks = {req[r].sid} /\ q.op = req[r].op
        /\ q.sid = req[r].sid /\ q.jti = req[r].jti /\ q.new = req[r].new
      BY <1>1, <2>1 DEF Request
  <2>4. req' = [req EXCEPT ![r] = q] /\ q.op \in {"refresh", "logout"}
      BY <1>1, <1>4, <2>1, <2>3 DEF RefreshWrite, LogoutWrite, RevokeOwn
  <2>5. EachOK(q)'
      BY <1>1, <1>2, <2>3, <2>4, SidFacts
      DEF EachOK, ReqOK, Loaded, RefreshOK, CutOK, GenOK, Burnt, Issues, Live
  <2>6. QED
      BY <1>1, <1>2, <2>2, <2>3, <2>4, <2>5, LocalInv
<1>5. CASE Respond(r)
  <2>1. PICK q : q = [req[r] EXCEPT !.pc = "commit"]
      OBVIOUS
  <2>2. q \in Request
      BY <1>1, <2>1 DEF Request
  <2>3. /\ q.pc = "commit" /\ q.locks = req[r].locks /\ q.op = req[r].op
        /\ q.sid = req[r].sid /\ q.jti = req[r].jti /\ q.new = req[r].new
        /\ q.hits = req[r].hits /\ q.tokens = req[r].tokens
      BY <1>1, <2>1 DEF Request
  <2>4. req' = [req EXCEPT ![r] = q] /\ req[r].pc = "respond"
      BY <1>1, <1>5, <2>1 DEF Respond
  <2>5. EachOK(q)'
      BY <1>1, <1>2, <2>3, <2>4
      DEF EachOK, ReqOK, Loaded, RefreshOK, CutOK, GenOK, Burnt, Issues, Live
  <2>6. QED
      BY <1>1, <1>2, <2>2, <2>3, <2>4, <2>5, LocalInv
<1>6. QED
    BY <1>3, <1>4, <1>5

\* reset_password writes, revokes row by row and burns its token.
LEMMA ResetSteps ==
    ASSUME IInv, NEW r \in Req,
           \/ ResetWrite(r) \/ RevokeAll(r) \/ RevokeDone(r) \/ BurnToken(r)
           \/ \E s \in Sid : RevokeRow(r, s)
    PROVE  IInv'
<1>1. /\ req \in [Req -> Request] /\ req[r] \in Request /\ EachOK(req[r])
      /\ store \in [Token -> {"new", "valid", "gone"}]
    BY DEF IInv, StateOK
<1>2. UNCHANGED <<password, session, next>>
    BY DEF ResetWrite, RevokeAll, RevokeDone, BurnToken, RevokeRow
<1>3. CASE ResetWrite(r)
  <2>1. PICK q : q = [req[r] EXCEPT !.pc = "revoke", !.locks = {UserRow}]
      OBVIOUS
  <2>2. q \in Request
      BY <1>1, <2>1, SidFacts DEF Request
  <2>3. /\ q.pc = "revoke" /\ q.locks = {UserRow} /\ q.op = req[r].op
        /\ q.sid = req[r].sid /\ q.jti = req[r].jti /\ q.new = req[r].new
      BY <1>1, <2>1 DEF Request
  <2>4. /\ req' = [req EXCEPT ![r] = q] /\ q.op = "reset"
        /\ UNCHANGED <<password, session, next, store>>
      BY <1>1, <1>3, <2>1, <2>3 DEF ResetWrite
  <2>5. EachOK(q)'
      BY <1>1, <2>3, <2>4, SidFacts
      DEF EachOK, ReqOK, Loaded, RefreshOK, CutOK, GenOK, Burnt, Issues
  <2>6. QED
      BY <1>1, <2>2, <2>3, <2>4, <2>5, LocalInv
<1>4. CASE RevokeAll(r)
  <2>1. PICK hits : hits = {s \in Sid : Live(s)}
      OBVIOUS
  <2>2. PICK q : q = [req[r] EXCEPT !.pc = "rows", !.hits = hits]
      OBVIOUS
  <2>3. q \in Request
      BY <1>1, <2>1, <2>2 DEF Request
  <2>4. /\ q.pc = "rows" /\ q.hits = hits /\ q.locks = req[r].locks /\ q.op = req[r].op
        /\ q.sid = req[r].sid /\ q.jti = req[r].jti /\ q.new = req[r].new
      BY <1>1, <2>2 DEF Request
  <2>5. /\ req' = [req EXCEPT ![r] = q] /\ req[r].pc = "revoke"
        /\ UNCHANGED <<password, session, next, store>>
      BY <1>1, <1>4, <2>1, <2>2 DEF RevokeAll
  <2>6. q.op = "reset"
      BY <1>1, <2>4, <2>5 DEF EachOK, ReqOK
  <2>7. CutOK(q)'
      BY <2>1, <2>4, <2>5 DEF CutOK, Live
  <2>8. EachOK(q)'
      BY <1>1, <2>4, <2>5, <2>6, <2>7
      DEF EachOK, ReqOK, Loaded, RefreshOK, GenOK, Burnt, Issues
  <2>9. QED
      BY <1>1, <2>3, <2>4, <2>5, <2>8, LocalInv
<1>5. ASSUME NEW s \in Sid, RevokeRow(r, s) PROVE IInv'
  <2>1. PICK locks : locks = IF Live(s) THEN req[r].locks \cup {s} ELSE req[r].locks
      OBVIOUS
  <2>2. PICK q : q = [req[r] EXCEPT !.hits = req[r].hits \ {s}, !.locks = locks]
      OBVIOUS
  <2>3. locks \in SUBSET Row /\ req[r].hits \ {s} \in SUBSET Sid
      BY <1>1, <2>1, SidFacts DEF Request
  <2>4. q \in Request
      BY <1>1, <2>2, <2>3 DEF Request
  <2>5. /\ q.hits = req[r].hits \ {s} /\ q.locks = locks
        /\ q.pc = req[r].pc /\ q.op = req[r].op
        /\ q.sid = req[r].sid /\ q.jti = req[r].jti /\ q.new = req[r].new
      BY <1>1, <2>2 DEF Request
  <2>6. /\ req' = [req EXCEPT ![r] = q] /\ req[r].pc = "rows"
        /\ UNCHANGED <<password, session, next, store>>
      BY <1>1, <1>5, <2>1, <2>2 DEF RevokeRow
  <2>7. q.op = "reset"
      BY <1>1, <2>5, <2>6 DEF EachOK, ReqOK
  <2>8. CutOK(q)'
      BY <1>1, <2>1, <2>5, <2>6, <2>7 DEF EachOK, CutOK, Live
  <2>9. Loaded(q)'
      BY <1>1, <2>1, <2>5, <2>6 DEF EachOK, Loaded, Live
  <2>10. EachOK(q)'
      BY <1>1, <2>5, <2>6, <2>7, <2>8, <2>9
      DEF EachOK, ReqOK, RefreshOK, GenOK, Burnt, Issues
  <2>11. QED
      BY <1>1, <2>4, <2>5, <2>6, <2>10, LocalInv
<1>6. CASE RevokeDone(r)
  <2>1. PICK q : q = [req[r] EXCEPT !.pc = "burn"]
      OBVIOUS
  <2>2. q \in Request
      BY <1>1, <2>1 DEF Request
  <2>3. /\ q.pc = "burn" /\ q.hits = req[r].hits /\ q.locks = req[r].locks
        /\ q.op = req[r].op /\ q.sid = req[r].sid /\ q.jti = req[r].jti
        /\ q.new = req[r].new
      BY <1>1, <2>1 DEF Request
  <2>4. /\ req' = [req EXCEPT ![r] = q] /\ req[r].pc = "rows" /\ req[r].hits = {}
        /\ UNCHANGED <<password, session, next, store>>
      BY <1>1, <1>6, <2>1 DEF RevokeDone
  <2>5. EachOK(q)'
      BY <1>1, <2>3, <2>4
      DEF EachOK, ReqOK, Loaded, RefreshOK, CutOK, GenOK, Burnt, Issues, Live
  <2>6. QED
      BY <1>1, <2>2, <2>3, <2>4, <2>5, LocalInv
<1>7. CASE BurnToken(r)
  <2>1. PICK q : q = [req[r] EXCEPT !.pc = "respond"]
      OBVIOUS
  <2>2. q \in Request
      BY <1>1, <2>1 DEF Request
  <2>3. /\ q.pc = "respond" /\ q.hits = req[r].hits /\ q.locks = req[r].locks
        /\ q.op = req[r].op /\ q.sid = req[r].sid /\ q.jti = req[r].jti
        /\ q.new = req[r].new /\ q.tokens = req[r].tokens /\ q.tokens \subseteq Token
      BY <1>1, <2>1 DEF Request
  <2>4. /\ req' = [req EXCEPT ![r] = q] /\ req[r].pc = "burn"
        /\ store' = [t \in Token |-> IF t \in req[r].tokens THEN "gone" ELSE store[t]]
      BY <1>1, <1>7, <2>1 DEF BurnToken
  <2>5. /\ store' \in [Token -> {"new", "valid", "gone"}]
        /\ \A t \in Token : store[t] = "gone" => store'[t] = "gone"
        /\ \A t \in q.tokens : store'[t] = "gone"
      BY <1>1, <2>3, <2>4
  <2>6. q.op = "reset"
      BY <1>1, <2>3, <2>4 DEF EachOK, ReqOK
  <2>7. Burnt(q)'
      BY <2>5 DEF Burnt
  <2>8. EachOK(q)'
      BY <1>1, <1>2, <2>3, <2>4, <2>6, <2>7
      DEF EachOK, ReqOK, Loaded, RefreshOK, CutOK, GenOK, Issues, Live
  <2>9. QED
      BY <1>1, <1>2, <2>2, <2>3, <2>4, <2>5, <2>8, LocalInv
<1>8. QED
    BY <1>3, <1>4, <1>5, <1>6, <1>7

\* logout reads; a request is rolled back.
LEMMA LogoutReadAbort ==
    ASSUME IInv, NEW r \in Req, Abort(r) \/ \E s \in Sid : LogoutRead(r, s)
    PROVE  IInv'
<1>1. /\ req \in [Req -> Request] /\ req[r] \in Request /\ EachOK(req[r])
      /\ store \in [Token -> {"new", "valid", "gone"}]
    BY DEF IInv, StateOK
<1>2. UNCHANGED <<password, session, next, store>>
    BY DEF Abort, LogoutRead
<1>3. CASE Abort(r)
  <2>1. EachOK(Idle)'
      BY IdleOK, SidFacts
      DEF EachOK, ReqOK, Loaded, RefreshOK, CutOK, GenOK, Burnt, Issues
  <2>2. req' = [req EXCEPT ![r] = Idle]
      BY <1>3 DEF Abort
  <2>3. QED
      BY <1>1, <1>2, <2>1, <2>2, IdleOK, LocalInv
<1>4. ASSUME NEW s \in Sid, LogoutRead(r, s) PROVE IInv'
  <2>1. PICK q : q = [req[r] EXCEPT !.pc = "write", !.op = "logout", !.sid = s]
      OBVIOUS
  <2>2. q \in Request
      BY <1>1, <2>1, SidFacts DEF Request
  <2>3. /\ q.pc = "write" /\ q.op = "logout" /\ q.sid = s
        /\ q.jti = req[r].jti /\ q.locks = req[r].locks
      BY <1>1, <2>1 DEF Request
  <2>4. req' = [req EXCEPT ![r] = q] /\ req[r].pc = "idle" /\ Live(s)
      BY <1>1, <1>4, <2>1 DEF LogoutRead
  <2>5. q.jti = UserRow /\ q.locks = {}
      BY <1>1, <2>3, <2>4 DEF EachOK, ReqOK, Issues
  <2>6. EachOK(q)'
      BY <1>2, <2>3, <2>4, <2>5
      DEF EachOK, ReqOK, Loaded, RefreshOK, CutOK, GenOK, Burnt, Issues, Live
  <2>7. QED
      BY <1>1, <1>2, <2>2, <2>3, <2>4, <2>5, <2>6, LocalInv
<1>5. QED
    BY <1>3, <1>4

\* authenticate: the session to come is late if a reset is in flight.
LEMMA LoginReadStep ==
    ASSUME IInv, NEW r \in Req, LoginRead(r)
    PROVE  IInv'
<1>1. /\ req \in [Req -> Request] /\ password \in Nat /\ next \in Sid /\ next' = next + 1
      /\ store \in [Token -> {"new", "valid", "gone"}]
      /\ UNCHANGED <<password, session, store>>
    BY DEF IInv, StateOK, LoginRead
<1>2. PICK late : late = (Others(r, {"reset"}) # {})
    OBVIOUS
<1>3. /\ late \in BOOLEAN
      /\ (\E o \in Req \ {r} : req[o].op = "reset") => late = TRUE
    BY <1>2 DEF Others
<1>4. PICK new : new = [state |-> "live", gen |-> password, parent |-> UserRow,
                        root |-> next, forked |-> FALSE, late |-> late]
    OBVIOUS
<1>5. /\ new \in Session /\ new.state = "live" /\ new.gen = password
      /\ new.parent = UserRow /\ new.root = next /\ new.late = late
    BY <1>1, <1>3, <1>4, SidFacts DEF Session
<1>6. PICK q : q = [Idle EXCEPT !.pc = "write", !.op = "login", !.jti = next, !.new = new]
    OBVIOUS
<1>7. q \in Request
    BY <1>1, <1>5, <1>6, IdleOK, SidFacts DEF Request
<1>8. /\ q.pc = "write" /\ q.op = "login" /\ q.jti = next /\ q.new = new
      /\ q.sid = UserRow /\ q.locks = {}
    BY <1>6 DEF Idle
<1>9. req' = [req EXCEPT ![r] = q]
    BY <1>2, <1>4, <1>6 DEF LoginRead, LoginSession
<1>10. /\ req' \in [Req -> Request] /\ req'[r] = q
       /\ \A o \in Req \ {r} : req'[o] = req[o]
    BY <1>1, <1>7, <1>9
<1>11. \A o \in Req \ {r} : Marks(req[o], req'[o])
    BY <1>10 DEF Marks
<1>12. EachOK(q)'
    BY <1>1, <1>5, <1>8, SidFacts
    DEF EachOK, ReqOK, Loaded, RefreshOK, CutOK, GenOK, Burnt, Issues
<1>13. EachOK(req[r])'
    BY <1>10, <1>12
<1>14. req'[r].op = "login" /\ req'[r].jti = next
    BY <1>8, <1>10
<1>15. \A o \in Req \ {r} : req[o].op = "reset" => req'[r].new.late = TRUE
    BY <1>3, <1>5, <1>8, <1>10
<1>16. QED
    BY <1>1, <1>10, <1>11, <1>13, <1>14, <1>15, StepInv

\* The marks of an overlapping refresh or reset.
LEMMA MarkedForked ==
    ASSUME StateOK, NEW s \in Sid, NEW o \in Req
    PROVE  /\ MarkForked(s)[o] \in Request
           /\ Marks(req[o], MarkForked(s)[o])
           /\ req[o].op = "refresh" /\ req[o].sid = s => MarkForked(s)[o].new.forked = TRUE
<1>1. req[o] \in Request /\ req[o].new \in Session
    BY DEF StateOK, Request
<1>2. CASE req[o].op = "refresh" /\ req[o].sid = s
  <2>1. PICK new : new = [req[o].new EXCEPT !.forked = TRUE]
      OBVIOUS
  <2>2. /\ new \in Session /\ new.forked = TRUE /\ new.state = req[o].new.state
        /\ new.gen = req[o].new.gen /\ new.parent = req[o].new.parent
        /\ new.root = req[o].new.root /\ new.late = req[o].new.late
      BY <1>1, <2>1 DEF Session
  <2>3. PICK q : q = [req[o] EXCEPT !.new = new]
      OBVIOUS
  <2>4. /\ q \in Request /\ q.new = new
        /\ q.pc = req[o].pc /\ q.op = req[o].op /\ q.sid = req[o].sid
        /\ q.jti = req[o].jti /\ q.tokens = req[o].tokens /\ q.hits = req[o].hits
        /\ q.locks = req[o].locks
      BY <1>1, <2>2, <2>3 DEF Request
  <2>5. MarkForked(s)[o] = q
      BY <1>1, <1>2, <2>1, <2>3 DEF MarkForked, Request
  <2>6. QED
      BY <2>2, <2>4, <2>5 DEF Marks
<1>3. CASE ~(req[o].op = "refresh" /\ req[o].sid = s)
  <2>1. MarkForked(s)[o] = req[o]
      BY <1>3 DEF MarkForked
  <2>2. QED
      BY <1>1, <1>3, <2>1 DEF Marks
<1>4. QED
    BY <1>2, <1>3

LEMMA MarkedLate ==
    ASSUME StateOK, NEW o \in Req
    PROVE  /\ MarkLate({"login", "refresh"})[o] \in Request
           /\ Marks(req[o], MarkLate({"login", "refresh"})[o])
           /\ Issues(req[o]) => MarkLate({"login", "refresh"})[o].new.late = TRUE
<1>1. req[o] \in Request /\ req[o].new \in Session
    BY DEF StateOK, Request
<1>2. CASE Issues(req[o])
  <2>1. PICK new : new = [req[o].new EXCEPT !.late = TRUE]
      OBVIOUS
  <2>2. /\ new \in Session /\ new.late = TRUE /\ new.state = req[o].new.state
        /\ new.gen = req[o].new.gen /\ new.parent = req[o].new.parent
        /\ new.root = req[o].new.root /\ new.forked = req[o].new.forked
      BY <1>1, <2>1 DEF Session
  <2>3. PICK q : q = [req[o] EXCEPT !.new = new]
      OBVIOUS
  <2>4. /\ q \in Request /\ q.new = new
        /\ q.pc = req[o].pc /\ q.op = req[o].op /\ q.sid = req[o].sid
        /\ q.jti = req[o].jti /\ q.tokens = req[o].tokens /\ q.hits = req[o].hits
        /\ q.locks = req[o].locks
      BY <1>1, <2>2, <2>3 DEF Request
  <2>5. MarkLate({"login", "refresh"})[o] = q
      BY <1>1, <1>2, <2>1, <2>3 DEF MarkLate, Issues, Request
  <2>6. QED
      BY <2>2, <2>4, <2>5 DEF Marks
<1>3. CASE ~Issues(req[o])
  <2>1. MarkLate({"login", "refresh"})[o] = req[o]
      BY <1>3 DEF MarkLate, Issues
  <2>2. QED
      BY <1>1, <1>3, <2>1 DEF Marks
<1>4. QED
    BY <1>2, <1>3

\* refresh reads a live session: what it issues is of the same line, and forked if
\* another refresh of that line is in flight or another session of it is live.
LEMMA RefreshReadStep ==
    ASSUME IInv, NEW r \in Req, NEW s \in Sid, RefreshRead(r, s)
    PROVE  IInv'
<1>1. /\ StateOK /\ req \in [Req -> Request] /\ session \in [Sid -> Session]
      /\ next \in Sid /\ next' = next + 1 /\ Live(s) /\ req[r].pc = "idle"
      /\ store \in [Token -> {"new", "valid", "gone"}]
      /\ UNCHANGED <<password, session, store>>
    BY DEF IInv, StateOK, RefreshRead
<1>2. PICK late, forked :
          /\ late = (session[s].late \/ Others(r, {"reset"}) # {})
          /\ forked = \/ session[s].forked
                      \/ \E o \in Others(r, {"refresh"}) : req[o].sid = s
    OBVIOUS
<1>3. session[s] \in Session /\ session[s].late \in BOOLEAN /\ session[s].forked \in BOOLEAN
    BY <1>1 DEF Session
<1>4. /\ late \in BOOLEAN /\ (late = FALSE => session[s].late = FALSE)
      /\ (\E o \in Req \ {r} : req[o].op = "reset") => late = TRUE
    BY <1>2, <1>3 DEF Others
<1>5. /\ forked \in BOOLEAN /\ (session[s].forked = TRUE => forked = TRUE)
      /\ (\E o \in Req \ {r} : req[o].op = "refresh" /\ req[o].sid = s) => forked = TRUE
    BY <1>2, <1>3 DEF Others
<1>6. PICK new : new = [state |-> "live", gen |-> session[s].gen, parent |-> s,
                        root |-> session[s].root, forked |-> forked, late |-> late]
    OBVIOUS
<1>7. /\ new \in Session /\ new.state = "live" /\ new.gen = session[s].gen
      /\ new.parent = s /\ new.root = session[s].root
      /\ new.forked = forked /\ new.late = late
    BY <1>3, <1>4, <1>5, <1>6, SidFacts DEF Session
<1>8. PICK q : q = [Idle EXCEPT !.pc = "write", !.op = "refresh", !.sid = s,
                                !.jti = next, !.new = new]
    OBVIOUS
<1>9. q \in Request
    BY <1>1, <1>7, <1>8, IdleOK, SidFacts DEF Request
<1>10. /\ q.pc = "write" /\ q.op = "refresh" /\ q.sid = s /\ q.jti = next /\ q.new = new
       /\ q.locks = {}
    BY <1>8 DEF Idle
<1>11. RefreshSession(r, s) = new
    BY <1>2, <1>6 DEF RefreshSession
<1>12. req' = [MarkForked(s) EXCEPT ![r] = q]
    BY <1>8, <1>11 DEF RefreshRead
<1>13. /\ MarkForked(s) = [o \in Req |-> MarkForked(s)[o]]
       /\ req'[r] = q /\ \A o \in Req \ {r} : req'[o] = MarkForked(s)[o]
       /\ req' = [o \in Req |-> req'[o]]
    BY <1>12 DEF MarkForked
<1>14. req' \in [Req -> Request] /\ \A o \in Req \ {r} : Marks(req[o], req'[o])
    BY <1>1, <1>9, <1>13, MarkedForked
<1>15. EachOK(q)'
  <2>1. ReqOK(q)' /\ Loaded(q)' /\ CutOK(q)' /\ Burnt(q)'
      BY <1>1, <1>7, <1>10 DEF ReqOK, Loaded, CutOK, Burnt, Issues, Live
  <2>2. GenOK(q)'
      BY <1>1, <1>4, <1>7, <1>10 DEF IInv, LiveGen, GenOK, Live
  <2>3. \A u \in Sid : u # s /\ Live(u) /\ session[u].root = session[s].root =>
            session[s].forked = TRUE /\ session[u].forked = TRUE
      BY <1>1 DEF IInv, LiveForked
  <2>4. RefreshOK(q)'
      BY <1>1, <1>5, <1>7, <1>10, <2>3 DEF RefreshOK, Live
  <2>5. QED
      BY <2>1, <2>2, <2>4 DEF EachOK
<1>16. EachOK(req[r])'
    BY <1>13, <1>15
<1>17. ASSUME NEW o \in Req \ {r}, req[o].op = "refresh", req[o].new.root = req'[r].new.root
       PROVE  req'[r].new.forked = TRUE /\ req'[o].new.forked = TRUE
  <2>1. CASE req[o].sid = s
      BY <1>1, <1>5, <1>7, <1>10, <1>13, <1>17, <2>1, MarkedForked
  <2>2. CASE req[o].sid # s
    <3>1. req[o].new.forked = TRUE /\ session[s].forked = TRUE
        BY <1>1, <1>7, <1>10, <1>13, <1>17, <2>2 DEF IInv, EachOK, RefreshOK
    <3>2. QED
        BY <1>5, <1>7, <1>10, <1>13, <1>14, <3>1 DEF Marks
  <2>3. QED
      BY <2>1, <2>2
<1>18. req'[r].op = "refresh" /\ req'[r].jti = next
    BY <1>10, <1>13
<1>19. \A o \in Req \ {r} : req[o].op = "reset" => req'[r].new.late = TRUE
    BY <1>4, <1>7, <1>10, <1>13
<1>20. QED
    BY <1>1, <1>14, <1>16, <1>17, <1>18, <1>19, StepInv

\* reset_password reads its token: what is in flight from now on is late.
LEMMA ResetReadStep ==
    ASSUME IInv, NEW r \in Req, NEW t \in Token, ResetRead(r, t)
    PROVE  IInv'
<1>1. /\ StateOK /\ store \in [Token -> {"new", "valid", "gone"}]
      /\ UNCHANGED <<password, session, next, store>>
    BY DEF IInv, StateOK, ResetRead
<1>2. PICK q : q = [Idle EXCEPT !.pc = "write", !.op = "reset", !.tokens = {t}]
    OBVIOUS
<1>3. q \in Request
    BY <1>2, IdleOK DEF Request
<1>4. /\ q.pc = "write" /\ q.op = "reset" /\ q.sid = UserRow /\ q.jti = UserRow
      /\ q.locks = {}
    BY <1>2 DEF Idle
<1>5. req' = [MarkLate({"login", "refresh"}) EXCEPT ![r] = q]
    BY <1>2 DEF ResetRead
<1>6. /\ req'[r] = q /\ \A o \in Req \ {r} : req'[o] = MarkLate({"login", "refresh"})[o]
      /\ req' = [o \in Req |-> req'[o]]
    BY <1>5 DEF MarkLate
<1>7. req' \in [Req -> Request] /\ \A o \in Req \ {r} : Marks(req[o], req'[o])
    BY <1>1, <1>3, <1>6, MarkedLate
<1>8. EachOK(q)'
    BY <1>4, SidFacts DEF EachOK, ReqOK, Loaded, RefreshOK, CutOK, GenOK, Burnt, Issues
<1>9. EachOK(req[r])'
    BY <1>6, <1>8
<1>10. \A o \in Req \ {r} : Issues(req[o]) => req'[o].new.late = TRUE
    BY <1>1, <1>6, MarkedLate
<1>11. req'[r].op = "reset" /\ req'[r].jti = UserRow /\ ~Issues(req'[r])
    BY <1>4, <1>6 DEF Issues
<1>12. QED
    BY <1>1, <1>7, <1>9, <1>10, <1>11, StepInv

\* What a commit does to a row: it inserts its own, revokes the ones it has written,
\* and leaves the rest.
LEMMA CommitRows ==
    ASSUME IInv, NEW r \in Req, Commit(r)
    PROVE  /\ session' \in [Sid -> Session]
           /\ req[r].jti \in Sid => session'[req[r].jti] = req[r].new
           /\ \A s \in Sid : s # req[r].jti =>
                 /\ session'[s].state =
                       IF s \in req[r].locks THEN "revoked" ELSE session[s].state
                 /\ session'[s].gen = session[s].gen
                 /\ session'[s].parent = session[s].parent
                 /\ session'[s].root = session[s].root
                 /\ session'[s].forked = session[s].forked
                 /\ session'[s].late = session[s].late
<1>1. session \in [Sid -> Session] /\ req[r] \in Request /\ session' = Written(r)
    BY DEF IInv, StateOK, Commit
<1>2. ASSUME NEW s \in Sid, s \in req[r].locks PROVE s # req[r].jti
    BY <1>2 DEF IInv, EachOK, Loaded, FreshJti
<1>3. ASSUME NEW s \in Sid, s = req[r].jti
      PROVE  session'[s] = req[r].new /\ session'[s] \in Session
  <2>1. s \notin req[r].locks
      BY <1>2, <1>3
  <2>2. session'[s] = req[r].new
      BY <1>1, <1>3, <2>1 DEF Written
  <2>3. QED
      BY <1>1, <2>2 DEF Request
<1>4. ASSUME NEW s \in Sid, s # req[r].jti, s \in req[r].locks
      PROVE  session'[s] = [session[s] EXCEPT !.state = "revoked"]
    BY <1>1, <1>4 DEF Written
<1>5. ASSUME NEW s \in Sid, s # req[r].jti, s \notin req[r].locks
      PROVE  session'[s] = session[s]
    BY <1>1, <1>5 DEF Written
<1>6. ASSUME NEW s \in Sid, s # req[r].jti
      PROVE  /\ session'[s] \in Session
             /\ session'[s].state =
                   IF s \in req[r].locks THEN "revoked" ELSE session[s].state
             /\ session'[s].gen = session[s].gen
             /\ session'[s].parent = session[s].parent
             /\ session'[s].root = session[s].root
             /\ session'[s].forked = session[s].forked
             /\ session'[s].late = session[s].late
  <2>1. session[s] \in Session
      BY <1>1
  <2>2. CASE s \in req[r].locks
      BY <1>4, <1>6, <2>1, <2>2 DEF Session
  <2>3. CASE s \notin req[r].locks
      BY <1>5, <1>6, <2>1, <2>3
  <2>4. QED
      BY <2>2, <2>3
<1>7. session' \in [Sid -> Session]
  <2>1. session' = [s \in Sid |-> session'[s]]
      BY <1>1 DEF Written
  <2>2. \A s \in Sid : session'[s] \in Session
      BY <1>3, <1>6
  <2>3. QED
      BY <2>1, <2>2
<1>8. QED
    BY <1>3, <1>6, <1>7

\* A commit inserts the session it issued and revokes the ones it wrote.
LEMMA CommitStep ==
    ASSUME IInv, NEW r \in Req, Commit(r)
    PROVE  IInv'
<1> DEFINE q == req[r]
<1>1. /\ StateOK /\ req \in [Req -> Request] /\ q \in Request /\ EachOK(q)
      /\ session \in [Sid -> Session] /\ password \in Nat /\ q.new \in Session
      /\ q.pc = "commit" /\ UNCHANGED <<next, store>>
      /\ password' = IF q.op = "reset" THEN password + 1 ELSE password
    BY DEF IInv, StateOK, Commit, Request
<1>2. /\ req' \in [Req -> Request] /\ req'[r] = Idle
      /\ \A o \in Req \ {r} : req'[o] = req[o]
    BY <1>1, IdleOK DEF Commit
<1>3. /\ session' \in [Sid -> Session]
      /\ q.jti \in Sid => session'[q.jti] = q.new
      /\ \A s \in Sid : s # q.jti =>
            /\ session'[s].state = IF s \in q.locks THEN "revoked" ELSE session[s].state
            /\ session'[s].gen = session[s].gen
            /\ session'[s].parent = session[s].parent
            /\ session'[s].root = session[s].root
            /\ session'[s].forked = session[s].forked
            /\ session'[s].late = session[s].late
    BY CommitRows
<1>4. \* the row issued, and what is known of it
      q.jti \in Sid =>
          /\ Issues(q) /\ q.new.state = "live"
          /\ q.jti < next /\ session[q.jti].state = "none"
          /\ \A o \in Req \ {r} : req[o].jti # q.jti
    BY <1>1, SidFacts DEF IInv, FreshJti, EachOK, ReqOK
<1>5. \A s \in Sid : s # q.jti =>
          /\ session'[s].state = "live" => session[s].state = "live" /\ s \notin q.locks
          /\ session[s].state = "revoked" => session'[s].state = "revoked"
          /\ session'[s].state = "none" <=> session[s].state = "none"
    BY <1>1, <1>3 DEF EachOK, Loaded
<1>6. \A s \in Sid : session[s].state # "none" => s # q.jti /\ session'[s].state # "none"
    BY <1>4, <1>5
<1>7. StateOK'
  <2>1. password' \in Nat
      BY <1>1
  <2>2. QED
      BY <1>1, <1>2, <1>3, <2>1 DEF StateOK
<1>8. \* each other refresh loaded a session that stays in the table
      \A o \in Req \ {r} : req[o].sid \in Sid =>
          session[req[o].sid].state # "none" /\ req[o].sid # q.jti
    BY <1>6 DEF IInv, EachOK, Loaded
<1>9. \* the root of the row issued
      q.jti \in Sid => /\ q.new.root \in Sid
                       /\ q.new.root = q.jti \/ session[q.new.root].state # "none"
                       /\ q.op = "login" => q.new.root = q.jti
                       /\ q.op = "refresh" => q.new.root # q.jti
  <2>1. CASE q.op = "login"
      BY <1>1, <2>1 DEF EachOK, ReqOK
  <2>2. CASE q.op = "refresh"
    <3>1. q.sid \in Sid /\ session[q.sid].state # "none" /\ q.new.root = session[q.sid].root
        BY <1>1, <2>2 DEF EachOK, ReqOK, Loaded, RefreshOK
    <3>2. session[q.sid].root \in Sid /\ session[session[q.sid].root].state # "none"
        BY <3>1 DEF IInv, RowsOK
    <3>3. QED
        BY <1>6, <2>2, <3>1, <3>2
  <2>3. QED
      BY <1>4, <2>1, <2>2 DEF Issues
<1>10. RowsOK'
  <2> SUFFICES ASSUME NEW s \in Sid, session'[s].state # "none"
               PROVE  /\ s < next /\ session'[s].root \in Sid
                      /\ session'[session'[s].root].state # "none"
      BY <1>1 DEF RowsOK
  <2>1. CASE s = q.jti
      BY <1>3, <1>4, <1>6, <1>9, <2>1
  <2>2. CASE s # q.jti
      BY <1>3, <1>5, <1>6, <2>2 DEF IInv, RowsOK
  <2>3. QED
      BY <2>1, <2>2
<1>11. RotationAtomic'
  <2> SUFFICES ASSUME NEW s \in Sid, session'[s].state # "none",
                      session'[s].parent # UserRow
               PROVE  session'[session'[s].parent].state = "revoked"
      BY DEF RotationAtomic
  <2>1. CASE s = q.jti
    <3>1. q.op = "refresh" /\ session'[s].parent = q.sid
        BY <1>1, <1>3, <1>4, <2>1 DEF EachOK, ReqOK, Issues
    <3>2. q.sid \in Sid /\ q.sid \in q.locks /\ session[q.sid].state # "none"
        BY <1>1, <3>1 DEF EachOK, ReqOK, Loaded
    <3>3. QED
        BY <1>3, <1>6, <3>1, <3>2
  <2>2. CASE s # q.jti
    <3>1. session[s].state # "none" /\ session'[s].parent = session[s].parent
        BY <1>3, <1>5, <2>2
    <3>2. session[s].parent \in Sid
        BY <1>1, <3>1, SidFacts DEF Session
    <3>3. session[session[s].parent].state = "revoked"
        BY <3>1 DEF IInv, RotationAtomic
    <3>4. QED
        BY <1>5, <1>6, <3>1, <3>2, <3>3
  <2>3. QED
      BY <2>1, <2>2
<1>12. \* a live session of the line of the one issued
       ASSUME NEW s \in Sid, s # q.jti, session'[s].state = "live",
              q.jti \in Sid, session'[s].root = q.new.root
       PROVE  session[s].forked = TRUE /\ q.new.forked = TRUE
  <2>1. /\ session[s].state = "live" /\ session[s].root = q.new.root
        /\ s \notin q.locks
      BY <1>3, <1>5, <1>12
  <2>2. q.op = "refresh"
    <3>1. session[session[s].root].state # "none"
        BY <2>1 DEF IInv, RowsOK
    <3>2. QED
        BY <1>4, <1>9, <1>12, <2>1, <3>1 DEF Issues
  <2>3. s # q.sid
      BY <1>1, <2>1, <2>2 DEF EachOK, ReqOK
  <2>4. QED
      BY <1>1, <2>1, <2>2, <2>3 DEF EachOK, RefreshOK, Live
<1>13. LiveForked'
  <2> SUFFICES ASSUME NEW s \in Sid, NEW u \in Sid, s # u,
                      session'[s].state = "live", session'[u].state = "live",
                      session'[s].root = session'[u].root
               PROVE  session'[s].forked = TRUE
      BY DEF LiveForked, Live
  <2>1. CASE s = q.jti
      BY <1>3, <1>12, <2>1
  <2>2. CASE u = q.jti
      BY <1>3, <1>12, <2>2
  <2>3. CASE s # q.jti /\ u # q.jti
      BY <1>3, <1>5, <2>3 DEF IInv, LiveForked, Live
  <2>4. QED
      BY <2>1, <2>2, <2>3
<1>14. LiveGen'
  <2> SUFFICES ASSUME NEW s \in Sid, session'[s].state = "live",
                      session'[s].late = FALSE
               PROVE  session'[s].gen = password'
      BY DEF LiveGen, Live
  <2>1. CASE s = q.jti
    <3>1. Issues(q) /\ q.op # "reset" /\ q.new.late = FALSE
        BY <1>3, <1>4, <2>1 DEF Issues
    <3>2. QED
        BY <1>1, <1>3, <2>1, <3>1 DEF EachOK, GenOK
  <2>2. CASE s # q.jti
    <3>1. session[s].state = "live" /\ s \notin q.locks /\ session[s].late = FALSE
        BY <1>3, <1>5, <2>2
    <3>2. q.op # "reset"
        BY <1>1, <3>1 DEF EachOK, ReqOK, CutOK, Live
    <3>3. QED
        BY <1>1, <1>3, <2>2, <3>1, <3>2 DEF IInv, LiveGen, Live
  <2>3. QED
      BY <2>1, <2>2
<1>15. FreshJti'
  <2> SUFFICES ASSUME NEW o \in Req, req'[o].jti \in Sid
               PROVE  /\ req'[o].jti < next' /\ session'[req'[o].jti].state = "none"
                      /\ \A m \in Req \ {o} : req'[m].jti # req'[o].jti
      BY DEF FreshJti
  <2>1. o # r /\ req'[o] = req[o]
      BY <1>2, IdleOK, SidFacts
  <2>2. /\ req[o].jti < next /\ session[req[o].jti].state = "none"
        /\ \A m \in Req \ {o} : req[m].jti # req[o].jti
      BY <2>1 DEF IInv, FreshJti
  <2>3. req[o].jti # q.jti
      BY <1>4, <2>1
  <2>4. session'[req[o].jti].state = "none"
      BY <1>5, <2>1, <2>2, <2>3
  <2>5. \A m \in Req \ {o} : req'[m].jti # req[o].jti
      BY <1>2, <2>1, <2>2, IdleOK, SidFacts
  <2>6. QED
      BY <1>1, <2>1, <2>2, <2>4, <2>5
<1>16. PairsForked' /\ OverlapLate'
  <2>1. PairsForked'
      BY <1>2, IdleOK DEF IInv, PairsForked
  <2>2. OverlapLate'
      BY <1>2, IdleOK DEF IInv, OverlapLate, Issues
  <2>3. QED
      BY <2>1, <2>2
<1>17. EachOK(Idle)'
    BY IdleOK, SidFacts
    DEF EachOK, ReqOK, Loaded, RefreshOK, CutOK, GenOK, Burnt, Issues
<1>18. ASSUME NEW o \in Req \ {r} PROVE EachOK(req[o])'
  <2>1. EachOK(req[o]) /\ req'[o] = req[o] /\ req[o] \in Request
      BY <1>1, <1>2 DEF IInv
  <2>2. ReqOK(req[o])' /\ Burnt(req[o])'
      BY <1>1, <2>1 DEF EachOK, ReqOK, Burnt, Issues
  <2>3. Loaded(req[o])'
      BY <1>6, <2>1 DEF EachOK, Loaded
  <2>4. RefreshOK(req[o])'
    <3> SUFFICES ASSUME req[o].op = "refresh"
                 PROVE  /\ req[o].new.root = session'[req[o].sid].root
                        /\ \A u \in Sid :
                              /\ u # req[o].sid /\ session'[u].state = "live"
                              /\ session'[u].root = req[o].new.root
                              => req[o].new.forked = TRUE /\ session'[u].forked = TRUE
        BY <2>1 DEF RefreshOK, Live
    <3>1. req[o].sid \in Sid /\ req[o].sid # q.jti
        BY <1>8, <2>1 DEF EachOK, ReqOK
    <3>2. /\ req[o].new.root = session[req[o].sid].root
          /\ session[req[o].new.root].state # "none"
        BY <1>8, <2>1, <3>1 DEF EachOK, RefreshOK, IInv, RowsOK
    <3>3. ASSUME NEW u \in Sid, u # req[o].sid, session'[u].state = "live",
                 session'[u].root = req[o].new.root
          PROVE  req[o].new.forked = TRUE /\ session'[u].forked = TRUE
      <4>1. CASE u = q.jti
        <5>1. q.op = "refresh" /\ q.new.root = req[o].new.root
            BY <1>3, <1>4, <1>9, <3>2, <3>3, <4>1 DEF Issues
        <5>2. QED
            BY <1>3, <4>1, <5>1 DEF IInv, PairsForked
      <4>2. CASE u # q.jti
          BY <1>3, <1>5, <2>1, <3>3, <4>2 DEF EachOK, RefreshOK, Live
      <4>3. QED
          BY <4>1, <4>2
    <3>4. QED
        BY <1>3, <3>1, <3>2, <3>3
  <2>5. CutOK(req[o])'
    <3> SUFFICES ASSUME req[o].op = "reset",
                        req[o].pc \in {"rows", "burn", "respond", "commit"},
                        NEW s \in Sid, session'[s].state = "live",
                        s \notin req[o].locks \cup req[o].hits
                 PROVE  session'[s].late = TRUE
        BY <2>1 DEF CutOK, Live
    <3>1. CASE s = q.jti
        BY <1>3, <1>4, <3>1 DEF IInv, OverlapLate
    <3>2. CASE s # q.jti
        BY <1>3, <1>5, <2>1, <3>2 DEF EachOK, CutOK, Live
    <3>3. QED
        BY <3>1, <3>2
  <2>6. GenOK(req[o])'
    <3>1. CASE q.op = "reset"
        BY <2>1, <3>1 DEF IInv, OverlapLate, GenOK, Issues
    <3>2. CASE q.op # "reset"
        BY <1>1, <2>1, <3>2 DEF EachOK, GenOK, Issues
    <3>3. QED
        BY <3>1, <3>2
  <2>7. QED
      BY <2>2, <2>3, <2>4, <2>5, <2>6 DEF EachOK
<1>19. \A o \in Req : EachOK(req[o])'
    BY <1>2, <1>17, <1>18
<1>20. QED
    BY <1>7, <1>10, <1>11, <1>13, <1>14, <1>15, <1>16, <1>19 DEF IInv

\* A reset token is issued, or its time is up.
LEMMA StoreSteps ==
    ASSUME IInv, NEW t \in Token, ForgotPassword(t) \/ ResetExpires(t)
    PROVE  IInv'
<1>1. /\ UNCHANGED <<password, session, next, req>> /\ req \in [Req -> Request]
      /\ store' \in [Token -> {"new", "valid", "gone"}]
      /\ \A x \in Token : store[x] = "gone" => store'[x] = "gone"
    BY DEF IInv, StateOK, ForgotPassword, ResetExpires
<1>2. StateOK'
    BY <1>1 DEF IInv, StateOK
<1>3. ASSUME NEW r \in Req PROVE EachOK(req[r])'
  <2>1. EachOK(req[r]) /\ req[r].tokens \subseteq Token
      BY <1>1 DEF IInv, Request
  <2>2. Burnt(req[r])'
      BY <1>1, <2>1 DEF EachOK, Burnt
  <2>3. QED
      BY <1>1, <2>1, <2>2
      DEF EachOK, ReqOK, Loaded, RefreshOK, CutOK, GenOK, Issues, Live
<1>4. QED
    BY <1>1, <1>2, <1>3
    DEF IInv, FreshJti, RowsOK, RotationAtomic, PairsForked, LiveForked, OverlapLate,
        LiveGen, Live, Issues

LEMMA NextInv == IInv /\ [Next]_vars => IInv'
<1> SUFFICES ASSUME IInv, [Next]_vars PROVE IInv'
    OBVIOUS
<1>1. ASSUME NEW r \in Req, LoginRead(r) PROVE IInv'
    BY <1>1, LoginReadStep
<1>2. ASSUME NEW r \in Req, NEW s \in Sid, RefreshRead(r, s) PROVE IInv'
    BY <1>2, RefreshReadStep
<1>3. ASSUME NEW r \in Req, NEW t \in Token, ResetRead(r, t) PROVE IInv'
    BY <1>3, ResetReadStep
<1>4. ASSUME NEW r \in Req,
             LoginWrite(r) \/ RefreshWrite(r) \/ LogoutWrite(r) \/ Respond(r)
      PROVE  IInv'
    BY <1>4, WriteSteps
<1>5. ASSUME NEW r \in Req,
             \/ ResetWrite(r) \/ RevokeAll(r) \/ RevokeDone(r) \/ BurnToken(r)
             \/ \E s \in Sid : RevokeRow(r, s)
      PROVE  IInv'
    BY <1>5, ResetSteps
<1>6. ASSUME NEW r \in Req, Abort(r) \/ \E s \in Sid : LogoutRead(r, s) PROVE IInv'
    BY <1>6, LogoutReadAbort
<1>7. ASSUME NEW r \in Req, Commit(r) PROVE IInv'
    BY <1>7, CommitStep
<1>8. ASSUME NEW t \in Token, ForgotPassword(t) \/ ResetExpires(t) PROVE IInv'
    BY <1>8, StoreSteps
<1>9. CASE UNCHANGED vars
  <2>1. UNCHANGED <<password, session, next, store, req>>
      BY <1>9 DEF vars
  <2>2. ASSUME NEW r \in Req PROVE EachOK(req[r])'
      BY <2>1 DEF IInv, EachOK, ReqOK, Loaded, RefreshOK, CutOK, GenOK, Burnt, Issues, Live
  <2>3. QED
      BY <2>1, <2>2
      DEF IInv, StateOK, FreshJti, RowsOK, RotationAtomic, PairsForked, LiveForked,
          OverlapLate, LiveGen, Live, Issues
<1>10. QED
    BY <1>1, <1>2, <1>3, <1>4, <1>5, <1>6, <1>7, <1>8, <1>9 DEF Next

-----------------------------------------------------------------------------
(* The invariant of the reset tokens                                        *)

\* The reset deleted the token and has not committed yet.
Holds(q, t) == t \in q.tokens /\ q.pc \in {"respond", "commit"}

\* Just a reset presents tokens.
Presented == \A r \in Req : req[r].tokens # {} => req[r].op = "reset"

\* A token that two requests present, or one that has been used, is shared.
SharedOK ==
    /\ \A r, o \in Req : r # o =>
          \A t \in req[r].tokens \cap req[o].tokens : spent[t].shared = TRUE
    /\ \A r \in Req : \A t \in req[r].tokens :
          spent[t].uses > 0 => spent[t].shared = TRUE

UsedGone == \A t \in Token : spent[t].uses > 0 => store[t] = "gone"

TokenInv ==
    /\ spent \in [Token -> Fate]
    /\ Presented /\ SharedOK /\ UsedGone
    /\ ResetTokenOnce /\ ResetTokenLost

LEMMA InitTokens == Init => TokenInv
<1> SUFFICES ASSUME Init PROVE TokenInv
    OBVIOUS
<1>1. Unspent \in Fate /\ Unspent.uses = 0
    BY DEF Unspent, Fate
<1>2. /\ spent \in [Token -> Fate] /\ \A t \in Token : spent[t].uses = 0 /\ store[t] = "new"
      /\ \A r \in Req : req[r].tokens = {}
    BY <1>1, IdleOK DEF Init
<1>3. QED
    BY <1>2 DEF TokenInv, Presented, SharedOK, UsedGone, ResetTokenOnce, ResetTokenLost

\* A step that neither presents nor uses up a token.
LEMMA QuietTokens ==
    ASSUME TokenInv, spent' = spent, \A r \in Req : req[r].tokens \subseteq Token,
           \A t \in Token : store[t] = "gone" => store'[t] = "gone",
           \A t \in Token : store'[t] = "gone" =>
               store[t] = "gone" \/ \E r \in Req : Holds(req'[r], t),
           \A r \in Req : req'[r].tokens \subseteq req[r].tokens,
           \A r \in Req : req'[r].tokens # {} => req'[r].op = "reset",
           \A r \in Req, t \in Token : Holds(req[r], t) => Holds(req'[r], t)
    PROVE  TokenInv'
<1>1. (spent \in [Token -> Fate])' /\ ResetTokenOnce'
    BY DEF TokenInv, ResetTokenOnce
<1>2. Presented'
    BY DEF Presented
<1>3. SharedOK'
  <2>1. ASSUME NEW r \in Req, NEW o \in Req, r # o, NEW t \in req'[r].tokens \cap req'[o].tokens
        PROVE  spent'[t].shared = TRUE
    <3>1. t \in req[r].tokens \cap req[o].tokens
        BY <2>1
    <3>2. QED
        BY <2>1, <3>1 DEF TokenInv, SharedOK
  <2>2. ASSUME NEW r \in Req, NEW t \in req'[r].tokens, spent'[t].uses > 0
        PROVE  spent'[t].shared = TRUE
    <3>1. t \in req[r].tokens
        BY <2>2
    <3>2. QED
        BY <2>2, <3>1 DEF TokenInv, SharedOK
  <2>3. QED
      BY <2>1, <2>2 DEF SharedOK
<1>4. UsedGone'
    BY DEF TokenInv, UsedGone
<1>5. ResetTokenLost'
  <2> SUFFICES ASSUME NEW t \in Token, store'[t] = "gone", spent[t].uses = 0, ~spent[t].lost
               PROVE  \E r \in Req : Holds(req'[r], t)
      BY DEF ResetTokenLost, Holds
  <2>1. store[t] = "gone" => \E r \in Req : Holds(req[r], t)
      BY DEF TokenInv, ResetTokenLost, Holds
  <2>2. QED
      BY <2>1
<1>6. QED
    BY <1>1, <1>2, <1>3, <1>4, <1>5 DEF TokenInv

\* A step of r that keeps its tokens and its operation, and the other requests.
LEMMA OwnTokens ==
    ASSUME IInv, TokenInv, NEW r \in Req, NEW q \in Request,
           req' = [req EXCEPT ![r] = q], spent' = spent,
           \/ q.tokens = {} /\ req[r].pc = "idle"
           \/ /\ q.tokens = req[r].tokens /\ q.op = req[r].op
              /\ req[r].pc \in {"respond", "commit"} => q.pc \in {"respond", "commit"},
           \/ store' = store
           \/ /\ q.tokens = req[r].tokens /\ q.pc = "respond"
              /\ store' = [t \in Token |-> IF t \in req[r].tokens THEN "gone" ELSE store[t]]
    PROVE  TokenInv'
<1>1. /\ req \in [Req -> Request] /\ req'[r] = q
      /\ \A o \in Req \ {r} : req'[o] = req[o]
    BY DEF IInv, StateOK
<1>2. \A o \in Req : req[o].tokens \subseteq Token
    BY <1>1 DEF Request
<1>3. Presented
    BY DEF TokenInv
<1>4. \A o \in Req : req'[o].tokens \subseteq req[o].tokens
    BY <1>1
<1>5. \A o \in Req : req'[o].tokens # {} => req'[o].op = "reset"
    BY <1>1, <1>3 DEF Presented
<1>6. \A o \in Req, t \in Token : Holds(req[o], t) => Holds(req'[o], t)
    BY <1>1 DEF Holds
<1>7. \A t \in Token : store[t] = "gone" => store'[t] = "gone"
    OBVIOUS
<1>8. \A t \in Token : store'[t] = "gone" =>
          store[t] = "gone" \/ \E o \in Req : Holds(req'[o], t)
    BY <1>1 DEF Holds
<1>9. QED
    BY <1>2, <1>4, <1>5, <1>6, <1>7, <1>8, QuietTokens

\* The steps of one request that present no token, up to its commit.
LEMMA OwnTokenSteps ==
    ASSUME IInv, TokenInv, NEW r \in Req,
           \/ LoginWrite(r) \/ RefreshWrite(r) \/ LogoutWrite(r) \/ Respond(r)
           \/ ResetWrite(r) \/ RevokeAll(r) \/ RevokeDone(r) \/ BurnToken(r)
           \/ \E s \in Sid : RevokeRow(r, s)
           \/ \E s \in Sid : LogoutRead(r, s)
    PROVE  TokenInv'
<1>1. IInv'
    BY WriteSteps, ResetSteps, LogoutReadAbort
<1>2. PICK q : q = req'[r]
    OBVIOUS
<1>3. req \in [Req -> Request] /\ req[r] \in Request /\ q \in Request /\ spent' = spent
    BY <1>1, <1>2 DEF IInv, StateOK, LoginWrite, RefreshWrite, LogoutWrite, RevokeOwn, Respond,
       ResetWrite, RevokeAll, RevokeDone, BurnToken, RevokeRow, LogoutRead
<1>4. req' = [req EXCEPT ![r] = q]
  <2>1. CASE LoginWrite(r) \/ RefreshWrite(r) \/ LogoutWrite(r) \/ Respond(r)
      BY <1>2, <1>3, <2>1 DEF LoginWrite, RefreshWrite, LogoutWrite, RevokeOwn, Respond
  <2>2. CASE ResetWrite(r) \/ RevokeAll(r) \/ RevokeDone(r) \/ BurnToken(r)
      BY <1>2, <1>3, <2>2 DEF ResetWrite, RevokeAll, RevokeDone, BurnToken
  <2>3. ASSUME NEW s \in Sid, RevokeRow(r, s) \/ LogoutRead(r, s)
        PROVE  req' = [req EXCEPT ![r] = q]
      BY <1>2, <1>3, <2>3 DEF RevokeRow, LogoutRead
  <2>4. QED
      BY <2>1, <2>2, <2>3
<1>5. EachOK(req[r]) /\ Presented
    BY DEF IInv, TokenInv
<1>6. CASE \E s \in Sid : LogoutRead(r, s)
  <2>1. req[r].pc = "idle" /\ q.tokens = req[r].tokens /\ store' = store
    <3>1. PICK s \in Sid : LogoutRead(r, s)
        BY <1>6
    <3>2. req'[r] = [req[r] EXCEPT !.pc = "write", !.op = "logout", !.sid = s]
        BY <1>3, <3>1 DEF LogoutRead
    <3>3. QED
        BY <1>2, <1>3, <3>1, <3>2 DEF LogoutRead, Request
  <2>2. req[r].tokens = {}
      BY <1>5, <2>1 DEF EachOK, ReqOK, Presented
  <2>3. QED
      BY <1>3, <1>4, <2>1, <2>2, OwnTokens
<1>7. CASE LoginWrite(r) \/ RefreshWrite(r) \/ LogoutWrite(r) \/ Respond(r)
  <2>1. /\ q.tokens = req[r].tokens /\ q.op = req[r].op /\ store' = store
        /\ q.pc \in {"respond", "commit"}
      BY <1>2, <1>3, <1>7
      DEF LoginWrite, RefreshWrite, LogoutWrite, RevokeOwn, Respond, Request
  <2>2. QED
      BY <1>3, <1>4, <2>1, OwnTokens
<1>8. CASE ResetWrite(r) \/ RevokeAll(r) \/ RevokeDone(r) \/ \E s \in Sid : RevokeRow(r, s)
  <2>1. /\ q.tokens = req[r].tokens /\ q.op = req[r].op /\ store' = store
        /\ req[r].pc \notin {"respond", "commit"}
    <3>1. CASE ResetWrite(r) \/ RevokeAll(r) \/ RevokeDone(r)
        BY <1>2, <1>3, <3>1 DEF ResetWrite, RevokeAll, RevokeDone, Request
    <3>2. ASSUME NEW s \in Sid, RevokeRow(r, s)
          PROVE  /\ q.tokens = req[r].tokens /\ q.op = req[r].op /\ store' = store
                 /\ req[r].pc = "rows"
      <4>1. PICK locks : locks = IF Live(s) THEN req[r].locks \cup {s} ELSE req[r].locks
          OBVIOUS
      <4>2. req'[r] = [req[r] EXCEPT !.hits = @ \ {s}, !.locks = locks]
          BY <1>3, <3>2, <4>1 DEF RevokeRow
      <4>3. QED
          BY <1>2, <1>3, <3>2, <4>2 DEF RevokeRow, Request
    <3>3. QED
        BY <1>8, <3>1, <3>2
  <2>2. QED
      BY <1>3, <1>4, <2>1, OwnTokens
<1>9. CASE BurnToken(r)
  <2>1. /\ q.tokens = req[r].tokens /\ q.op = req[r].op /\ q.pc = "respond"
        /\ store' = [t \in Token |-> IF t \in req[r].tokens THEN "gone" ELSE store[t]]
      BY <1>2, <1>3, <1>9 DEF BurnToken, Request
  <2>2. QED
      BY <1>3, <1>4, <2>1, OwnTokens
<1>10. QED
    BY <1>6, <1>7, <1>8, <1>9

LEMMA LoginTokens ==
    ASSUME IInv, TokenInv, NEW r \in Req, LoginRead(r)
    PROVE  TokenInv'
<1>1. IInv'
    BY LoginReadStep
<1>2. PICK q : q = [Idle EXCEPT !.pc = "write", !.op = "login", !.jti = next,
                                !.new = LoginSession(r)]
    OBVIOUS
<1>3. q.tokens = {}
    BY <1>2 DEF Idle
<1>4. /\ req' = [req EXCEPT ![r] = q] /\ req[r].pc = "idle"
      /\ spent' = spent /\ store' = store
    BY <1>2 DEF LoginRead
<1>5. q \in Request
    BY <1>1, <1>4 DEF IInv, StateOK
<1>6. QED
    BY <1>3, <1>4, <1>5, OwnTokens

\* The other requests are marked, r starts: their tokens stay.
LEMMA RefreshTokens ==
    ASSUME IInv, TokenInv, NEW r \in Req, NEW s \in Sid, RefreshRead(r, s)
    PROVE  TokenInv'
<1>1. PICK q : q = [Idle EXCEPT !.pc = "write", !.op = "refresh", !.sid = s, !.jti = next,
                                !.new = RefreshSession(r, s)]
    OBVIOUS
<1>2. q.tokens = {}
    BY <1>1 DEF Idle
<1>3. /\ StateOK /\ req \in [Req -> Request] /\ Presented
      /\ req' = [MarkForked(s) EXCEPT ![r] = q] /\ req[r].pc = "idle"
      /\ spent' = spent /\ store' = store
    BY <1>1 DEF IInv, StateOK, TokenInv, RefreshRead
<1>4. req'[r] = q /\ \A o \in Req \ {r} : req'[o] = MarkForked(s)[o]
    BY <1>3 DEF MarkForked
<1>5. \A o \in Req \ {r} : Marks(req[o], req'[o])
    BY <1>3, <1>4, MarkedForked
<1>6. \A o \in Req \ {r} :
          req'[o].tokens = req[o].tokens /\ req'[o].op = req[o].op /\ req'[o].pc = req[o].pc
    BY <1>5 DEF Marks
<1>7. \A o \in Req : req[o].tokens \subseteq Token
    BY <1>3 DEF Request
<1>8. /\ \A o \in Req : req'[o].tokens \subseteq req[o].tokens
      /\ \A o \in Req : req'[o].tokens # {} => req'[o].op = "reset"
      /\ \A o \in Req, t \in Token : Holds(req[o], t) => Holds(req'[o], t)
    BY <1>2, <1>3, <1>4, <1>6 DEF Presented, Holds
<1>9. QED
    BY <1>3, <1>7, <1>8, QuietTokens

\* reset_password reads a token: it is valid, so nothing has used it.
LEMMA ResetReadTokens ==
    ASSUME IInv, TokenInv, NEW r \in Req, NEW t \in Token, ResetRead(r, t)
    PROVE  TokenInv'
<1>1. PICK q : q = [Idle EXCEPT !.pc = "write", !.op = "reset", !.tokens = {t}]
    OBVIOUS
<1>2. q.tokens = {t} /\ q.op = "reset"
    BY <1>1 DEF Idle
<1>3. PICK both \in BOOLEAN : both = (spent[t].shared \/ \E o \in Req : t \in req[o].tokens)
  <2>1. spent[t].shared \in BOOLEAN
      BY DEF TokenInv, Fate
  <2>2. QED
      BY <2>1
<1>4. /\ StateOK /\ req \in [Req -> Request] /\ EachOK(req[r]) /\ spent \in [Token -> Fate]
      /\ req' = [MarkLate({"login", "refresh"}) EXCEPT ![r] = q] /\ req[r].pc = "idle"
      /\ store[t] = "valid" /\ store' = store
      /\ spent' = [spent EXCEPT ![t].shared = both]
    BY <1>1, <1>3 DEF IInv, StateOK, TokenInv, ResetRead
<1>5. req'[r] = q /\ \A o \in Req \ {r} : req'[o] = MarkLate({"login", "refresh"})[o]
    BY <1>4 DEF MarkLate
<1>6. \A o \in Req \ {r} : Marks(req[o], req'[o])
    BY <1>4, <1>5, MarkedLate
<1>7. \A o \in Req \ {r} :
          req'[o].tokens = req[o].tokens /\ req'[o].op = req[o].op /\ req'[o].pc = req[o].pc
    BY <1>6 DEF Marks
<1>8. req[r].tokens = {} /\ \A o \in Req : req[o].tokens \subseteq Token
    BY <1>4 DEF EachOK, ReqOK, TokenInv, Presented, Request
<1>9. /\ spent' \in [Token -> Fate] /\ spent'[t].shared = both
      /\ \A x \in Token : spent'[x].uses = spent[x].uses /\ spent'[x].lost = spent[x].lost
      /\ \A x \in Token \ {t} : spent'[x] = spent[x]
    BY <1>4 DEF Fate
<1>10. spent[t].uses = 0
  <2>1. spent[t].uses \in Nat /\ ~(spent[t].uses > 0)
      BY <1>4 DEF Fate, TokenInv, UsedGone
  <2>2. QED
      BY <2>1
<1>11. Presented'
    BY <1>2, <1>5, <1>7 DEF TokenInv, Presented
<1>12. SharedOK'
  <2>1. \A o \in Req : t \in req[o].tokens => both = TRUE
      BY <1>3
  <2>2. ASSUME NEW a \in Req, NEW b \in Req, a # b, NEW x \in req'[a].tokens \cap req'[b].tokens
        PROVE  spent'[x].shared = TRUE
    <3>1. CASE x = t
      <4>1. t \in req[a].tokens \/ t \in req[b].tokens
          BY <1>7, <2>2, <3>1
      <4>2. QED
          BY <1>9, <2>1, <3>1, <4>1
    <3>2. CASE x # t
      <4>1. x \in req[a].tokens \cap req[b].tokens
          BY <1>2, <1>5, <1>7, <2>2, <3>2
      <4>2. QED
          BY <1>8, <1>9, <2>2, <3>2, <4>1 DEF TokenInv, SharedOK
    <3>3. QED
        BY <3>1, <3>2
  <2>3. ASSUME NEW a \in Req, NEW x \in req'[a].tokens, spent'[x].uses > 0
        PROVE  spent'[x].shared = TRUE
    <3>1. x # t
        BY <1>9, <1>10, <2>3
    <3>2. x \in req[a].tokens
        BY <1>2, <1>5, <1>7, <2>3, <3>1
    <3>3. QED
        BY <1>8, <1>9, <2>3, <3>1, <3>2 DEF TokenInv, SharedOK
  <2>4. QED
      BY <2>2, <2>3 DEF SharedOK
<1>13. UsedGone'
    BY <1>4, <1>9 DEF TokenInv, UsedGone
<1>14. ResetTokenOnce'
  <2> SUFFICES ASSUME NEW x \in Token, spent'[x].uses > 1 PROVE spent'[x].shared
      BY DEF ResetTokenOnce
  <2>1. x # t
      BY <1>9, <1>10
  <2>2. QED
      BY <1>9, <2>1 DEF TokenInv, ResetTokenOnce
<1>15. ResetTokenLost'
  <2> SUFFICES ASSUME NEW x \in Token, store'[x] = "gone", spent'[x].uses = 0, ~spent'[x].lost
               PROVE  \E o \in Req : Holds(req'[o], x)
      BY DEF ResetTokenLost, Holds
  <2>1. PICK o \in Req : Holds(req[o], x)
      BY <1>4, <1>9 DEF TokenInv, ResetTokenLost, Holds
  <2>2. o # r
      BY <1>8, <2>1 DEF Holds
  <2>3. QED
      BY <1>7, <2>1, <2>2 DEF Holds
<1>16. QED
    BY <1>9, <1>11, <1>12, <1>13, <1>14, <1>15 DEF TokenInv

\* A request ends: what it presented is used, or lost if it had deleted it.
LEMMA EndTokens ==
    ASSUME IInv, TokenInv, NEW r \in Req, Commit(r) \/ Abort(r)
    PROVE  TokenInv'
<1>1. /\ req \in [Req -> Request] /\ EachOK(req[r]) /\ spent \in [Token -> Fate]
      /\ req' = [req EXCEPT ![r] = Idle] /\ store' = store
    BY DEF IInv, StateOK, TokenInv, Commit, Abort
<1>2. /\ req'[r].tokens = {} /\ \A o \in Req \ {r} : req'[o] = req[o]
    BY <1>1, IdleOK
<1>3. \A o \in Req : req[o].tokens \subseteq Token
    BY <1>1 DEF Request
<1>4. \A t \in Token : spent[t] \in Fate /\ spent[t].uses \in Nat
    BY <1>1 DEF Fate
<1>5. \A o \in Req : o # r =>
          \A t \in req[o].tokens \cap req[r].tokens : spent[t].shared = TRUE
    BY DEF TokenInv, SharedOK
<1>6. /\ spent' \in [Token -> Fate]
      /\ \A t \in Token : spent'[t].shared = spent[t].shared
      /\ \A t \in Token : t \notin req[r].tokens => spent'[t] = spent[t]
      /\ \A t \in Token : t \in req[r].tokens =>
            \/ spent'[t].uses = spent[t].uses + 1 /\ store[t] = "gone"
            \/ /\ spent'[t].uses = spent[t].uses
               /\ spent'[t].lost = spent[t].lost \/ spent'[t].lost = TRUE
               /\ Holds(req[r], t) => spent'[t].lost = TRUE
  <2>1. CASE Commit(r)
    <3>1. \A t \in req[r].tokens : store[t] = "gone"
        BY <1>1, <2>1 DEF TokenInv, Presented, EachOK, Burnt, Commit
    <3>2. spent' = [t \in Token |-> IF t \in req[r].tokens
                                   THEN [spent[t] EXCEPT !.uses = @ + 1] ELSE spent[t]]
        BY <2>1 DEF Commit
    <3>3. ASSUME NEW t \in Token
          PROVE  /\ [spent[t] EXCEPT !.uses = @ + 1] \in Fate
                 /\ [spent[t] EXCEPT !.uses = @ + 1].uses = spent[t].uses + 1
                 /\ [spent[t] EXCEPT !.uses = @ + 1].shared = spent[t].shared
        BY <1>4 DEF Fate
    <3>4. QED
        BY <1>4, <3>1, <3>2, <3>3
  <2>2. CASE Abort(r)
    <3>1. spent' = [t \in Token |->
                       IF t \in req[r].tokens /\ req[r].pc \in {"respond", "commit"}
                       THEN [spent[t] EXCEPT !.lost = TRUE] ELSE spent[t]]
        BY <2>2 DEF Abort
    <3>2. ASSUME NEW t \in Token
          PROVE  /\ [spent[t] EXCEPT !.lost = TRUE] \in Fate
                 /\ [spent[t] EXCEPT !.lost = TRUE].lost = TRUE
                 /\ [spent[t] EXCEPT !.lost = TRUE].uses = spent[t].uses
                 /\ [spent[t] EXCEPT !.lost = TRUE].shared = spent[t].shared
        BY <1>4 DEF Fate
    <3>3. QED
        BY <1>4, <3>1, <3>2 DEF Holds
  <2>3. QED
      BY <2>1, <2>2
<1>7. Presented'
    BY <1>2 DEF TokenInv, Presented
<1>8. SharedOK'
  <2>1. ASSUME NEW a \in Req, NEW b \in Req, a # b, NEW x \in req'[a].tokens \cap req'[b].tokens
        PROVE  spent'[x].shared = TRUE
    <3>1. x \in req[a].tokens \cap req[b].tokens /\ x \in Token
        BY <1>2, <1>3, <2>1
    <3>2. QED
        BY <1>6, <2>1, <3>1 DEF TokenInv, SharedOK
  <2>2. ASSUME NEW a \in Req, NEW x \in req'[a].tokens, spent'[x].uses > 0
        PROVE  spent'[x].shared = TRUE
    <3>1. a # r /\ x \in req[a].tokens /\ x \in Token
        BY <1>2, <1>3, <2>2
    <3>2. CASE x \in req[r].tokens
        BY <1>5, <1>6, <3>1, <3>2
    <3>3. CASE x \notin req[r].tokens
        BY <1>6, <2>2, <3>1, <3>3 DEF TokenInv, SharedOK
    <3>4. QED
        BY <3>2, <3>3
  <2>3. QED
      BY <2>1, <2>2 DEF SharedOK
<1>9. UsedGone'
    BY <1>1, <1>6 DEF TokenInv, UsedGone
<1>10. ResetTokenOnce'
  <2> SUFFICES ASSUME NEW x \in Token, spent'[x].uses > 1 PROVE spent'[x].shared
      BY DEF ResetTokenOnce
  <2>1. CASE spent[x].uses > 1
      BY <1>6, <2>1 DEF TokenInv, ResetTokenOnce
  <2>2. CASE ~(spent[x].uses > 1)
    <3>1. x \in req[r].tokens /\ spent[x].uses > 0
        BY <1>4, <1>6, <2>2
    <3>2. QED
        BY <1>6, <3>1 DEF TokenInv, SharedOK
  <2>3. QED
      BY <2>1, <2>2
<1>11. ResetTokenLost'
  <2> SUFFICES ASSUME NEW x \in Token, store'[x] = "gone", spent'[x].uses = 0, ~spent'[x].lost
               PROVE  \E o \in Req : Holds(req'[o], x)
      BY DEF ResetTokenLost, Holds
  <2>1. spent[x].uses = 0 /\ ~spent[x].lost /\ ~Holds(req[r], x)
      BY <1>4, <1>6 DEF Holds
  <2>2. PICK o \in Req : Holds(req[o], x)
      BY <1>1, <2>1 DEF TokenInv, ResetTokenLost, Holds
  <2>3. QED
      BY <1>2, <2>1, <2>2
<1>12. QED
    BY <1>6, <1>7, <1>8, <1>9, <1>10, <1>11 DEF TokenInv

\* A reset token is issued, or runs out.
LEMMA StoreTokens ==
    ASSUME IInv, TokenInv, NEW t \in Token, ForgotPassword(t) \/ ResetExpires(t)
    PROVE  TokenInv'
<1>1. /\ req \in [Req -> Request] /\ store \in [Token -> {"new", "valid", "gone"}]
      /\ req' = req /\ spent \in [Token -> Fate]
    BY DEF IInv, StateOK, TokenInv, ForgotPassword, ResetExpires
<1>2. \A r \in Req : req[r].tokens \subseteq Token
    BY <1>1 DEF Request
<1>3. CASE ForgotPassword(t)
  <2>1. /\ spent' = spent
        /\ \A x \in Token : store[x] = "gone" <=> store'[x] = "gone"
      BY <1>1, <1>3 DEF ForgotPassword
  <2>2. \A r \in Req : req[r].tokens # {} => req[r].op = "reset"
      BY DEF TokenInv, Presented
  <2>3. QED
      BY <1>1, <1>2, <2>1, <2>2, QuietTokens
<1>4. CASE ResetExpires(t)
  <2>1. spent' = [spent EXCEPT ![t].lost = TRUE] /\ store' = [store EXCEPT ![t] = "gone"]
      BY <1>4 DEF ResetExpires
  <2>2. /\ spent' \in [Token -> Fate] /\ spent'[t].lost = TRUE
        /\ \A x \in Token :
              spent'[x].uses = spent[x].uses /\ spent'[x].shared = spent[x].shared
        /\ \A x \in Token \ {t} : spent'[x] = spent[x] /\ store'[x] = store[x]
        /\ store'[t] = "gone"
      BY <1>1, <2>1 DEF Fate
  <2>3. Presented'
      BY <1>1 DEF TokenInv, Presented
  <2>4. SharedOK'
      BY <1>1, <1>2, <2>2 DEF TokenInv, SharedOK
  <2>5. UsedGone' /\ ResetTokenOnce'
      BY <2>2 DEF TokenInv, UsedGone, ResetTokenOnce
  <2>6. ResetTokenLost'
    <3> SUFFICES ASSUME NEW x \in Token, store'[x] = "gone", spent'[x].uses = 0, ~spent'[x].lost
                 PROVE  \E o \in Req : Holds(req[o], x)
        BY <1>1 DEF ResetTokenLost, Holds
    <3>1. x # t
        BY <2>2
    <3>2. QED
        BY <2>2, <3>1 DEF TokenInv, ResetTokenLost, Holds
  <2>7. QED
      BY <2>2, <2>3, <2>4, <2>5, <2>6 DEF TokenInv
<1>5. QED
    BY <1>3, <1>4

LEMMA NextTokens == IInv /\ TokenInv /\ [Next]_vars => TokenInv'
<1> SUFFICES ASSUME IInv, TokenInv, [Next]_vars PROVE TokenInv'
    OBVIOUS
<1>1. ASSUME NEW r \in Req, LoginRead(r) PROVE TokenInv'
    BY <1>1, LoginTokens
<1>2. ASSUME NEW r \in Req, NEW s \in Sid, RefreshRead(r, s) PROVE TokenInv'
    BY <1>2, RefreshTokens
<1>3. ASSUME NEW r \in Req, NEW t \in Token, ResetRead(r, t) PROVE TokenInv'
    BY <1>3, ResetReadTokens
<1>4. ASSUME NEW r \in Req,
             \/ LoginWrite(r) \/ RefreshWrite(r) \/ LogoutWrite(r) \/ Respond(r)
             \/ ResetWrite(r) \/ RevokeAll(r) \/ RevokeDone(r) \/ BurnToken(r)
             \/ \E s \in Sid : RevokeRow(r, s)
             \/ \E s \in Sid : LogoutRead(r, s)
      PROVE  TokenInv'
    BY <1>4, OwnTokenSteps
<1>5. ASSUME NEW r \in Req, Commit(r) \/ Abort(r) PROVE TokenInv'
    BY <1>5, EndTokens
<1>6. ASSUME NEW t \in Token, ForgotPassword(t) \/ ResetExpires(t) PROVE TokenInv'
    BY <1>6, StoreTokens
<1>7. CASE UNCHANGED vars
    BY <1>7
    DEF vars, TokenInv, Presented, SharedOK, UsedGone, ResetTokenOnce, ResetTokenLost
<1>8. QED
    BY <1>1, <1>2, <1>3, <1>4, <1>5, <1>6, <1>7 DEF Next

-----------------------------------------------------------------------------
(* Theorems                                                                 *)

\* The inductive invariant holds throughout.
THEOREM Invariance == Spec => []IInv
    BY InitInv, NextInv, PTL DEF Spec

\* ... and so does the one of the reset tokens.
THEOREM TokenInvariance == Spec => []TokenInv
<1>1. Init => TokenInv
    BY InitTokens
<1>2. IInv /\ TokenInv /\ [Next]_vars => TokenInv'
    BY NextTokens
<1>3. QED
    BY <1>1, <1>2, Invariance, PTL DEF Spec

\* Sessions, reset tokens and requests keep their types through every interleaving
\* of login, refresh, logout and reset.
THEOREM TypeCorrect == Spec => []TypeOK
<1>1. IInv /\ TokenInv => TypeOK
    BY DEF IInv, StateOK, TokenInv, TypeOK
<1>2. QED
    BY <1>1, Invariance, TokenInvariance, PTL

\* The session a refresh issues is never in the table while the one it replaces is
\* live, for any number of requests (auth/service.py:175-179).
THEOREM RotationIsAtomic == Spec => []RotationAtomic
<1>1. IInv => RotationAtomic
    BY DEF IInv
<1>2. QED
    BY <1>1, Invariance, PTL

\* A login has two live sessions only where refreshes of one token overlapped
\* (auth/service.py:167-179).
THEOREM LineageIsSerial == Spec => []SerialLineage
<1>1. IInv => SerialLineage
    BY DEF IInv, LiveForked, SerialLineage
<1>2. QED
    BY <1>1, Invariance, PTL

\* What is live and not of the current password overlapped a reset, for any number
\* of resets and sessions (auth/service.py:227-229, repository.py:44-51).
THEOREM ResetsCutOff == Spec => []ResetCutsOff
<1>1. IInv => ResetCutsOff
  <2> SUFFICES ASSUME IInv, NEW s \in Sid, Live(s), ~session[s].late
               PROVE  session[s].gen = password
      BY DEF ResetCutsOff
  <2>1. session[s].late \in BOOLEAN
      BY DEF IInv, StateOK, Session
  <2>2. session[s].late = FALSE
      BY <2>1
  <2>3. QED
      BY <2>2 DEF IInv, LiveGen
<1>2. QED
    BY <1>1, Invariance, PTL

\* For any number of concurrent resets, a token changes the password a second time only
\* if two resets had read it before either deleted it (auth/service.py:209-233).
THEOREM ResetTokensOnce == Spec => []ResetTokenOnce
<1>1. TokenInv => ResetTokenOnce
    BY DEF TokenInv
<1>2. QED
    BY <1>1, TokenInvariance, PTL

\* A token that is gone and has changed nothing ran out, or the reset that deleted it
\* has yet to commit or has failed since, for any number of resets and wherever they
\* crash (auth/service.py:230-233, session.py:70).
THEOREM ResetTokensLost == Spec => []ResetTokenLost
<1>1. TokenInv => ResetTokenLost
    BY DEF TokenInv
<1>2. QED
    BY <1>1, TokenInvariance, PTL

\* A revoked session is never live again and no jti is used twice: the session it
\* replaced, its login and its password stay what they were when it was issued
\* (auth/service.py:142-150, 175, 190).
THEOREM RevokedForGood ==
    Spec => [][\A s \in Sid :
                 session[s].state # "none" =>
                     /\ session[s].state = "revoked" => session'[s].state = "revoked"
                     /\ session'[s].state # "none"
                     /\ session'[s].parent = session[s].parent
                     /\ session'[s].root = session[s].root
                     /\ session'[s].gen = session[s].gen]_vars
<1> DEFINE Stays == \A s \in Sid :
                        session[s].state # "none" =>
                            /\ session[s].state = "revoked" => session'[s].state = "revoked"
                            /\ session'[s].state # "none"
                            /\ session'[s].parent = session[s].parent
                            /\ session'[s].root = session[s].root
                            /\ session'[s].gen = session[s].gen
<1>1. IInv /\ [Next]_vars => [Stays]_vars
  <2> SUFFICES ASSUME IInv, Next PROVE Stays
      OBVIOUS
  <2>1. ASSUME NEW r \in Req, Commit(r) PROVE Stays
    <3>1. \A s \in Sid : session[s].state # "none" => s # req[r].jti
        BY DEF IInv, FreshJti
    <3>2. QED
        BY <2>1, <3>1, CommitRows
  <2>2. CASE session' = session
      BY <2>2
  <2>3. session' = session \/ \E r \in Req : Commit(r)
      BY DEF Next, LoginRead, LoginWrite, RefreshRead, RefreshWrite, LogoutRead,
             LogoutWrite, RevokeOwn, ForgotPassword, ResetExpires, ResetRead, ResetWrite,
             RevokeAll, RevokeRow, RevokeDone, BurnToken, Respond, Abort
  <2>4. QED
      BY <2>1, <2>2, <2>3
<1>2. QED
    BY <1>1, Invariance, PTL DEF Spec
=============================================================================
