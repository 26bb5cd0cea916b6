-------------------------- MODULE RestClientProofs --------------------------
(***************************************************************************)
(* Proofs, for any number of threads and tokens, of the properties of      *)
(* RestClient: IInv is inductive, and with it every step is one of         *)
(* RestCall or leaves the stage and the outcome of each call alone.        *)
(***************************************************************************)
EXTENDS RestClient, TLAPS

USE DEF At

\* What IInv requires of the request of one thread.
ConnOK(t) ==
  ExecutedOK(t) /\ LoginOK(t) /\ RetryOK(t) /\ (Alone(t) => OwnHeader(t))

\* A step of t that sets the request of t to c.
Sets(t, c) == c \in Conns /\ conn' = [conn EXCEPT ![t] = c]

\* Where the tokens of a request c of t come from.
Carries(t, c) ==
  /\ c.sent \in {NoToken, conn[t].sent, header[SessionOf[t]]}
  /\ c.refused \in {NoToken, conn[t].refused, conn[t].sent}
  /\ c.pc = "update" => c.mine \in unused

\* What a step of t writes into the header of its session: no token, or that of its
\* own login.
Writes(t) ==
  \/ header' = header
  \/ header' = [header EXCEPT ![SessionOf[t]] = NoToken]
  \/ At(t, "update") /\ header' = [header EXCEPT ![SessionOf[t]] = conn[t].mine]

-----------------------------------------------------------------------------
(* The invariant                                                            *)

\* The first login leaves the invariant true of all threads.
LEMMA InitIInv == Init => IInv
<1>. SUFFICES ASSUME Init PROVE IInv
  OBVIOUS
<1>1. /\ header \in [Sessions -> Tokens]
      /\ valid = {header[s] : s \in Sessions} /\ unused = Tokens \ valid
      /\ conn = [t \in Threads |-> Plain("idle", 0, "none")]
  BY DEF Init
<1>2. TypeOK
  BY <1>1 DEF TypeOK, Conns, Plain
<1>3. ASSUME NEW t \in Threads PROVE ConnOK(t)
  BY <1>1, TokenAssumption
     DEF ConnOK, ExecutedOK, LoginOK, RetryOK, OwnHeader, Plain
<1>. QED BY <1>1, <1>2, <1>3 DEF IInv, ConnOK

\* The request of a thread is a record of the type, and its fields are typed.
LEMMA Fields ==
  ASSUME TypeOK, NEW t \in Threads
  PROVE  /\ conn[t] \in Conns
         /\ conn[t].mine \in Tokens \cup {NoToken}
         /\ conn[t].executed \in Nat
         /\ conn[t].again \in BOOLEAN
BY DEF TypeOK, Conns

\* A thread that waits keeps what the invariant says of it, if the steps of others
\* hand out, carry and write tokens as they may, and leave it the header when it is
\* alone.
LEMMA OthersUndisturbed ==
  ASSUME IInv, NEW t \in Threads, conn'[t] = conn[t],
         unused' \subseteq unused, valid' \subseteq valid \cup (unused \ unused'),
         Alone(t) => header'[SessionOf[t]] = header[SessionOf[t]],
         conn[t].refused # NoToken /\ header[SessionOf[t]] # conn[t].refused
           => header'[SessionOf[t]] # conn[t].refused,
         conn[t].pc = "update" =>
           /\ \A s \in Sessions : header'[s] # conn[t].mine
           /\ \A s \in Threads :
                /\ s # t /\ conn'[s].pc = "update" => conn'[s].mine # conn[t].mine
                /\ conn[t].mine \notin {conn'[s].sent, conn'[s].refused}
  PROVE  ConnOK(t)'
<1>1. ConnOK(t) /\ TypeOK
  BY DEF IInv, ConnOK
<1>2. ExecutedOK(t)'
  BY <1>1 DEF ConnOK, ExecutedOK
<1>3. LoginOK(t)'
  BY <1>1 DEF ConnOK, LoginOK
<1>4. RetryOK(t)'
  BY <1>1 DEF ConnOK, RetryOK
<1>5. (Alone(t) => OwnHeader(t))'
  BY <1>1 DEF ConnOK, OwnHeader, Alone
<1>. QED BY <1>2, <1>3, <1>4, <1>5 DEF ConnOK

\* A step that sets the request of one thread keeps the invariant, if it keeps it
\* for that thread.
LEMMA StepKeeps ==
  ASSUME IInv, NEW t \in Threads, NEW c, Sets(t, c), Carries(t, c), Writes(t),
         unused' \subseteq unused, valid' \subseteq valid \cup (unused \ unused'),
         ConnOK(t)'
  PROVE  IInv'
<1>1. TypeOK /\ ConnOK(t) /\ unused \subseteq Tokens /\ NoToken \notin unused
  BY TokenAssumption DEF IInv, TypeOK, ConnOK
<1>2. conn[t].mine \in Tokens \cup {NoToken}
  BY <1>1, Fields
<1>3. TypeOK' /\ conn'[t] = c
  <2>1. header' \in [Sessions -> Tokens \cup {NoToken}]
    BY <1>1, <1>2, SessionAssumption DEF TypeOK, Writes
  <2>. QED BY <1>1, <2>1 DEF TypeOK, Sets
<1>4. ASSUME NEW s \in Sessions
      PROVE  header'[s] \in {header[s], NoToken}
               \/ (conn[t].pc = "update" /\ header'[s] = conn[t].mine)
  BY <1>1, SessionAssumption DEF TypeOK, Writes
<1>5. conn[t].pc = "update" =>
        /\ conn[t].mine \in Tokens \ unused
        /\ \A s \in Threads :
             /\ conn[t].mine \notin {conn[s].sent, conn[s].refused}
  BY <1>1 DEF ConnOK, LoginOK
<1>6. \A s \in Sessions : header'[s] \notin unused'
  BY <1>1, <1>4, <1>5 DEF IInv
<1>7. ASSUME NEW s \in Threads, s # t PROVE ConnOK(s)'
  <2>1. conn'[s] = conn[s] /\ ConnOK(s)
    BY <1>1, <1>7 DEF Sets, TypeOK, IInv, ConnOK
  <2>2. Alone(s) => header'[SessionOf[s]] = header[SessionOf[s]]
    BY <1>1, <1>7, SessionAssumption DEF TypeOK, Alone, Writes
  <2>3. conn[s].refused # NoToken /\ header[SessionOf[s]] # conn[s].refused
          => header'[SessionOf[s]] # conn[s].refused
    BY <1>4, <1>5, SessionAssumption
  <2>4. ASSUME conn[s].pc = "update"
        PROVE  /\ \A r \in Sessions : header'[r] # conn[s].mine
               /\ \A r \in Threads :
                    /\ r # s /\ conn'[r].pc = "update" => conn'[r].mine # conn[s].mine
                    /\ conn[s].mine \notin {conn'[r].sent, conn'[r].refused}
    <3>1. /\ conn[s].mine \in Tokens \ unused /\ conn[s].mine # NoToken
          /\ \A r \in Sessions : header[r] # conn[s].mine
          /\ \A r \in Threads :
               /\ r # s /\ conn[r].pc = "update" => conn[r].mine # conn[s].mine
               /\ conn[s].mine \notin {conn[r].sent, conn[r].refused}
      BY <2>1, <2>4, TokenAssumption DEF ConnOK, LoginOK
    <3>2. \A r \in Sessions : header'[r] # conn[s].mine
      BY <1>4, <1>7, <3>1
    <3>3. ASSUME NEW r \in Threads
          PROVE  /\ r # s /\ conn'[r].pc = "update" => conn'[r].mine # conn[s].mine
                 /\ conn[s].mine \notin {conn'[r].sent, conn'[r].refused}
      <4>1. CASE r = t
        BY <1>3, <1>7, <3>1, <4>1, SessionAssumption DEF Carries
      <4>2. CASE r # t
        <5>1. conn'[r] = conn[r]
          BY <1>1, <4>2 DEF Sets, TypeOK
        <5>. QED BY <3>1, <5>1
      <4>. QED BY <4>1, <4>2
    <3>. QED BY <3>2, <3>3
  <2>. QED BY <2>1, <2>2, <2>3, <2>4, OthersUndisturbed
<1>. QED BY <1>3, <1>6, <1>7 DEF IInv, ConnOK

\* A call that ends leaves a thread of which little is required.
LEMMA EndStep ==
  ASSUME IInv, NEW t \in Threads, NEW o \in {"returned", "raised", "unauthorized"},
         End(t, o), unused' \subseteq unused
  PROVE  /\ ConnOK(t)'
         /\ \E c : Sets(t, c) /\ Carries(t, c)
<1>1. conn[t].executed \in {0, 1} /\ conn \in [Threads -> Conns]
  BY DEF IInv, TypeOK, ExecutedOK
<1>. DEFINE c == Plain("idle", conn[t].executed, o)
<1>2. c \in Conns /\ conn' = [conn EXCEPT ![t] = c]
  BY <1>1 DEF Conns, End, Plain
<1>3. conn'[t] = c
  BY <1>1, <1>2
<1>4. NoToken \notin unused'
  BY TokenAssumption DEF IInv, TypeOK
<1>5. ConnOK(t)'
  BY <1>1, <1>3, <1>4 DEF ConnOK, ExecutedOK, LoginOK, RetryOK, OwnHeader, Plain
<1>6. Sets(t, c) /\ Carries(t, c)
  BY <1>2 DEF Sets, Carries, Plain
<1>. QED BY <1>5, <1>6

\* The reply and the execution of a request agree.
LEMMA RepliedStep ==
  ASSUME IInv, NEW t \in Threads, At(t, "send"), UNCHANGED <<header, valid, unused>>,
         NEW reply \in {"expected", "unexpected", "unauthorized"}, NEW n \in {0, 1},
         Replied(t, reply, n),
         reply = "expected" => n = 1,
         reply = "unauthorized" => n = 0 /\ ~Authorized(t)
  PROVE  IInv'
<1>1. /\ conn[t] \in Conns /\ ConnOK(t) /\ conn \in [Threads -> Conns]
      /\ header[SessionOf[t]] \in (Tokens \cup {NoToken}) \ unused
  BY Fields, SessionAssumption DEF IInv, TypeOK, ConnOK
<1>2. conn[t].executed = 0
  BY <1>1 DEF ConnOK, ExecutedOK
<1>. DEFINE c == [conn[t] EXCEPT !.pc = "receive", !.reply = reply,
                                 !.sent = header[SessionOf[t]],
                                 !.executed = conn[t].executed + n]
<1>3. c \in Conns /\ conn' = [conn EXCEPT ![t] = c]
  <2>1. conn[t].executed + n \in Nat
    BY <1>2
  <2>2. c \in Conns
    BY <1>1, <2>1 DEF Conns
  <2>. QED BY <2>2 DEF Replied
<1>4. /\ c.pc = "receive" /\ c.reply = reply /\ c.executed = n
      /\ c.sent = header[SessionOf[t]] /\ c.refused = conn[t].refused
      /\ c.again = conn[t].again /\ c.mine = conn[t].mine /\ c.outcome = conn[t].outcome
  BY <1>1, <1>2 DEF Conns
<1>5. conn'[t] = c
  BY <1>1, <1>3
<1>. HIDE DEF c
<1>6. ExecutedOK(t)' /\ LoginOK(t)'
  BY <1>1, <1>4, <1>5 DEF ConnOK, ExecutedOK, LoginOK
<1>7. RetryOK(t)'
  BY <1>1, <1>4, <1>5 DEF ConnOK, RetryOK, Authorized
<1>8. (Alone(t) => OwnHeader(t))'
  BY <1>1, <1>4, <1>5 DEF ConnOK, OwnHeader, Alone
<1>9. Sets(t, c) /\ Carries(t, c) /\ Writes(t)
  BY <1>3, <1>4 DEF Sets, Carries, Writes
<1>. QED BY <1>6, <1>7, <1>8, <1>9, StepKeeps DEF ConnOK

\* Every step of a thread keeps the invariant.
LEMMA ThreadKeeps ==
  ASSUME IInv, NEW t \in Threads, Begin(t) \/ Step(t)
  PROVE  IInv'
<1>1. /\ conn[t] \in Conns /\ ConnOK(t) /\ conn \in [Threads -> Conns]
      /\ header \in [Sessions -> Tokens \cup {NoToken}] /\ unused \subseteq Tokens \ valid
      /\ NoToken \notin unused
  BY Fields, TokenAssumption DEF IInv, TypeOK, ConnOK
<1>2. ASSUME NEW o \in {"returned", "raised", "unauthorized"}, End(t, o),
             header' = header, unused' \subseteq unused,
             valid' \subseteq valid \cup (unused \ unused')
      PROVE  IInv'
  BY <1>2, EndStep, StepKeeps DEF Writes
<1>3. CASE Begin(t)
  <2>. DEFINE c == Plain("send", 0, "none")
  <2>1. Sets(t, c) /\ Carries(t, c) /\ Writes(t) /\ conn'[t] = c
    BY <1>1, <1>3 DEF Sets, Carries, Writes, Begin, Conns, Plain
  <2>2. ConnOK(t)'
    BY <1>1, <1>3, <2>1
       DEF Begin, ConnOK, ExecutedOK, LoginOK, RetryOK, OwnHeader, Plain
  <2>. QED BY <1>1, <1>3, <2>1, <2>2, StepKeeps DEF Begin
<1>4. CASE Send(t)
  BY <1>2, <1>4, RepliedStep DEF Send
<1>5. CASE Receive(t)
  <2>1. ASSUME conn[t].reply = "unauthorized",
               conn' = [conn EXCEPT ![t] = [@ EXCEPT !.pc = "pop", !.reply = "none",
                                                     !.refused = conn[t].sent]],
               ~conn[t].again, UNCHANGED <<header, valid, unused>>
        PROVE  IInv'
    <3>. DEFINE c == [conn[t] EXCEPT !.pc = "pop", !.reply = "none",
                                     !.refused = conn[t].sent]
    <3>1. Sets(t, c) /\ conn'[t] = c
      BY <1>1, <2>1 DEF Sets, Conns
    <3>2. /\ ~c.again /\ c.pc = "pop" /\ c.reply = "none"
          /\ c.executed = 0 /\ c.outcome = "none"
          /\ c.sent = conn[t].sent /\ c.refused = conn[t].sent
      BY <1>1, <2>1 DEF Conns, ConnOK, ExecutedOK
    <3>. HIDE DEF c
    <3>3. ConnOK(t)'
      BY <1>1, <2>1, <3>1, <3>2 DEF ConnOK, ExecutedOK, LoginOK, RetryOK, OwnHeader
    <3>4. Carries(t, c) /\ Writes(t)
      BY <2>1, <3>2 DEF Carries, Writes
    <3>. QED BY <1>1, <2>1, <3>1, <3>3, <3>4, StepKeeps
  <2>. QED BY <1>2, <1>5, <2>1 DEF Receive
<1>6. CASE PopHeader(t)
  <2>. DEFINE c == [conn[t] EXCEPT !.pc = "login"]
  <2>1. Sets(t, c) /\ conn'[t] = c
    BY <1>1, <1>6 DEF Sets, Conns, PopHeader
  <2>2. /\ c.outcome = conn[t].outcome /\ c.pc = "login" /\ c.reply = conn[t].reply
        /\ c.executed = conn[t].executed /\ c.again = conn[t].again
        /\ c.mine = conn[t].mine /\ c.sent = conn[t].sent /\ c.refused = conn[t].refused
    BY <1>1 DEF Conns
  <2>. HIDE DEF c
  <2>3. header'[SessionOf[t]] = NoToken /\ UNCHANGED <<valid, unused>>
    BY <1>1, <1>6, SessionAssumption DEF PopHeader
  <2>4. ConnOK(t)'
    BY <1>1, <1>6, <2>1, <2>2, <2>3
       DEF PopHeader, ConnOK, ExecutedOK, LoginOK, RetryOK, OwnHeader
  <2>5. Carries(t, c) /\ Writes(t)
    BY <1>6, <2>2 DEF Carries, Writes, PopHeader
  <2>. QED BY <2>1, <2>3, <2>4, <2>5, StepKeeps
<1>7. CASE Login(t)
  <2>1. ASSUME NEW token \in unused,
               valid' = valid \cup {token}, unused' = unused \ {token}, header' = header,
               conn' = [conn EXCEPT ![t] = [@ EXCEPT !.pc = "update", !.mine = token]]
        PROVE  IInv'
    <3>. DEFINE c == [conn[t] EXCEPT !.pc = "update", !.mine = token]
    <3>1. Sets(t, c) /\ conn'[t] = c
      BY <1>1, <2>1 DEF Sets, Conns
    <3>2. /\ c.outcome = conn[t].outcome /\ c.pc = "update" /\ c.mine = token
          /\ c.reply = conn[t].reply /\ c.executed = conn[t].executed
          /\ c.sent = conn[t].sent /\ c.refused = conn[t].refused
          /\ c.again = conn[t].again
      BY <1>1 DEF Conns
    <3>. HIDE DEF c
    <3>3. conn[t].pc = "login" /\ conn[t].reply = "none" /\ token \in Tokens
      BY <1>1, <1>7, <2>1 DEF Login, ConnOK, ExecutedOK, Conns
    <3>4. ASSUME NEW s \in Threads
          PROVE  /\ s # t /\ conn'[s].pc = "update" => conn'[s].mine # token
                 /\ token \notin {conn'[s].sent, conn'[s].refused}
      <4>1. LoginOK(s) /\ RetryOK(s) /\ LoginOK(t) /\ RetryOK(t)
        BY DEF IInv
      <4>2. CASE s = t
        BY <2>1, <3>1, <3>2, <4>1, <4>2 DEF RetryOK
      <4>3. CASE s # t
        <5>1. conn'[s] = conn[s]
          BY <1>1, <2>1, <4>3
        <5>. QED BY <2>1, <4>1, <5>1 DEF LoginOK, RetryOK
      <4>. QED BY <4>2, <4>3
    <3>5. \A s \in Sessions : header'[s] # token
      BY <2>1 DEF IInv
    <3>6. ExecutedOK(t)' /\ LoginOK(t)'
      BY <1>1, <2>1, <3>1, <3>2, <3>3, <3>4, <3>5 DEF ConnOK, ExecutedOK, LoginOK
    <3>7. RetryOK(t)'
      BY <1>1, <2>1, <3>1, <3>2, <3>3 DEF ConnOK, RetryOK
    <3>8. (Alone(t) => OwnHeader(t))'
      BY <1>1, <3>1, <3>2 DEF ConnOK, OwnHeader, Alone
    <3>9. Carries(t, c) /\ Writes(t)
      BY <2>1, <3>2 DEF Carries, Writes
    <3>. QED BY <1>1, <2>1, <3>1, <3>6, <3>7, <3>8, <3>9, StepKeeps DEF ConnOK
  <2>2. ASSUME NEW token \in unused,
               valid' = valid \cup {token}, unused' = unused \ {token}, header' = header,
               End(t, "raised")
        PROVE  IInv'
    BY <1>2, <2>2
  <2>. QED BY <1>2, <1>7, <2>1, <2>2 DEF Login
<1>8. CASE UpdateHeader(t)
  <2>. DEFINE c == [conn[t] EXCEPT !.pc = "send", !.again = TRUE]
  <2>1. Sets(t, c) /\ conn'[t] = c
    BY <1>1, <1>8 DEF Sets, Conns, UpdateHeader
  <2>2. /\ c.outcome = conn[t].outcome /\ c.pc = "send" /\ c.reply = conn[t].reply
        /\ c.executed = conn[t].executed /\ c.mine = conn[t].mine
        /\ c.sent = conn[t].sent /\ c.refused = conn[t].refused
    BY <1>1 DEF Conns
  <2>. HIDE DEF c
  <2>3. header'[SessionOf[t]] = conn[t].mine
    BY <1>1, <1>8, SessionAssumption DEF UpdateHeader
  <2>4. conn[t].pc = "update" /\ conn[t].reply = "none" /\ UNCHANGED <<valid, unused>>
    BY <1>1, <1>8 DEF UpdateHeader, ConnOK, ExecutedOK, Conns
  <2>5. ExecutedOK(t)' /\ LoginOK(t)' /\ OwnHeader(t)'
    BY <1>1, <2>1, <2>2, <2>3, <2>4 DEF ConnOK, ExecutedOK, LoginOK, OwnHeader
  <2>6. RetryOK(t)'
    BY <1>1, <2>1, <2>2, <2>3, <2>4 DEF ConnOK, LoginOK, RetryOK
  <2>7. Carries(t, c) /\ Writes(t)
    BY <1>8, <2>2 DEF Carries, Writes, UpdateHeader
  <2>. QED BY <2>1, <2>4, <2>5, <2>6, <2>7, StepKeeps DEF ConnOK
<1>. QED BY <1>3, <1>4, <1>5, <1>6, <1>7, <1>8 DEF Step

\* IInv is an invariant of the REST client.
THEOREM Invariance == Spec => []IInv
<1>1. ASSUME IInv, UNCHANGED <<header, conn, unused>>, valid' \subseteq valid
      PROVE  IInv'
  <2>1. TypeOK' /\ \A s \in Sessions : header'[s] \notin unused'
    BY <1>1 DEF IInv, TypeOK
  <2>2. ASSUME NEW t \in Threads PROVE ConnOK(t)'
    BY <1>1 DEF IInv, ConnOK, ExecutedOK, LoginOK, RetryOK, OwnHeader, Alone
  <2>. QED BY <2>1, <2>2 DEF IInv, ConnOK
<1>2. ASSUME IInv, [Next]_vars PROVE IInv'
  <2>1. CASE \E t \in Threads : Begin(t) \/ Step(t)
    BY <1>2, <2>1, ThreadKeeps
  <2>2. CASE \E token \in Tokens : Revoke(token)
    BY <1>1, <1>2, <2>2 DEF Revoke
  <2>3. CASE UNCHANGED vars
    BY <1>1, <1>2, <2>3 DEF vars
  <2>. QED BY <1>2, <2>1, <2>2, <2>3 DEF Next
<1>. QED BY InitIInv, <1>2, PTL DEF Spec

\* No request is executed twice, in spite of the retry after a 401.
THEOREM RetryIsSafe == Spec => []AtMostOnce
<1>1. ASSUME IInv, NEW t \in Threads PROVE conn[t].executed <= 1
  <2>1. conn[t].executed \in {0, 1}
    BY <1>1 DEF IInv, ExecutedOK
  <2>. QED BY <2>1
<1>2. IInv => AtMostOnce
  BY <1>1 DEF AtMostOnce
<1>. QED BY <1>2, Invariance, PTL

\* What a step of t may do to its request: begin it, get a reply, go on without
\* an effect on the server, or end it.
Begins(t, c) ==
  conn[t].pc = "idle" /\ c.pc = "send" /\ c.executed = 0 /\ c.outcome = "none"

GetsReply(t, c) ==
  conn[t].pc = "send" /\ c.pc = "receive" /\ c.executed \in {0, 1} /\ c.outcome = "none"

GoesOn(t, c) ==
  /\ conn[t].pc \in {"receive", "pop", "login", "update"} /\ conn[t].executed = 0
  /\ c.pc # "idle" /\ c.executed = 0 /\ c.outcome = "none"

Finishes(t, c) ==
  /\ conn[t].pc # "idle" /\ c.pc = "idle"
  /\ c.outcome \in {"returned", "raised", "unauthorized"}
  /\ c.outcome = "returned" => conn[t].reply = "expected"
  /\ c.outcome = "unauthorized" /\ conn[t].pc # "login"
       => conn[t].reply = "unauthorized" /\ conn[t].again

\* Each step does one of these.
LEMMA Effects ==
  ASSUME IInv, NEW t \in Threads, Begin(t) \/ Step(t)
  PROVE  \E c : /\ Sets(t, c)
                /\ Begins(t, c) \/ GetsReply(t, c) \/ GoesOn(t, c) \/ Finishes(t, c)
<1>1. conn \in [Threads -> Conns] /\ conn[t] \in Conns /\ ExecutedOK(t)
        /\ unused \subseteq Tokens /\ header[SessionOf[t]] \in Tokens \cup {NoToken}
  BY Fields, SessionAssumption DEF IInv, TypeOK
<1>2. ASSUME NEW o \in {"returned", "raised", "unauthorized"}, End(t, o),
             conn[t].pc # "idle",
             o = "returned" => conn[t].reply = "expected",
             o = "unauthorized" /\ conn[t].pc # "login"
               => conn[t].reply = "unauthorized" /\ conn[t].again
      PROVE  \E c : Sets(t, c) /\ Finishes(t, c)
  <2>. DEFINE c == Plain("idle", conn[t].executed, o)
  <2>1. c \in Conns /\ c.pc = "idle" /\ c.outcome = o
    BY <1>1 DEF Conns, Plain
  <2>2. conn' = [conn EXCEPT ![t] = c]
    BY <1>2 DEF End
  <2>. QED BY <1>2, <2>1, <2>2 DEF Sets, Finishes
<1>3. ASSUME NEW reply \in {"expected", "unexpected", "unauthorized"}, NEW n \in {0, 1},
             conn[t].pc = "send", Replied(t, reply, n)
      PROVE  \E c : Sets(t, c) /\ GetsReply(t, c)
  <2>. DEFINE c == [conn[t] EXCEPT !.pc = "receive", !.reply = reply,
                                   !.sent = header[SessionOf[t]],
                                   !.executed = conn[t].executed + n]
  <2>1. conn[t].executed = 0 /\ conn[t].outcome = "none"
    BY <1>1, <1>3 DEF ExecutedOK
  <2>2. c \in Conns /\ c.pc = "receive" /\ c.outcome = "none" /\ c.executed = n
    <3>1. conn[t].executed + n = n /\ n \in Nat
      BY <2>1
    <3>. QED BY <1>1, <2>1, <3>1 DEF Conns
  <2>3. conn' = [conn EXCEPT ![t] = c]
    BY <1>3 DEF Replied
  <2>. QED BY <1>3, <2>2, <2>3 DEF Sets, GetsReply
<1>4. ASSUME NEW c \in Conns, conn' = [conn EXCEPT ![t] = c],
             conn[t].pc \in {"receive", "pop", "login", "update"}, conn[t].executed = 0,
             c.pc # "idle", c.executed = conn[t].executed, c.outcome = conn[t].outcome
      PROVE  \E d : Sets(t, d) /\ GoesOn(t, d)
  <2>1. c.outcome = "none"
    BY <1>1, <1>4 DEF ExecutedOK
  <2>. QED BY <1>4, <2>1 DEF Sets, GoesOn
<1>5. CASE Begin(t)
  <2>. DEFINE c == Plain("send", 0, "none")
  <2>1. Sets(t, c) /\ Begins(t, c)
    BY <1>5 DEF Begin, Sets, Begins, Conns, Plain
  <2>. QED BY <2>1
<1>6. CASE Send(t)
  BY <1>2, <1>3, <1>6 DEF Send
<1>7. CASE Receive(t)
  <2>1. ASSUME conn[t].reply = "unauthorized",
               conn' = [conn EXCEPT ![t] = [@ EXCEPT !.pc = "pop", !.reply = "none",
                                                     !.refused = conn[t].sent]]
        PROVE  \E d : Sets(t, d) /\ GoesOn(t, d)
    <3>. DEFINE c == [conn[t] EXCEPT !.pc = "pop", !.reply = "none",
                                     !.refused = conn[t].sent]
    <3>1. c \in Conns /\ c.pc = "pop" /\ c.executed = conn[t].executed
            /\ c.outcome = conn[t].outcome
      BY <1>1 DEF Conns
    <3>2. conn[t].executed = 0 /\ conn[t].pc = "receive"
      BY <1>1, <2>1 DEF ExecutedOK
    <3>. HIDE DEF c
    <3>3. conn' = [conn EXCEPT ![t] = c]
      BY <2>1 DEF c
    <3>. QED BY <1>4, <3>1, <3>2, <3>3
  <2>. QED BY <1>2, <1>7, <2>1 DEF Receive
<1>8. CASE PopHeader(t)
  <2>. DEFINE c == [conn[t] EXCEPT !.pc = "login"]
  <2>1. c \in Conns /\ c.pc = "login" /\ c.executed = conn[t].executed
          /\ c.outcome = conn[t].outcome
    BY <1>1 DEF Conns
  <2>2. conn[t].executed = 0 /\ conn[t].pc = "pop" /\ conn' = [conn EXCEPT ![t] = c]
    BY <1>1, <1>8 DEF ExecutedOK, PopHeader
  <2>. HIDE DEF c
  <2>. QED BY <1>4, <2>1, <2>2
<1>9. CASE Login(t)
  <2>1. ASSUME NEW token \in unused,
               conn' = [conn EXCEPT ![t] = [@ EXCEPT !.pc = "update", !.mine = token]]
        PROVE  \E d : Sets(t, d) /\ GoesOn(t, d)
    <3>. DEFINE c == [conn[t] EXCEPT !.pc = "update", !.mine = token]
    <3>1. c \in Conns /\ c.pc = "update" /\ c.executed = conn[t].executed
            /\ c.outcome = conn[t].outcome
      BY <1>1, <2>1 DEF Conns
    <3>2. conn[t].executed = 0 /\ conn[t].pc = "login"
      BY <1>1, <1>9 DEF ExecutedOK, Login
    <3>. HIDE DEF c
    <3>3. conn' = [conn EXCEPT ![t] = c]
      BY <2>1 DEF c
    <3>. QED BY <1>4, <3>1, <3>2, <3>3
  <2>. QED BY <1>2, <1>9, <2>1 DEF Login
<1>10. CASE UpdateHeader(t)
  <2>. DEFINE c == [conn[t] EXCEPT !.pc = "send", !.again = TRUE]
  <2>1. c \in Conns /\ c.pc = "send" /\ c.executed = conn[t].executed
          /\ c.outcome = conn[t].outcome
    BY <1>1 DEF Conns
  <2>2. conn[t].executed = 0 /\ conn[t].pc = "update" /\ conn' = [conn EXCEPT ![t] = c]
    BY <1>1, <1>10 DEF ExecutedOK, UpdateHeader
  <2>. HIDE DEF c
  <2>. QED BY <1>4, <2>1, <2>2
<1>. QED BY <1>5, <1>6, <1>7, <1>8, <1>9, <1>10 DEF Step

\* Whatever the threads of a session do to its header, a 401 reaches the caller only
\* from a login that was turned away, or after two requests that carried different
\* tokens, or none; to a thread that is alone, the second was that of its own login.
THEOREM UnauthorizedIsExplained == Spec => UnauthorizedHasCause
<1>. DEFINE Cause(t) ==
        \/ conn[t].pc = "login"
        \/ /\ conn[t].again /\ conn[t].mine \in Tokens
           /\ conn[t].sent \notin valid
           /\ conn[t].sent = conn[t].refused => conn[t].sent = NoToken
           /\ Alone(t) => conn[t].sent = conn[t].mine
<1>1. ASSUME IInv, [Next]_vars, NEW t \in Threads,
             conn[t].pc # "idle", conn'[t].outcome = "unauthorized"
      PROVE  Cause(t)
  <2>1. /\ conn \in [Threads -> Conns] /\ conn[t] \in Conns
        /\ ExecutedOK(t) /\ LoginOK(t) /\ RetryOK(t) /\ (Alone(t) => OwnHeader(t))
    BY <1>1, Fields DEF IInv, TypeOK
  <2>2. conn[t].outcome = "none"
    BY <1>1, <2>1 DEF ExecutedOK
  <2>3. PICK s \in Threads : Begin(s) \/ Step(s)
    BY <1>1, <2>2 DEF Next, vars, Revoke
  <2>4. s = t
    <3>1. PICK d : Sets(s, d)
      BY <1>1, <2>3, Effects
    <3>2. s # t => conn'[t] = conn[t]
      BY <2>1, <3>1 DEF Sets
    <3>. QED BY <1>1, <2>2, <3>2
  <2>5. conn[t].pc = "login" \/ (conn[t].reply = "unauthorized" /\ conn[t].again)
    <3>1. PICK c : Sets(t, c) /\ (Begins(t, c) \/ GetsReply(t, c) \/ GoesOn(t, c)
                                     \/ Finishes(t, c))
      BY <1>1, <2>3, <2>4, Effects
    <3>2. c.outcome = "unauthorized"
      BY <1>1, <2>1, <3>1 DEF Sets
    <3>. QED BY <3>1, <3>2 DEF Begins, GetsReply, GoesOn, Finishes
  <2>6. CASE conn[t].reply = "unauthorized" /\ conn[t].again
    <3>1. conn[t].pc = "receive"
      BY <2>1, <2>6 DEF ExecutedOK
    <3>. QED BY <2>1, <2>6, <3>1 DEF LoginOK, RetryOK, OwnHeader
  <2>. QED BY <2>5, <2>6
<1>2. IInv /\ [Next]_vars =>
        [\A t \in Threads :
           LET c == conn[t] IN
             ~At(t, "idle") /\ conn'[t].outcome = "unauthorized" =>
               \/ At(t, "login")
               \/ /\ c.again /\ c.mine \in Tokens
                  /\ c.sent \notin valid
                  /\ c.sent = c.refused => c.sent = NoToken
                  /\ Alone(t) => c.sent = c.mine]_vars
  BY <1>1
<1>. QED BY <1>2, Invariance, PTL DEF Spec, UnauthorizedHasCause

-----------------------------------------------------------------------------
(* Refinement                                                               *)

\* What the callers see of the request of t after a step that sets it to c.
LEMMA Seen ==
  ASSUME IInv, NEW t \in Threads, NEW c, Sets(t, c)
  PROVE  /\ \A s \in Threads : s # t => StageOf(s)' = StageOf(s) /\ OutcomeOf(s)' = OutcomeOf(s)
         /\ StageOf(t)' = IF c.pc = "idle" THEN "idle"
                          ELSE IF c.executed = 0 THEN "open" ELSE "executed"
         /\ OutcomeOf(t)' = IF c.outcome = "unauthorized" THEN "raised" ELSE c.outcome
BY DEF IInv, TypeOK, Sets, StageOf, OutcomeOf

\* A move of t is a move of RestCall.
LEMMA Moves ==
  ASSUME IInv, NEW t \in Threads, NEW c, Sets(t, c),
         NEW to, StageOf(t)' = to, NEW o, OutcomeOf(t)' = o
  PROVE  Promise!Move(t, StageOf(t), to, o)
BY Seen DEF Promise!Move

\* RestClient implements RestCall, for all threads and tokens.
THEOREM Refinement == Spec => ImplementsRestCall
<1>. DEFINE stage == [t \in Threads |-> StageOf(t)]
            outcome == [t \in Threads |-> OutcomeOf(t)]
<1>1. Init => Promise!Init
  BY DEF Init, Promise!Init, StageOf, OutcomeOf, Plain
<1>2. ASSUME UNCHANGED conn PROVE UNCHANGED <<stage, outcome>>
  BY <1>2 DEF StageOf, OutcomeOf
<1>3. ASSUME IInv, NEW t \in Threads, Begin(t) \/ Step(t)
      PROVE  Promise!Next \/ UNCHANGED <<stage, outcome>>
  <2>1. conn[t] \in Conns /\ ExecutedOK(t) /\ conn[t].executed \in {0, 1}
    BY <1>3, Fields DEF IInv, ExecutedOK
  <2>2. PICK c : Sets(t, c) /\ (Begins(t, c) \/ GetsReply(t, c) \/ GoesOn(t, c)
                                   \/ Finishes(t, c))
    BY <1>3, Effects
  <2>. DEFINE from == StageOf(t)
              to == IF c.pc = "idle" THEN "idle"
                    ELSE IF c.executed = 0 THEN "open" ELSE "executed"
              o == IF c.outcome = "unauthorized" THEN "raised" ELSE c.outcome
  <2>3. Promise!Move(t, from, to, o)
    BY <1>3, <2>2, Seen, Moves
  <2>4. from = IF conn[t].pc = "idle" THEN "idle"
               ELSE IF conn[t].executed = 0 THEN "open" ELSE "executed"
    BY DEF StageOf
  <2>. HIDE DEF from
  <2>5. CASE Begins(t, c)
    BY <2>3, <2>4, <2>5 DEF Begins, Promise!Next, Promise!Start
  <2>6. CASE GetsReply(t, c) /\ c.executed = 1
    <3>1. from = "open"
      BY <2>1, <2>4, <2>6 DEF GetsReply, ExecutedOK
    <3>. QED BY <2>3, <2>6, <3>1 DEF GetsReply, Promise!Next, Promise!Execute
  <2>7. CASE (GetsReply(t, c) /\ c.executed = 0) \/ GoesOn(t, c)
    <3>1. from = "open" /\ to = from /\ OutcomeOf(t) = "none" /\ o = "none"
      BY <2>1, <2>4, <2>7 DEF GetsReply, GoesOn, ExecutedOK, OutcomeOf
    <3>2. \A s \in Threads : StageOf(s)' = StageOf(s) /\ OutcomeOf(s)' = OutcomeOf(s)
      BY <1>3, <2>2, <3>1, Seen DEF from
    <3>. QED BY <3>2
  <2>8. CASE Finishes(t, c) /\ c.outcome = "returned"
    <3>1. from = "executed"
      BY <2>1, <2>4, <2>8 DEF Finishes, ExecutedOK
    <3>. QED BY <2>3, <2>8, <3>1 DEF Finishes, Promise!Next, Promise!Return
  <2>9. CASE Finishes(t, c) /\ c.outcome # "returned"
    <3>1. from \in {"open", "executed"} /\ to = "idle" /\ o = "raised"
      BY <2>4, <2>9 DEF Finishes
    <3>. QED BY <2>3, <3>1 DEF Promise!Next, Promise!Raise
  <2>. QED BY <2>2, <2>5, <2>6, <2>7, <2>8, <2>9 DEF GetsReply
<1>4. IInv /\ [Next]_vars => [Promise!Next]_<<stage, outcome>>
  BY <1>2, <1>3 DEF Next, Revoke, vars
<1>. HIDE DEF stage, outcome
<1>. QED BY <1>1, <1>4, Invariance, PTL DEF Spec, ImplementsRestCall, Promise!Spec, stage, outcome

-----------------------------------------------------------------------------
(* Termination                                                              *)

\* Every step of a request brings it nearer to its end: it is retried at most once.
LEMMA StepShortens ==
  ASSUME TypeOK, NEW t \in Threads, Step(t)
  PROVE  /\ StepsLeft(t)' < StepsLeft(t)
         /\ \A s \in Threads \ {t} : conn'[s] = conn[s]
<1>1. conn \in [Threads -> Conns] /\ conn[t] \in Conns /\ conn[t].pc # "idle"
  BY DEF TypeOK, Step, Send, Receive, PopHeader, Login, UpdateHeader
<1>2. StepsLeft(t) \in Nat \ {0}
  BY <1>1 DEF StepsLeft, Conns
<1>3. ASSUME NEW o, End(t, o)
      PROVE  StepsLeft(t)' < StepsLeft(t) /\ \A s \in Threads \ {t} : conn'[s] = conn[s]
  <2>1. conn'[t].pc = "idle" /\ \A s \in Threads \ {t} : conn'[s] = conn[s]
    BY <1>1, <1>3 DEF End, Conns, Plain
  <2>2. StepsLeft(t)' = 0
    BY <2>1 DEF StepsLeft
  <2>. QED BY <1>2, <2>1, <2>2
<1>4. CASE Send(t) /\ ~ \E o : End(t, o)
  <2>1. conn[t].pc = "send" /\ \E reply, n : Replied(t, reply, n)
    BY <1>4 DEF Send
  <2>2. conn'[t].pc = "receive" /\ conn'[t].again = conn[t].again
          /\ \A s \in Threads \ {t} : conn'[s] = conn[s]
    BY <1>1, <2>1 DEF Replied, Conns
  <2>. QED BY <2>1, <2>2 DEF StepsLeft
<1>5. CASE Receive(t) /\ ~ \E o : End(t, o)
  <2>1. conn[t].pc = "receive" /\ ~conn[t].again
          /\ conn' = [conn EXCEPT ![t] = [@ EXCEPT !.pc = "pop", !.reply = "none",
                                                    !.refused = conn[t].sent]]
    BY <1>5 DEF Receive
  <2>2. conn'[t].pc = "pop" /\ \A s \in Threads \ {t} : conn'[s] = conn[s]
    BY <1>1, <2>1 DEF Conns
  <2>. QED BY <2>1, <2>2 DEF StepsLeft
<1>6. CASE PopHeader(t)
  <2>1. conn[t].pc = "pop" /\ conn' = [conn EXCEPT ![t].pc = "login"]
    BY <1>6 DEF PopHeader
  <2>2. conn'[t].pc = "login" /\ \A s \in Threads \ {t} : conn'[s] = conn[s]
    BY <1>1, <2>1 DEF Conns
  <2>. QED BY <2>1, <2>2 DEF StepsLeft
<1>7. CASE Login(t) /\ ~ \E o : End(t, o)
  <2>1. PICK token \in unused : conn[t].pc = "login"
          /\ conn' = [conn EXCEPT ![t] = [@ EXCEPT !.pc = "update", !.mine = token]]
    BY <1>7 DEF Login
  <2>2. conn'[t].pc = "update" /\ \A s \in Threads \ {t} : conn'[s] = conn[s]
    BY <1>1, <2>1 DEF Conns
  <2>. QED BY <2>1, <2>2 DEF StepsLeft
<1>8. CASE UpdateHeader(t)
  <2>1. conn[t].pc = "update"
          /\ conn' = [conn EXCEPT ![t] = [@ EXCEPT !.pc = "send", !.again = TRUE]]
    BY <1>8 DEF UpdateHeader
  <2>2. conn'[t].pc = "send" /\ conn'[t].again
          /\ \A s \in Threads \ {t} : conn'[s] = conn[s]
    BY <1>1, <2>1 DEF Conns
  <2>. QED BY <2>1, <2>2 DEF StepsLeft
<1>. QED BY <1>3, <1>4, <1>5, <1>6, <1>7, <1>8 DEF Step

\* A request takes at most seven steps, one login and one retry among them, whatever
\* the server and the other threads of its session do.
THEOREM RequestsShrink == Spec => RequestsAreBounded
<1>1. ASSUME IInv, [Next]_vars, NEW t \in Threads
      PROVE  conn[t].pc = "idle" \/ conn'[t] = conn[t] \/ StepsLeft(t)' < StepsLeft(t)
  <2>1. CASE \E token \in Tokens : Revoke(token)
    BY <2>1 DEF Revoke
  <2>2. CASE \E s \in Threads : Step(s)
    BY <1>1, <2>2, StepShortens DEF IInv
  <2>3. CASE \E s \in Threads : Begin(s)
    BY <1>1, <2>3 DEF Begin, IInv, TypeOK
  <2>. QED BY <1>1, <2>1, <2>2, <2>3 DEF Next, vars
<1>2. IInv /\ [Next]_vars =>
        [\A t \in Threads :
           /\ Step(t) => StepsLeft(t)' < StepsLeft(t)
           /\ At(t, "idle") \/ conn'[t] = conn[t] \/ StepsLeft(t)' < StepsLeft(t)]_vars
  BY <1>1, StepShortens DEF IInv
<1>. QED BY <1>2, Invariance, PTL DEF Spec, RequestsAreBounded

=============================================================================
