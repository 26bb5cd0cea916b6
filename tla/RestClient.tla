----------------------------- MODULE RestClient -----------------------------
(***************************************************************************)
(* RestClient and _retry_if_token_expire of lib/ibm_scbe_client.py: the    *)
(* token in the header of the session, the login, and the one retry after  *)
(* a 401.  Each node has a session, which the threads of its driver share  *)
(* without a lock; the server sees the sessions of all nodes.              *)
(*                                                                         *)
(* The server may revoke any token at any time, refuse a request, or       *)
(* answer a request that it executed with an unexpected status; a request  *)
(* or its response may be lost.  The body of a request does not matter.    *)
(***************************************************************************)
EXTENDS Naturals

CONSTANTS Threads,
          Sessions,
          SessionOf,  \* SessionOf[t]: the session of the driver that t runs
          Tokens,     \* the tokens that the server can issue (a bound for TLC)
          NoToken     \* no Authorization header

ASSUME TokenAssumption == NoToken \notin Tokens

ASSUME SessionAssumption == SessionOf \in [Threads -> Sessions]

VARIABLES header,   \* header[s]: session.headers["Authorization"]
          valid,    \* the tokens that the server accepts
          unused,   \* the tokens that it has not issued yet
          conn      \* conn[t]: the request that thread t executes

vars == <<header, valid, unused, conn>>

Conns == [pc       : {"idle", "send", "receive", "pop", "login", "update"},
          again    : BOOLEAN,    \* the request is sent for the second time
          mine     : Tokens \cup {NoToken},    \* the token of its own login
          sent     : Tokens \cup {NoToken},    \* history: what the last request carried,
          refused  : Tokens \cup {NoToken},    \* and the first one, when turned away
          reply    : {"none", "expected", "unexpected", "unauthorized"},
          executed : Nat,        \* how often the server executed the request
          outcome  : {"none", "returned", "raised", "unauthorized"}]

\* A request of which only this is known.
Plain(pc, executed, outcome) ==
  [pc |-> pc, again |-> FALSE, mine |-> NoToken, sent |-> NoToken, refused |-> NoToken,
   reply |-> "none", executed |-> executed, outcome |-> outcome]

\* The header, the tokens and the requests have their types; a token that was not
\* issued is not valid.
TypeOK ==
  /\ header \in [Sessions -> Tokens \cup {NoToken}]
  /\ valid \subseteq Tokens
  /\ unused \subseteq Tokens \ valid
  /\ conn \in [Threads -> Conns]

\* The constructor of each session has logged in.
Init ==
  /\ header \in [Sessions -> Tokens]
  /\ \A r, s \in Sessions : header[r] = header[s] => r = s
  /\ valid = {header[s] : s \in Sessions}
  /\ unused = Tokens \ valid
  /\ conn = [t \in Threads |-> Plain("idle", 0, "none")]

-----------------------------------------------------------------------------

At(t, step) == conn[t].pc = step

Authorized(t) == header[SessionOf[t]] \in valid

End(t, outcome) ==
  conn' = [conn EXCEPT ![t] = Plain("idle", conn[t].executed, outcome)]

\* A caller's get, post or delete.
Begin(t) ==
  /\ At(t, "idle")
  /\ conn' = [conn EXCEPT ![t] = Plain("send", 0, "none")]
  /\ UNCHANGED <<header, valid, unused>>

Replied(t, reply, n) ==
  conn' = [conn EXCEPT ![t] = [@ EXCEPT !.pc = "receive", !.reply = reply,
                                        !.sent = header[SessionOf[t]],
                                        !.executed = conn[t].executed + n]]

\* The request carries the header of this moment, and the server handles it.
Send(t) ==
  /\ At(t, "send")
  /\ \/ Authorized(t) /\ Replied(t, "expected", 1)
     \/ Authorized(t) /\ \E n \in {0, 1} : Replied(t, "unexpected", n)
     \/ ~Authorized(t) /\ Replied(t, "unauthorized", 0)
     \/ End(t, "raised")     \* it does not reach the server
  /\ UNCHANGED <<header, valid, unused>>

\* Mutant: any exception is retried, not only UNAUTHORIZED.
ReceiveAndRetryAll(t) ==
  /\ At(t, "receive")
  /\ LET c == conn[t] IN
       \/ c.reply = "expected" /\ End(t, "returned")
       \/ c.reply # "expected" /\ c.again /\ End(t, "raised")
       \/ /\ c.reply # "expected" /\ ~c.again
          /\ conn' = [conn EXCEPT ![t] = [@ EXCEPT !.pc = "pop", !.reply = "none",
                                                 !.refused = conn[t].sent]]
  /\ UNCHANGED <<header, valid, unused>>

\* Mutant: the status of the response is not verified.
ReceiveUnverified(t) ==
  /\ At(t, "receive")
  /\ End(t, "returned")
  /\ UNCHANGED <<header, valid, unused>>

\* Mutant: the request that is sent again is wrapped, too.
ReceiveAlwaysRetrying(t) ==
  /\ At(t, "receive")
  /\ LET c == conn[t] IN
       \/ End(t, "raised")
       \/ c.reply = "expected" /\ End(t, "returned")
       \/ /\ c.reply = "unauthorized"
          /\ conn' = [conn EXCEPT ![t] = [@ EXCEPT !.pc = "pop", !.reply = "none",
                                                 !.refused = conn[t].sent]]
  /\ UNCHANGED <<header, valid, unused>>

\* Mutant: the request is sent again without a login before.
ReceiveAndRepeat(t) ==
  /\ At(t, "receive")
  /\ LET c == conn[t] IN
       \/ End(t, "raised")
       \/ c.reply = "expected" /\ End(t, "returned")
       \/ c.reply = "unauthorized" /\ c.again /\ End(t, "unauthorized")
       \/ /\ c.reply = "unauthorized" /\ ~c.again
          /\ conn' = [conn EXCEPT ![t] = [@ EXCEPT !.pc = "send", !.reply = "none",
                                                 !.again = TRUE,
                                                 !.refused = conn[t].sent]]
  /\ UNCHANGED <<header, valid, unused>>

\* verify_status_code, and _retry_if_token_expire on what it raises.  What
\* requests raises when the response is lost is not retried.
Receive(t) ==
  /\ At(t, "receive")
  /\ LET c == conn[t] IN
       \/ End(t, "raised")
       \/ c.reply = "expected" /\ End(t, "returned")
       \/ c.reply = "unauthorized" /\ c.again /\ End(t, "unauthorized")
       \/ /\ c.reply = "unauthorized" /\ ~c.again
          /\ conn' = [conn EXCEPT ![t] = [@ EXCEPT !.pc = "pop", !.reply = "none",
                                                 !.refused = conn[t].sent]]
  /\ UNCHANGED <<header, valid, unused>>

\* get_token_and_update_header: the three steps below.
PopHeader(t) ==
  /\ At(t, "pop")
  /\ header' = [header EXCEPT ![SessionOf[t]] = NoToken]
  /\ conn' = [conn EXCEPT ![t].pc = "login"]
  /\ UNCHANGED <<valid, unused>>

\* Mutant: a login that fails is ignored, and the request sent without a token.
LoginOrIgnore(t) ==
  /\ At(t, "login")
  /\ \/ /\ conn' = [conn EXCEPT ![t].pc = "update"]
        /\ UNCHANGED <<valid, unused>>
     \/ \E token \in unused :
          /\ valid' = valid \cup {token}
          /\ unused' = unused \ {token}
          /\ conn' = [conn EXCEPT ![t] = [@ EXCEPT !.pc = "update", !.mine = token]]
  /\ UNCHANGED header

\* The login request.  What fails here is raised to the caller as it is: a login
\* that the server turns away reaches it as a 401, too.
Login(t) ==
  /\ At(t, "login")
  /\ \/ /\ End(t, "raised") \/ End(t, "unauthorized")
        /\ UNCHANGED <<valid, unused>>
     \/ \E token \in unused :
          /\ valid' = valid \cup {token}
          /\ unused' = unused \ {token}
          /\ \/ End(t, "raised")     \* the response is lost
             \/ conn' = [conn EXCEPT ![t] = [@ EXCEPT !.pc = "update",
                                                      !.mine = token]]
  /\ UNCHANGED header

\* The request is sent again, now without the wrapper.
UpdateHeader(t) ==
  /\ At(t, "update")
  /\ header' = [header EXCEPT ![SessionOf[t]] = conn[t].mine]
  /\ conn' = [conn EXCEPT ![t] = [@ EXCEPT !.pc = "send", !.again = TRUE]]
  /\ UNCHANGED <<valid, unused>>

\* The server revokes a token, or the token expires.
Revoke(token) ==
  /\ token \in valid
  /\ valid' = valid \ {token}
  /\ UNCHANGED <<header, unused, conn>>

Step(t) ==
  Send(t) \/ Receive(t) \/ PopHeader(t) \/ Login(t) \/ UpdateHeader(t)

Next ==
  \/ \E t \in Threads : Begin(t) \/ Step(t)
  \/ \E token \in Tokens : Revoke(token)

Spec == Init /\ [][Next]_vars

-----------------------------------------------------------------------------
(* Invariants                                                               *)

\* The retry never repeats a request that the server has executed: only a
\* request that was turned away is sent again.
AtMostOnce == \A t \in Threads : conn[t].executed <= 1

\* What the server has done of a request, by the step and the reply; the outcome
\* is open until the call ends.
ExecutedOK(t) ==
  LET c == conn[t] IN
    /\ c.executed \in {0, 1}
    /\ c.pc \notin {"idle", "receive"} \/ c.reply = "unauthorized" => c.executed = 0
    /\ c.reply = "expected" => c.executed = 1
    /\ c.pc = "receive" <=> c.reply # "none"
    /\ c.pc # "idle" => c.outcome = "none"

\* Tokens that the server has issued and that are not in any header yet: a login
\* hands each one out once, to a thread that writes it once.
LoginOK(t) ==
  LET c == conn[t] IN
    /\ c.pc = "update" \/ c.again => c.mine \in Tokens \ unused
    /\ c.pc = "update" =>
         /\ \A s \in Sessions : header[s] # c.mine
         /\ \A s \in Threads :
              /\ s # t /\ conn[s].pc = "update" => conn[s].mine # c.mine
              /\ c.mine \notin {conn[s].sent, conn[s].refused}

\* The token that was turned away does not come back into the header of the session,
\* so that the second request does not carry it again; what was turned away is not
\* valid.
RetryOK(t) ==
  LET c == conn[t] IN
    /\ c.sent \notin unused /\ c.refused \notin unused
    /\ c.reply = "unauthorized" => c.sent \notin valid
    /\ (c.pc \in {"login", "update"} \/ c.again) /\ c.refused # NoToken =>
         /\ header[SessionOf[t]] # c.refused
         /\ c.pc = "receive" => c.sent # c.refused

\* No other thread uses the session of t.
Alone(t) == \A s \in Threads : SessionOf[s] = SessionOf[t] => s = t

\* When t is alone, the second request carries the token of its own login.
OwnHeader(t) ==
  LET c == conn[t] IN
    c.again =>
      /\ c.pc = "send" => header[SessionOf[t]] = c.mine
      /\ c.pc = "receive" => c.sent = c.mine

\* The inductive invariant behind the properties of this module.
IInv ==
  /\ TypeOK
  /\ \A s \in Sessions : header[s] \notin unused
  /\ \A t \in Threads :
       ExecutedOK(t) /\ LoginOK(t) /\ RetryOK(t) /\ (Alone(t) => OwnHeader(t))

-----------------------------------------------------------------------------
(* Action properties and refinement                                         *)

\* When a 401 reaches the caller, the server has turned away the login of the call,
\* or two requests of it that did not carry the same token: the first one, and, after
\* a login of its own, one with another token that was revoked as well, or with none.
\* The latter takes another thread of the session, which has popped the header between
\* UpdateHeader and Send; a thread that is alone sees a 401 only when the token of its
\* own login was revoked.  Whatever the threads write over each other's tokens, none
\* sends a token again that it was turned away with.
UnauthorizedHasCause ==
  [][\A t \in Threads :
       LET c == conn[t] IN
         ~At(t, "idle") /\ conn'[t].outcome = "unauthorized" =>
           \/ At(t, "login")
           \/ /\ c.again /\ c.mine \in Tokens
              /\ c.sent \notin valid
              /\ c.sent = c.refused => c.sent = NoToken
              /\ Alone(t) => c.sent = c.mine]_vars

\* How many steps a request takes from here on, at most.
StepsLeft(t) ==
  LET c == conn[t] IN
    CASE c.pc = "idle"    -> 0
      [] c.pc = "receive" -> IF c.again THEN 1 ELSE 6
      [] c.pc = "send"    -> IF c.again THEN 2 ELSE 7
      [] c.pc = "update"  -> 3
      [] c.pc = "login"   -> 4
      [] c.pc = "pop"     -> 5

\* Each step of a call brings it nearer to its end, and neither the server, nor a
\* thread that pops the shared header, takes it back: two threads that turn each
\* other's tokens stale do not retry for ever.  A call sends at most three messages: the
\* request, the login, and the request again.
RequestsAreBounded ==
  [][\A t \in Threads :
       /\ Step(t) => StepsLeft(t)' < StepsLeft(t)
       /\ At(t, "idle") \/ conn'[t] = conn[t] \/ StepsLeft(t)' < StepsLeft(t)]_vars

StageOf(t) ==
  IF conn[t].pc = "idle" THEN "idle"
  ELSE IF conn[t].executed = 0 THEN "open" ELSE "executed"

OutcomeOf(t) ==
  IF conn[t].outcome = "unauthorized" THEN "raised" ELSE conn[t].outcome

Promise == INSTANCE RestCall WITH
             stage <- [t \in Threads |-> StageOf(t)],
             outcome <- [t \in Threads |-> OutcomeOf(t)]

\* The callers see RestCall, whatever happens to the tokens and the messages.
ImplementsRestCall == Promise!Spec

=============================================================================
