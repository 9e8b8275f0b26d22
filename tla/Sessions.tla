------------------------------- MODULE Sessions -------------------------------
(* Who may do what at the gateway, and how a browser gets there: the 30-day session
   cookie (auth.ts, server.ts), the step-up credential minted from a fresh Google
   login (stepup.ts), the founder set (founder.ts), the worker secret
   (workerAuth.ts), and the dashboard's prompt that asks for a step-up and sends the
   refused write once more (StepUp.tsx, authClient.ts, api.ts).

   Both cookies are signed, so a request can carry whatever the gateway once signed:
   Max-Age only tells the browser when to forget a cookie.  The route that will demand
   a step-up does not exist yet; Serve is the check stepup.ts and founder.ts describe
   for it.                                                                          *)
EXTENDS Naturals, Sequences, FiniteSetsExt

CONSTANTS
  Email, Principal,
  Secret,       \* worker secrets
  Config,       \* the configurations a gateway may be started with
  Write,        \* writes of the dashboard that need a step-up
  Window,       \* STEP_UP_MAX_AGE_SECONDS, in ticks
  MaxTime,      \* bound on the clock
  Null

VARIABLES
  now,
  config,       \* [allowed, founders, secret, stepUp]: the configuration in force
  logins,       \* history: <<email, time>> of every real login at Google
  session,      \* the email in the browser's rmg_sess, or Null
  stepups,      \* the step-up payloads <<email, auth_time>> ever signed
  write,        \* what became of each write
  waiter,       \* resolverRef: the write the visible prompt will answer, or Null
  popup,        \* the re-authentication window is open
  busy,         \* the prompt's buttons are disabled
  minting,      \* tokens the page is exchanging for a step-up
  overtaken,    \* history: writes whose prompt a later write took over
  admitted      \* history: what the gateway let through

vars == <<now, config, logins, session, stepups, write, waiter, popup, busy, minting,
          overtaken, admitted>>
page   == <<waiter, popup, busy, minting, overtaken>>
server == <<config, logins, admitted>>

Token == Email \X (0 .. MaxTime)
State == {"idle", "sent", "waiting", "resent", "done", "refused", "signed_out", "cancelled"}

TypeOK ==
  /\ now \in 0 .. MaxTime /\ config \in Config
  /\ logins \subseteq Token /\ stepups \subseteq logins /\ minting \subseteq logins
  /\ session \in Email \cup {Null}
  /\ write \in [Write -> State] /\ waiter \in Write \cup {Null}
  /\ popup \in BOOLEAN /\ busy \in BOOLEAN /\ overtaken \subseteq Write

Init ==
  /\ now = 0 /\ config \in Config /\ logins = {} /\ session = Null /\ stepups = {}
  /\ write = [w \in Write |-> "idle"] /\ waiter = Null /\ popup = FALSE /\ busy = FALSE
  /\ minting = {} /\ overtaken = {} /\ admitted = {}

-----------------------------------------------------------------------------
(* FOUNDER_PRINCIPALS: entries without an email or without a principal are dropped, and
   of two entries for one email the later one counts.                                *)
Malformed(entry) == Null \in {entry.email, entry.principal}
FounderOf(email) ==
  LET of == {i \in DOMAIN config.founders :
               ~Malformed(config.founders[i]) /\ config.founders[i].email = email}
  IN  IF of = {} THEN Null ELSE config.founders[Max(of)].principal

EmailAllowed(email) == email \in config.allowed

(* The onRequest guard of every route that is neither public nor a worker route. *)
SessionOK == session # Null /\ EmailAllowed(session)

(* checkWorkerSecret: no secret configured closes the lane. *)
WorkerAuthorized(provided) == config.secret # Null /\ provided = config.secret

FreshAt(time)    == time <= now /\ now - time <= Window
WindowLeft(time) == now - time < Window

(* verifyStepUpCookie: the age is computed from the signed login time on every write. *)
PresentStepUp(cookie) == cookie # Null /\ cookie[1] = session
VerifiedStepUp(cookie) ==
  /\ cookie # Null /\ cookie[1] = session
  /\ FreshAt(cookie[2])

-----------------------------------------------------------------------------
Tick == /\ now < MaxTime /\ now' = now + 1
        /\ UNCHANGED <<server, session, stepups, write, page>>

(* Somebody signs in at Google.  Google hands out tokens of this login for as long as it
   likes; they carry its time as auth_time.                                           *)
Login(e) ==
  /\ logins' = logins \cup {<<e, now>>}
  /\ UNCHANGED <<now, config, admitted, session, stepups, write, page>>

(* POST /auth/google: any token of an allowlisted email, however old its login. *)
SignIn(e) ==
  /\ \E login \in logins : login[1] = e
  /\ EmailAllowed(e) /\ session' = e
  /\ UNCHANGED <<now, server, stepups, write, page>>

(* POST /auth/logout forgets the session and leaves the step-up alone. *)
Logout ==
  /\ session' = Null
  /\ UNCHANGED <<now, server, stepups, write, page>>

(* The gateway is started again with another configuration; the cookies stay valid. *)
Restart(c) ==
  /\ config' = c
  /\ UNCHANGED <<now, logins, admitted, session, stepups, write, page>>

(* A worker route. *)
WorkerCall(provided) ==
  /\ WorkerAuthorized(provided)
  /\ admitted' = admitted \cup {[kind |-> "tick", secret |-> provided, asked |-> config.secret]}
  /\ UNCHANGED <<now, config, logins, session, stepups, write, page>>

-----------------------------------------------------------------------------
Set(w, state) == write' = [write EXCEPT ![w] = state]

Submit(w) ==
  /\ write[w] = "idle" /\ Set(w, "sent")
  /\ UNCHANGED <<now, server, session, stepups, page>>

(* requestStepUp: the prompt becomes visible for w, whoever it was visible for. *)
Prompt(w) ==
  /\ waiter' = w /\ busy' = FALSE
  /\ overtaken' = overtaken \cup ({waiter} \ {Null})
  /\ UNCHANGED <<popup, minting>>

(* The gateway decides, and req() reads the answer: a first refusal for want of a
   step-up shows the prompt, a second one is an error.                            *)
Serve(w, cookie) ==
  /\ write[w] \in {"sent", "resent"}
  /\ \/ ~SessionOK /\ Set(w, "signed_out") /\ UNCHANGED <<admitted, page>>
     \/ /\ SessionOK /\ VerifiedStepUp(cookie)
        /\ IF FounderOf(session) = Null
             THEN Set(w, "refused") /\ UNCHANGED admitted
             ELSE /\ Set(w, "done")
                  /\ admitted' = admitted \cup
                       {[kind |-> "write", email |-> session, at |-> now,
                         principal |-> FounderOf(session), founders |-> config.founders]}
        /\ UNCHANGED page
     \/ /\ SessionOK /\ ~VerifiedStepUp(cookie)
        /\ IF write[w] = "sent" THEN Set(w, "waiting") /\ Prompt(w)
                                ELSE Set(w, "refused") /\ UNCHANGED page
        /\ UNCHANGED admitted
  /\ UNCHANGED <<now, config, logins, session, stepups>>

OpenPopup ==
  /\ waiter # Null /\ ~busy /\ popup' = TRUE
  /\ UNCHANGED <<now, server, session, stepups, write, waiter, busy, minting, overtaken>>

(* The popup posts a token, or an error, back to the page; it may outlive its prompt. *)
PopupAnswers ==
  /\ popup /\ popup' = FALSE
  /\ \/ \E login \in logins : minting' = minting \cup {login} /\ busy' = TRUE
     \/ busy' = FALSE /\ UNCHANGED minting
  /\ UNCHANGED <<now, server, session, stepups, write, waiter, overtaken>>

(* POST /auth/google/step-up.  A success answers the write that waits by now. *)
Mintable(login) == /\ config.stepUp /\ EmailAllowed(login[1])
                   /\ FreshAt(login[2]) /\ WindowLeft(login[2])
StepUp(login) ==
  /\ login \in minting /\ minting' = minting \ {login} /\ busy' = FALSE
  /\ IF Mintable(login)
       THEN /\ stepups' = stepups \cup {login}
            /\ waiter' = Null
            /\ IF waiter # Null THEN Set(waiter, "resent") ELSE UNCHANGED write
       ELSE UNCHANGED <<stepups, waiter, write>>
  /\ UNCHANGED <<now, server, session, popup, overtaken>>

HidePrompt ==
  /\ waiter # Null /\ ~busy /\ waiter' = Null
  /\ UNCHANGED <<now, server, session, stepups, write, popup, busy, minting, overtaken>>
Cancel ==
  /\ waiter # Null /\ ~busy /\ waiter' = Null /\ Set(waiter, "cancelled")
  /\ UNCHANGED <<now, server, session, stepups, popup, busy, minting, overtaken>>

Next ==
  \/ Tick \/ Logout \/ OpenPopup \/ PopupAnswers \/ Cancel
  \/ \E e \in Email : Login(e) \/ SignIn(e)
  \/ \E c \in Config : Restart(c)
  \/ \E s \in Secret : WorkerCall(s)
  \/ \E w \in Write : Submit(w) \/ \E cookie \in stepups \cup {Null} : Serve(w, cookie)
  \/ \E login \in minting : StepUp(login)

Spec == Init /\ [][Next]_vars

-----------------------------------------------------------------------------
(* However old the session, whatever cookies a request carries and however often the
   gateway was configured anew: a write was let through only for an email that had
   really logged in at Google within the window and was a founder then, and a worker
   call only against a secret that was configured.                                *)
AuthorityIsProven ==
  \A a \in admitted :
    IF a.kind = "tick" THEN a.asked # Null
    ELSE /\ \E login \in logins : login[1] = a.email /\ a.at - login[2] \in 0 .. Window
         /\ \E i \in DOMAIN a.founders :
              a.founders[i] = [email |-> a.email, principal |-> a.principal]

(* A write that waits for the prompt is the one the prompt will answer, unless a later
   write took the prompt over.                                                    *)
NobodyHangs == \A w \in Write : write[w] = "waiting" => w = waiter \/ w \in overtaken
=============================================================================
