------------------------------ MODULE ModelCalls ------------------------------
(***************************************************************************)
(* Calls of a model over HTTP: post_json and its worker pool (llm_http.py),*)
(* the judge that retries an unreadable reply (grounding/judge.py) and the *)
(* candidate client that does not (multipass/pass_base.py).                *)
(*                                                                         *)
(* Time is counted in ticks.  A tick waits for whoever is due: a timeout   *)
(* fires, and a result is picked up, before the next tick.                 *)
(***************************************************************************)
EXTENDS Naturals, FiniteSets, SequencesExt

CONSTANTS
  Callers,      \* threads that call a model
  Posts,        \* futures; as many as may be alive at once
  Workers,      \* _POOL's max_workers
  Deadline,     \* total_deadline
  ReadTimeout,  \* read_timeout: how long a socket may be silent
  Verdicts,     \* Verdict
  None

ASSUME PostsAssumption ==
  /\ IsFiniteSet(Callers) /\ IsFiniteSet(Posts)
  /\ Cardinality(Posts) >= Cardinality(Callers) + Workers
ASSUME TimesAssumption == {Workers, Deadline, ReadTimeout} \subseteq Nat \ {0}
ASSUME VerdictsAssumption ==
  Verdicts \cap {"unreadable", "no_choices", "no_text", "no_body", "failed", "timeout",
               "none", "judge_unavailable", "content", "raised"} = {}

VARIABLES
  call,      \* each caller's call in progress, or None
  answer,    \* what each caller's last call came to
  queue,     \* posts no worker has taken yet, oldest first
  running,   \* the posts workers are at, and how long each socket has been silent
  result,    \* results of posts that are through and awaited
  spent,     \* history: ticks since each caller's call began
  told       \* history: verdicts the server has given to that call

vars == <<call, answer, queue, running, result, spent, told>>

-----------------------------------------------------------------------------
Kinds == {"judge", "model"}

\* What a reply comes to once its body is read: a verdict; content that is none;
\* a body without choices; content that is no text (a number, say), or a body that is
\* no object: what reads those raises a TypeError.
Replies == Verdicts \cup {"unreadable", "no_choices", "no_text", "no_body"}

\* What post_json may come back with.
Results == Replies \cup {"failed", "timeout"}

Call == [kind : Kinds, attempt : 1..2, post : Posts, waited : Nat]

ASSUME NoneIsNoCall == None \notin Call

\* The shape of the state.
TypeOK ==
  /\ call \in [Callers -> Call \cup {None}]
  /\ answer \in [Callers -> Verdicts \cup {"none", "judge_unavailable", "content", "raised"}]
  /\ queue \in Seq(Posts)
  /\ DOMAIN running \subseteq Posts /\ Cardinality(DOMAIN running) <= Workers
  /\ \A p \in DOMAIN running : running[p] \in 0..ReadTimeout
  /\ DOMAIN result \subseteq Posts /\ \A p \in DOMAIN result : result[p] \in Results
  /\ spent \in [Callers -> Nat]
  /\ told \in [Callers -> SUBSET Verdicts]

Busy == {c \in Callers : call[c] # None}
Awaited(p) == \E c \in Busy : call[c].post = p

\* A future for c: one that neither the pool nor another caller holds any more.
NewPost(c) ==
  CHOOSE p \in Posts :
    /\ p \notin ToSet(queue) \cup DOMAIN running
    /\ \A d \in Busy \ {c} : call[d].post # p

Init ==
  /\ call = [c \in Callers |-> None]
  /\ answer = [c \in Callers |-> "none"]
  /\ queue = <<>>
  /\ running = << >>
  /\ result = << >>
  /\ spent = [c \in Callers |-> 0]
  /\ told = [c \in Callers |-> {}]

\* f, with v at p.
Put(f, p, v) == [q \in DOMAIN f \cup {p} |-> IF q = p THEN v ELSE f[q]]

\* _POOL.submit(_do), then future.result(timeout=total_deadline).
Submit(c, kind, attempt) ==
  /\ queue' = Append(queue, NewPost(c))
  /\ call' = [call EXCEPT ![c] =
                [kind |-> kind, attempt |-> attempt, post |-> NewPost(c), waited |-> 0]]

\* evaluate or complete is called.
Ask(c, kind) ==
  /\ call[c] = None
  /\ Submit(c, kind, 1)
  /\ answer' = [answer EXCEPT ![c] = "none"]
  /\ spent' = [spent EXCEPT ![c] = 0]
  /\ told' = [told EXCEPT ![c] = {}]
  /\ UNCHANGED <<running, result>>

-----------------------------------------------------------------------------
(* The pool.                                                               *)

\* A free worker takes the oldest post and sends it.
StartPost ==
  /\ queue # <<>>
  /\ Cardinality(DOMAIN running) < Workers
  /\ running' = Put(running, Head(queue), 0)
  /\ queue' = Tail(queue)
  /\ UNCHANGED <<call, answer, result, spent, told>>

\* Part of a reply, or a keepalive, arrives: the socket's silence starts anew.
Trickle(p) ==
  /\ p \in DOMAIN running
  /\ running' = [running EXCEPT ![p] = 0]
  /\ UNCHANGED <<call, answer, queue, result, spent, told>>

\* _do is over; its result is kept if somebody still awaits the future.
Finish(p, r) ==
  /\ running' = Restrict(running, DOMAIN running \ {p})
  /\ result' = IF Awaited(p) THEN Put(result, p, r) ELSE result
  /\ told' = [c \in Callers |-> IF c \in Busy /\ call[c].post = p
                                THEN told[c] \cup ({r} \cap Verdicts) ELSE told[c]]
  /\ UNCHANGED <<call, answer, queue, spent>>

\* The server replies, or refuses, or the connection breaks.
Reply(p) == p \in DOMAIN running /\ \E r \in Replies \cup {"failed"} : Finish(p, r)

\* Mutant: the read timeout covers awaited posts only.
ReadTimesOutAwaited(p) ==
  /\ p \in DOMAIN running
  /\ running[p] = ReadTimeout
  /\ Awaited(p)
  /\ Finish(p, "failed")

\* The socket has been silent for too long.
ReadTimesOut(p) ==
  /\ p \in DOMAIN running
  /\ running[p] = ReadTimeout
  /\ Finish(p, "failed")

-----------------------------------------------------------------------------
(* The callers.                                                            *)

Answer(c, a) ==
  /\ call' = [call EXCEPT ![c] = None]
  /\ answer' = [answer EXCEPT ![c] = a]

\* Mutant: an unreadable reply is retried until one can be read.
RetriesUncapped(c, r) == call[c].kind = "judge" /\ r = "unreadable"

\* evaluate calls again, once, after a reply it could not parse, and only then.
Retries(c, r) == call[c].kind = "judge" /\ r = "unreadable" /\ call[c].attempt = 1

\* Mutant: after two unreadable replies the benefit of the doubt.
OutcomeLenient(c, r) ==
  LET judged == call[c].kind = "judge"
  IN  CASE judged /\ r \in Verdicts   -> r
        [] judged /\ r = "unreadable" -> CHOOSE v \in Verdicts : TRUE
        [] judged /\ r \notin Verdicts \cup {"unreadable"}  -> "judge_unavailable"
        [] ~judged -> "content"

\* What the caller sees.  The judge fails closed, but for a TypeError, which it does
\* not catch; complete hands on any content (its callers parse it) and every exception.
Outcome(c, r) ==
  LET judged == call[c].kind = "judge"
  IN  CASE judged /\ r \in Verdicts   -> r
        [] judged /\ r \in {"no_text", "no_body"} -> "raised"
        [] judged /\ r \notin Verdicts \cup {"no_text", "no_body"}    -> "judge_unavailable"
        [] ~judged /\ r \in Verdicts \cup {"unreadable", "no_text"}    -> "content"
        [] ~judged /\ r \notin Verdicts \cup {"unreadable", "no_text"} -> "raised"

\* future.result returns or raises what _do came to.
Collect(c) ==
  /\ c \in Busy
  /\ call[c].post \in DOMAIN result
  /\ LET p == call[c].post
         r == result[p]
     IN  /\ result' = Restrict(result, DOMAIN result \ {p})
         /\ IF Retries(c, r)
            THEN Submit(c, "judge", call[c].attempt + 1) /\ UNCHANGED answer
            ELSE Answer(c, Outcome(c, r)) /\ UNCHANGED queue
  /\ UNCHANGED <<running, spent, told>>

\* future.cancel(): the queue without p, wherever p stands in it.
Cancelled(p) ==
  IF p \in ToSet(queue) THEN RemoveAt(queue, CHOOSE i \in DOMAIN queue : queue[i] = p) ELSE queue

\* Mutant: no future.cancel().
ExpireUncancelled(c) ==
  /\ c \in Busy
  /\ call[c].waited = Deadline
  /\ call[c].post \notin DOMAIN result
  /\ Answer(c, Outcome(c, "timeout"))
  /\ UNCHANGED <<queue, running, result, spent, told>>

\* Mutant: future.result() without a timeout.
ExpireOnlyQueued(c) ==
  /\ c \in Busy
  /\ call[c].waited = Deadline
  /\ call[c].post \in ToSet(queue)
  /\ Answer(c, Outcome(c, "timeout"))
  /\ queue' = Cancelled(call[c].post)
  /\ UNCHANGED <<running, result, spent, told>>

\* The deadline: cancel works on a post no worker has taken; a worker that is at it
\* goes on without an audience.  LLMTimeout is raised.
Expire(c) ==
  /\ c \in Busy
  /\ call[c].waited = Deadline
  /\ call[c].post \notin DOMAIN result
  /\ Answer(c, Outcome(c, "timeout"))
  /\ queue' = Cancelled(call[c].post)
  /\ UNCHANGED <<running, result, spent, told>>

Tick ==
  /\ \A c \in Busy : call[c].waited < Deadline /\ call[c].post \notin DOMAIN result
  /\ \A p \in DOMAIN running : running[p] < ReadTimeout
  /\ call' = [c \in Callers |-> IF c \in Busy THEN [call[c] EXCEPT !.waited = @ + 1] ELSE None]
  /\ running' = [p \in DOMAIN running |-> running[p] + 1]
  /\ spent' = [c \in Callers |-> IF c \in Busy THEN spent[c] + 1 ELSE spent[c]]
  /\ UNCHANGED <<answer, queue, result, told>>

Next ==
  \/ \E c \in Callers :
       \/ \E kind \in Kinds : Ask(c, kind)
       \/ Collect(c)
       \/ Expire(c)
  \/ StartPost
  \/ \E p \in Posts : Trickle(p) \/ Reply(p) \/ ReadTimesOut(p)
  \/ Tick

Spec == Init /\ [][Next]_vars

\* Time goes on, and what is due is done.  The server owes nobody a reply.
FairSpec ==
  /\ Spec
  /\ SF_vars(Tick)
  /\ \A c \in Callers : WF_vars(Collect(c)) /\ WF_vars(Expire(c))
  /\ \A p \in Posts : WF_vars(ReadTimesOut(p))

-----------------------------------------------------------------------------
(* Fail closed: a verdict the judge's caller gets is one the server gave   *)
(* to this very call, however late other replies come and whatever else it *)
(* sends (judge.py: never silently returns "grounded").                    *)
VerdictsAreEarned == \A c \in Callers : answer[c] \in Verdicts => answer[c] \in told[c]

(* The deadline is per post, so a call lasts two of them at most, although *)
(* the pool may be full and the retry queues anew.                         *)
AnsweredInTime ==
  \A c \in Busy : spent[c] <= (call[c].attempt - 1) * Deadline + call[c].waited
                  /\ call[c].attempt <= 2 /\ spent[c] <= 2 * Deadline

(* Action property: a post whose caller has given up is never sent.        *)
AbandonedPostsAreNotSent ==
  [][\A p \in DOMAIN running' \ DOMAIN running : Awaited(p)]_vars

(* No wedged request hangs a run (llm_http.py): every call comes to an     *)
(* answer, be every worker stuck and the server silent or trickling.       *)
EveryCallIsAnswered == \A c \in Callers : (c \in Busy) ~> (c \notin Busy)

(* Leaked workers retire on their own (llm_http.py), awaited or not: only  *)
(* a server that never stops sending keeps a worker for good.              *)
WorkersRetire ==
  \A p \in Posts : <>[](p \in DOMAIN running) => []<><<Trickle(p)>>_running

=============================================================================
