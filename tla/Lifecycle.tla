----------------------------- MODULE Lifecycle -----------------------------
(***************************************************************************)
(* Starting and stopping the server (app/app.go).                          *)
(*                                                                         *)
(* Run starts the watchers of RGDs, of graph revisions and of repository   *)
(* secrets, then the instance tracker, whose callbacks are registered with *)
(* the RGD watcher while that one already delivers events.  On a signal    *)
(* shutdownServices stops the HTTP server and the watchers one by one,     *)
(* waits for some of them for a limited time, and closes the audit         *)
(* recorder and the Redis client in between.                               *)
(*                                                                         *)
(* The single sign-on and wrapper watchers and the project watcher use     *)
(* neither of the two; the remote watcher has no targets (AddWatchTarget   *)
(* has no caller).  What the tracker does with events is in Instances.     *)
(***************************************************************************)
EXTENDS Naturals, Sequences

CONSTANTS
  Rgd,       \* resource graph definitions
  Call,      \* HTTP requests
  None,
  MaxMoves,  \* bound: RGDs created and deleted
  MaxSlow    \* bound: waits that end by their time limit

Watcher == {"rgd", "revision", "repo"}
Startup  == <<"rgd", "revision", "repo", "list", "register", "ready">>
\* Mutant: the Redis client is closed before its users are stopped.
ShutdownRedisFirst ==
  <<"http", "stop repo", "wait repo", "audit", "stop revision", "wait revision",
    "redis", "tracker", "stop rgd", "wait rgd", "exited">>
Shutdown == <<"http", "stop repo", "wait repo", "audit", "stop revision", "wait revision",
              "tracker", "stop rgd", "wait rgd", "redis", "exited">>
Phase    == {Startup[i] : i \in 1..6} \cup {Shutdown[i] : i \in 1..11}

VARIABLES
  phase,      \* what Run or shutdownServices does next
  life,       \* goroutine of each watcher: off, launched, up, ended
  stopping,   \* watchers whose stop channel is closed
  event,      \* the RGD whose callbacks the RGD watcher is about to run
  known,      \* RGD watcher: the cached RGDs
  tracked,    \* instance tracker: RGDs with an informer
  registered, \* the tracker's callbacks are registered
  busy,       \* goroutines in a callback or handler that may use Redis or audit
  closed,     \* of audit and redis
  excuse,     \* history: those that were not waited for
  moved, slow \* moves and time limits spent

vars == <<phase, life, stopping, event, known, tracked, registered, busy, closed, excuse, moved, slow>>
-----------------------------------------------------------------------------
Init ==
  /\ phase = "rgd" /\ life = [w \in Watcher |-> "off"] /\ stopping = {}
  /\ event = None /\ known = {} /\ tracked = {} /\ registered = FALSE
  /\ busy = {} /\ closed = {} /\ excuse = {} /\ moved = 0 /\ slow = 0

\* What is done after p.
At(p) ==
  /\ phase = p
  /\ \E s \in {Startup, Shutdown} :
       \E i \in 1 .. Len(s) - 1 : s[i] = p /\ phase' = s[i + 1]
Quiet  == UNCHANGED <<event, known, tracked, registered, busy, moved>>
Starts == Quiet /\ UNCHANGED <<stopping, closed, excuse, slow>>

(* Start of the watchers of RGDs and revisions: the new goroutine itself   *)
(* stores running, some time after Start has returned.                     *)
Launch(w) == At(w) /\ life' = [life EXCEPT ![w] = "launched"] /\ Starts
Begin(w) ==
  /\ life[w] = "launched" /\ life' = [life EXCEPT ![w] = "up"]
  /\ Starts /\ UNCHANGED phase

(* Start of the repository watcher stores running before it returns.       *)
LaunchRepo == At("repo") /\ life' = [life EXCEPT !["repo"] = "up"] /\ Starts

(* InstanceTracker.Start: informers for the RGDs that are cached now, ...  *)
ListKnown ==
  /\ At("list") /\ tracked' = known
  /\ UNCHANGED <<life, stopping, event, known, registered, busy, closed, excuse, moved, slow>>

(* ... then the callbacks for those to come.                               *)
Register ==
  /\ At("register") /\ registered' = TRUE
  /\ UNCHANGED <<life, stopping, event, known, tracked, busy, closed, excuse, moved, slow>>

(* SIGTERM: Run cancels its context and begins to shut down.               *)
Signal ==
  /\ phase = "ready" /\ phase' = "http"
  /\ UNCHANGED life /\ Starts
-----------------------------------------------------------------------------
(* handleAdd and handleDelete change the cache ...                         *)
HandleChange ==
  /\ life["rgd"] = "up" /\ "rgd" \notin stopping /\ event = None /\ moved < MaxMoves
  /\ \E x \in Rgd :
       /\ event' = x
       /\ known' = IF x \in known THEN known \ {x} ELSE known \cup {x}
  /\ moved' = moved + 1
  /\ UNCHANGED <<phase, life, stopping, tracked, registered, busy, closed, excuse, slow>>

\* Mutant: a resync is not announced, as nothing has changed.
ResyncSilently ==
  /\ life["rgd"] = "up" /\ "rgd" \notin stopping /\ event = None /\ known # {}
  /\ UNCHANGED vars

(* ... handleUpdate does not, when the informer only resynchronises.       *)
Resync ==
  /\ life["rgd"] = "up" /\ "rgd" \notin stopping /\ event = None
  /\ \E x \in known : event' = x
  /\ UNCHANGED <<phase, life, stopping, known, tracked, registered, busy, closed, excuse, moved, slow>>

(* notifyChange: handleRGDChange makes the informers those of the cache,   *)
(* if it is registered by now.                                             *)
NotifyChange ==
  /\ event # None /\ event' = None
  /\ tracked' = IF registered /\ "tracker" \notin stopping THEN known ELSE tracked
  /\ UNCHANGED <<phase, life, stopping, known, registered, busy, closed, excuse, moved, slow>>

(* Other callbacks: revisions, repository secrets, instances of an RGD.    *)
CallbackBegins(w) ==
  /\ w \notin busy /\ busy' = busy \cup {w}
  /\ w \notin stopping /\ IF w = "tracker" THEN tracked # {} ELSE life[w] = "up"
  /\ UNCHANGED <<phase, life, stopping, event, known, tracked, registered, closed, excuse, moved, slow>>

(* A request is served until the server is shut down.                      *)
RequestBegins(q) ==
  /\ phase = "ready" /\ q \notin busy /\ busy' = busy \cup {q}
  /\ UNCHANGED <<phase, life, stopping, event, known, tracked, registered, closed, excuse, moved, slow>>

Finish(b) ==
  /\ b \in busy /\ busy' = busy \ {b}
  /\ UNCHANGED <<phase, life, stopping, event, known, tracked, registered, closed, excuse, moved, slow>>

(* informer.Run returns when its handlers have, after the stop.            *)
End(w) ==
  /\ life[w] = "up" /\ w \in stopping /\ w \notin busy /\ (w = "rgd" => event = None)
  /\ life' = [life EXCEPT ![w] = "ended"]
  /\ Starts /\ UNCHANGED phase
-----------------------------------------------------------------------------
Overdue(who) == slow < MaxSlow /\ slow' = slow + 1 /\ excuse' = excuse \cup who
InTime       == UNCHANGED <<slow, excuse>>

\* Mutant: the server is closed instead of shut down.
CloseServer ==
  /\ At("http") /\ InTime
  /\ Quiet /\ UNCHANGED <<life, stopping, closed>>

(* server.Shutdown: waits for the requests, at most                        *)
(* gracefulShutdownTimeout; those that are left go on.                     *)
ShutdownServer ==
  /\ At("http")
  /\ IF busy \cap Call = {} THEN InTime ELSE Overdue(busy \cap Call)
  /\ Quiet /\ UNCHANGED <<life, stopping, closed>>

StopOf == [rgd |-> "stop rgd", revision |-> "stop revision", repo |-> "stop repo"]
WaitOf == [rgd |-> "wait rgd", revision |-> "wait revision", repo |-> "wait repo"]

(* StopAndWait, the stop: nothing to do for a watcher that does not run,   *)
(* and one whose goroutine has not stored running does not.                *)
StopWatcher(w) ==
  /\ At(StopOf[w])
  /\ stopping' = IF life[w] = "up" THEN stopping \cup {w} ELSE stopping
  /\ excuse' = IF life[w] = "launched" THEN excuse \cup {w} ELSE excuse
  /\ Quiet /\ UNCHANGED <<life, closed, slow>>

\* Mutant: the watcher is told to stop and not waited for.
WaitForNobody(w) ==
  /\ At(WaitOf[w]) /\ InTime
  /\ Quiet /\ UNCHANGED <<life, stopping, closed>>

(* StopAndWait, the wait: until its goroutine has ended, at most           *)
(* watcherStopTimeout.                                                     *)
AwaitWatcher(w) ==
  /\ At(WaitOf[w])
  /\ IF w \in stopping /\ life[w] = "up" THEN Overdue({w}) ELSE InTime
  /\ Quiet /\ UNCHANGED <<life, stopping, closed>>

(* InstanceTracker.Stop removes its handlers, and does not wait for one    *)
(* that runs.                                                              *)
StopTracker ==
  /\ At("tracker") /\ tracked' = {} /\ stopping' = stopping \cup {"tracker"}
  /\ excuse' = excuse \cup (busy \cap {"tracker"})
  /\ UNCHANGED <<life, event, known, registered, busy, closed, moved, slow>>

(* The audit recorder is flushed and closed; the Redis client is closed.   *)
Close(r) ==
  /\ At(r) /\ closed' = closed \cup {r} /\ InTime
  /\ Quiet /\ UNCHANGED <<life, stopping>>

StartupStep == Launch("rgd") \/ Launch("revision") \/ LaunchRepo \/ ListKnown \/ Register
ShutdownStep ==
  \/ ShutdownServer \/ StopTracker \/ Close("audit") \/ Close("redis")
  \/ \E w \in Watcher : StopWatcher(w) \/ AwaitWatcher(w)
Next ==
  \/ StartupStep \/ Signal \/ ShutdownStep
  \/ HandleChange \/ Resync \/ NotifyChange
  \/ \E w \in {"rgd", "revision"} : Begin(w)
  \/ \E w \in Watcher : End(w)
  \/ \E w \in {"revision", "repo", "tracker"} : CallbackBegins(w)
  \/ \E q \in Call : RequestBegins(q)
  \/ \E b \in busy : Finish(b)

(* Goroutines are scheduled, and informers resynchronise every 10 minutes. *)
Fairness ==
  /\ WF_vars(StartupStep) /\ WF_vars(Begin("rgd"))
  /\ WF_vars(NotifyChange) /\ WF_vars(Resync)

Spec == Init /\ [][Next]_vars /\ Fairness
-----------------------------------------------------------------------------
(* The components are in one of their stages.                              *)
TypeOK ==
  /\ phase \in Phase /\ life \in [Watcher -> {"off", "launched", "up", "ended"}]
  /\ stopping \subseteq Watcher \cup {"tracker"} /\ event \in Rgd \cup {None}
  /\ known \subseteq Rgd /\ tracked \subseteq Rgd /\ registered \in BOOLEAN
  /\ busy \subseteq {"revision", "repo", "tracker"} \cup Call
  /\ closed \subseteq {"audit", "redis"}
  /\ excuse \subseteq Watcher \cup {"tracker"} \cup Call
  /\ moved \in 0..MaxMoves /\ slow \in 0..MaxSlow

(* "Flush audit recorder buffer after watchers that emit audit events are  *)
(* stopped" (app.go:1204): what may record an event after that outlasted   *)
(* its time limit.                                                         *)
AuditIsQuiet == "audit" \in closed => busy \cap ({"repo"} \cup Call) \subseteq excuse

(* No goroutine uses Redis after it was closed but one that outlasted its  *)
(* time limit, had not begun when it was told to stop, or is the           *)
(* tracker's, which is not waited for.                                     *)
RedisIsQuiet ==
  "redis" \in closed =>
    /\ busy \cap (Call \cup {"tracker", "revision"}) \subseteq excuse
    /\ event # None => "rgd" \in excuse

(* An RGD that arrives between the listing and the registration of the     *)
(* tracker gets its informer with the next change or resynchronisation.    *)
EventuallyTracked ==
  \A x \in Rgd : (phase = "ready" /\ x \in known) ~> (phase # "ready" \/ x \in tracked \/ x \notin known)
=============================================================================
