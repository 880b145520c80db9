------------------------------ MODULE Lifecycle ------------------------------
(***************************************************************************)
(* The process of the content service and that of the notification         *)
(* service: what they open, start, stop and close, and in which order.     *)
(* Requests and workers run beside the main goroutine and may hang for     *)
(* ever; it waits for them no longer than the shutdown budget.  The        *)
(* RabbitMQ channel and its connection are one dependency here.            *)
(***************************************************************************)
EXTENDS Naturals, Sequences

CONSTANTS
    Workers,     \* background workers of the process
    MaxRequests  \* requests at a time (bounds the model)

VARIABLES
    service,   \* whose process it is
    step,      \* where the main goroutine is
    opened,    \* how many dependencies were opened
    closed,    \* how often each of them was closed
    ready,     \* readinessSwitch of the content service
    worker,    \* workers: "none", "running" or "ended"
    cancelled, \* whether the context of the workers was cancelled
    served,    \* the goroutine that accepts connections
    requests,  \* requests being handled
    shutdown,  \* whether server.Shutdown was called
    expired,   \* whether the budget ran out
    asked,     \* who asked the process to stop
    path       \* history: why the dependencies are closed

vars == <<service, step, opened, closed, ready, worker, cancelled, served, requests,
          shutdown, expired, asked, path>>

Dependencies ==
    IF service = "content" THEN <<"postgres", "mongo", "redis_rate_limit", "rabbitmq">>
                           ELSE <<"postgres", "redis", "rabbitmq">>

Init ==
    /\ service \in {"content", "notification"}
    /\ step = "Open" /\ opened = 0 /\ closed = [d \in 1..4 |-> 0] /\ ready = FALSE
    /\ worker = [w \in Workers |-> "none"] /\ cancelled = FALSE
    /\ served = "no" /\ requests = 0 /\ shutdown = FALSE /\ expired = FALSE
    /\ asked = "nobody" /\ path = "none"

processes == <<worker, served, requests, expired, asked>>

Stopping == step \in {"Workers", "HTTP", "Await"}

-----------------------------------------------------------------------------
(* Starting *)

\* Opening or its first ping may fail; what was opened before is closed, and so is
\* what did not answer.  The last step builds the module.
Opens ==
    /\ step = "Open"
    /\ \/ /\ opened < Len(Dependencies) /\ opened' = opened + 1
          /\ UNCHANGED <<step, path>>
       \/ /\ opened < Len(Dependencies) /\ opened' \in {opened, opened + 1}
          /\ step' = "Close" /\ path' = "start"
       \/ /\ opened = Len(Dependencies) /\ step' \in {"Listen", "Close"}
          /\ path' = (IF step' = "Close" THEN "start" ELSE path)
          /\ UNCHANGED opened
    /\ UNCHANGED <<service, closed, ready, cancelled, shutdown, processes>>

OpenContentRuntimeDependencies == service = "content" /\ Opens
OpenNotificationRuntimeDependencies == service = "notification" /\ Opens

ListenFails == step' = "Close" /\ path' = "start"

Listen ==
    /\ step = "Listen"
    /\ ListenFails \/ (step' = "Start" /\ UNCHANGED path)
    /\ UNCHANGED <<service, opened, closed, ready, cancelled, shutdown, processes>>

\* The content service is ready before its workers start, which fails only if the
\* process was cancelled by then.
RunContentServer ==
    /\ service = "content" /\ step = "Start"
    /\ IF asked = "cancel"
       THEN step' = "Close" /\ path' = "start" /\ UNCHANGED <<ready, worker, served>>
       ELSE /\ ready' = TRUE /\ worker' = [w \in Workers |-> "running"]
            /\ served' = "serving" /\ step' = "Serve" /\ UNCHANGED path
    /\ UNCHANGED <<service, opened, closed, cancelled, requests, shutdown, expired, asked>>

StartModule ==
    /\ service = "notification" /\ step = "Start"
    /\ worker' = [w \in Workers |-> "running"] /\ served' = "serving" /\ step' = "Serve"
    /\ UNCHANGED <<service, opened, closed, ready, cancelled, requests, shutdown, expired, asked, path>>

-----------------------------------------------------------------------------
(* What goes on beside the main goroutine *)

AskToStop ==
    /\ asked = "nobody" /\ step # "Exited" /\ asked' \in {"signal", "cancel"}
    /\ UNCHANGED <<service, step, opened, closed, ready, worker, cancelled, served, requests,
                   shutdown, expired, path>>

\* Connections that are kept alive go on when the listener has failed.
Arrive ==
    /\ served \in {"serving", "failed"} /\ ~shutdown /\ step # "Exited"
    /\ requests < MaxRequests /\ requests' = requests + 1
    /\ UNCHANGED <<service, step, opened, closed, ready, worker, cancelled, served, shutdown,
                   expired, asked, path>>

Answer ==
    /\ requests > 0 /\ step # "Exited" /\ requests' = requests - 1
    /\ UNCHANGED <<service, step, opened, closed, ready, worker, cancelled, served, shutdown,
                   expired, asked, path>>

ServeReturns ==
    /\ served = "serving"
    /\ served' = IF shutdown THEN "ended" ELSE "failed"
    /\ UNCHANGED <<service, step, opened, closed, ready, worker, cancelled, requests, shutdown,
                   expired, asked, path>>

\* A worker of the content service ends with its first error; one of the notification
\* service survives errors and panics.
PollingWorkerEnds(w) == service = "content" /\ worker[w] = "running"
LoopWorkerEnds(w) == service = "notification" /\ worker[w] = "running" /\ (cancelled \/ asked = "cancel")

WorkerEnds(w) ==
    /\ step # "Exited" /\ (PollingWorkerEnds(w) \/ LoopWorkerEnds(w))
    /\ worker' = [worker EXCEPT ![w] = "ended"]
    /\ UNCHANGED <<service, step, opened, closed, ready, cancelled, served, requests, shutdown,
                   expired, asked, path>>

BudgetEnds ==
    /\ Stopping /\ ~expired /\ expired' = TRUE
    /\ UNCHANGED <<service, step, opened, closed, ready, worker, cancelled, served, requests,
                   shutdown, asked, path>>

-----------------------------------------------------------------------------
(* Stopping *)

Goes(to) ==
    /\ step' = to
    /\ cancelled' = (cancelled \/ to = "Workers")
    /\ shutdown' = (shutdown \/ to = "HTTP")
    /\ UNCHANGED <<service, opened, closed, processes>>

\* When the listener failed the content service closes what it opened and returns.
ContentServeFails ==
    /\ service = "content" /\ step = "Serve" /\ served = "failed"
    /\ path' = "failed" /\ Goes("Close") /\ UNCHANGED ready

NotificationServeFails ==
    /\ service = "notification" /\ step = "Serve" /\ served = "failed"
    /\ path' = "failed" /\ Goes("Workers") /\ UNCHANGED ready

\* "Readiness flips first", then the workers are told to stop.
ShutdownContentServer ==
    /\ service = "content" /\ step = "Serve" /\ asked # "nobody"
    /\ ready' = FALSE /\ path' = "shutdown" /\ Goes("Workers")

ShutdownNotificationServer ==
    /\ service = "notification" /\ step = "Serve" /\ asked # "nobody"
    /\ path' = "shutdown" /\ Goes("HTTP") /\ UNCHANGED ready

WrongCollected == \E w \in Workers : worker[w] = "ended"

\* One result per worker, those of workers that ended long ago included
Collected == \A w \in Workers : worker[w] = "ended"

\* The budget is the same for all the steps.
WaitWorkers ==
    /\ step = "Workers" /\ (Collected \/ expired)
    /\ Goes(IF service = "content" THEN "HTTP"
            ELSE IF path = "failed" THEN "Close" ELSE "Await")
    /\ UNCHANGED <<ready, path>>

WrongDrained == requests = 0

Drained == requests = 0 \/ expired

WaitRequests ==
    /\ step = "HTTP" /\ Drained
    /\ Goes(IF service = "content" THEN "Await" ELSE "Workers")
    /\ UNCHANGED <<ready, path>>

\* <-serveErr has no budget: Shutdown has closed the listener.
AwaitServe ==
    /\ step = "Await" /\ served # "serving" /\ Goes("Close") /\ UNCHANGED <<ready, path>>

\* In the order they were opened; an error stops neither the others nor the process.
CloseNamedClosers ==
    /\ step = "Close"
    /\ LET left == {d \in 1..opened : closed[d] = 0} IN
       IF left = {} THEN step' = "Exited" /\ UNCHANGED closed
       ELSE closed' = [closed EXCEPT ![CHOOSE d \in left : \A e \in left : d <= e] = @ + 1]
            /\ UNCHANGED step
    /\ UNCHANGED <<service, opened, ready, cancelled, shutdown, processes, path>>

Main ==
    \/ OpenContentRuntimeDependencies \/ OpenNotificationRuntimeDependencies
    \/ Listen \/ RunContentServer \/ StartModule
    \/ ContentServeFails \/ NotificationServeFails
    \/ ShutdownContentServer \/ ShutdownNotificationServer
    \/ WaitWorkers \/ WaitRequests \/ AwaitServe \/ CloseNamedClosers

Next ==
    \/ Main \/ AskToStop \/ Arrive \/ Answer \/ ServeReturns \/ BudgetEnds
    \/ \E w \in Workers : WorkerEnds(w)

\* The main goroutine goes on whenever it can, server.Shutdown makes Serve return, and the
\* deadline of the budget comes.  Nothing is assumed of workers and requests.
Fairness == WF_vars(Main) /\ WF_vars(ServeReturns) /\ WF_vars(BudgetEnds)

Spec == Init /\ [][Next]_vars /\ Fairness

-----------------------------------------------------------------------------
TypeOK ==
    /\ opened \in 0..Len(Dependencies) /\ closed \in [1..4 -> Nat]
    /\ worker \in [Workers -> {"none", "running", "ended"}] /\ requests \in 0..MaxRequests

\* A dependency is closed under nobody's feet: when a process was asked to stop and kept
\* to its budget, every request was answered, every worker has ended and nobody is
\* told that it is ready before the first one is closed.
DrainedBeforeClosed ==
    path = "shutdown" /\ ~expired /\ (\E d \in 1..4 : closed[d] > 0) =>
        requests = 0 /\ ~ready /\ \A w \in Workers : worker[w] = "ended"

\* Whichever step of starting, serving or stopping failed, what was opened has been
\* closed, once, by the time the process ends.
ClosedOnce ==
    /\ \A d \in 1..4 : closed[d] <= (IF d <= opened THEN 1 ELSE 0)
    /\ step = "Exited" => \A d \in 1..opened : closed[d] = 1

\* A process that was asked to stop ends, even if a request or a worker never does.
StopsWhenAsked == step = "Serve" /\ asked # "nobody" ~> step = "Exited"

-----------------------------------------------------------------------------
(* The inductive invariant of the two *)

Started == {"Open", "Listen", "Start", "Serve"}
Closing == {"Close", "Exited"}

StepsInOrder ==
    /\ service \in {"content", "notification"}
    /\ step \in Started \cup {"Workers", "HTTP", "Await"} \cup Closing
    /\ step \in Started => path # "shutdown"
    /\ (\E d \in 1..4 : closed[d] > 0) => step \in Closing
    /\ step = "HTTP" => shutdown
    /\ service = "notification" => ~ready

\* The workers are waited for before the requests by one service, and after them by the
\* other.  No request arrives after Shutdown, and no worker starts after Serve.
AfterWorkers == Closing \cup (IF service = "content" THEN {"HTTP", "Await"} ELSE {"Await"})
AfterRequests == Closing \cup (IF service = "content" THEN {"Await"} ELSE {"Workers", "Await"})

WaitedFor ==
    path = "shutdown" =>
        /\ ~ready
        /\ ~expired /\ step \in AfterWorkers => Collected
        /\ ~expired /\ step \in AfterRequests => shutdown /\ requests = 0

IInv == TypeOK /\ ClosedOnce /\ StepsInOrder /\ WaitedFor
=============================================================================
