--------------------------------- MODULE WebUI ---------------------------------
(***************************************************************************)
(* The admin UI in a browser: app.js and app_queue.js.                     *)
(*                                                                         *)
(* Handlers run one at a time, but the results of requests come when they  *)
(* come, also in another order than the requests were sent in: each is     *)
(* sent, then reaches the server, which may be up or down at that moment,  *)
(* and then its callback runs.                                             *)
(*                                                                         *)
(* Time is counted in ticks of the shortest status interval, for the       *)
(* status poll alone: the other timers may end at any moment, so that what *)
(* holds here holds whatever their lengths.                                *)
(***************************************************************************)
EXTENDS Integers, FiniteSets

CONSTANTS
    Interval,     \* status_interval at first, 1200 ms
    BackOffLimit, \* below it the interval is doubled, 3000 ms, rounded up
    Latency,      \* a ping's result takes at most so long
    Listings,     \* what /api/v1/work/queue may answer
    Requests,     \* requests for it that can be under way at a time
    MaxLoops,     \* bound on the loops that ask for it
    MaxSpinners,  \* bound on the timers of show_spinner that run at a time
    MaxTimers     \* bound on those that will hide an alert or a message

ASSUME WebUIAssumption ==
    /\ Interval \in Nat \ {0} /\ BackOffLimit \in Nat /\ Latency \in Nat
    /\ MaxLoops \in Nat /\ MaxSpinners \in Nat /\ MaxTimers \in Nat
    /\ Listings \cap {"idle", "sent", "failed"} = {}

VARIABLES
    up,               \* the server is reachable
    listing,          \* its queue
    steady,           \* ticks since it last went up or down, counted up to Settled
    status_interval,
    statusTimer,      \* ticks until the next ping
    pings,            \* pings under way: their age, and how they ended
    status_network,   \* "Server unavailable" is shown
    loops,            \* timers that will call queue_show
    request,          \* what became of each request for the queue
    table,            \* the listing the page shows
    spinner_started,
    spinnerTimers,    \* timers of show_spinner that are running
    spinner,          \* the spinner is shown
    failed,           \* history: a request failed since the last that succeeded
    click,            \* a menu item that was chosen, and how far it is
    area,             \* the areas for errors and for messages: shown or not
    areaTimers        \* timers running that will hide each

server == <<up, listing, steady>>
status == <<status_interval, statusTimer, pings, status_network>>
queue  == <<loops, request, table, spinner_started, spinnerTimers, spinner, failed>>
menu   == <<click, area, areaTimers>>
vars   == <<server, status, queue, menu>>

Nothing == "nothing"     \* no listing yet
Areas == {"alert", "success"}
Idle  == <<"none", "idle">>

\* The longest the interval becomes, and when the status must have settled.
Doubled[n \in Nat \ {0}] == IF n < BackOffLimit THEN Doubled[2 * n] ELSE n
Settled == Doubled[Interval] + 2 * Latency + 1

(* At another path than / and /queue, index.html starts with no listing. *)
Init ==
    /\ up \in BOOLEAN /\ listing \in Listings /\ steady = 0
    /\ status_interval = Interval
    /\ statusTimer = 0
    /\ pings = {}
    /\ status_network = FALSE
    /\ loops = 0
    /\ request = [r \in Requests |-> "idle"]
    /\ table = Nothing
    /\ spinner_started = FALSE /\ spinnerTimers = 0 /\ spinner = FALSE
    /\ failed = FALSE
    /\ click = Idle
    /\ area = [a \in Areas |-> FALSE]
    /\ areaTimers = [a \in Areas |-> 0]

-------------------------------------------------------------------------------
(* The server starts, ends, or goes on with its queue. *)
ServerChanges ==
    /\ up' = ~up
    /\ steady' = 0
    /\ UNCHANGED <<listing, status, queue, menu>>

QueueChanges ==
    /\ listing' \in Listings \ {listing}
    /\ UNCHANGED <<up, steady, status, queue, menu>>

-------------------------------------------------------------------------------
(* The next ping is sent, and the timer started, with the interval as it   *)
(* is before the result is known.                                          *)
update_status_loop ==
    /\ statusTimer = 0
    /\ pings' = pings \cup {[age |-> 0, result |-> "none"]}
    /\ statusTimer' = status_interval
    /\ UNCHANGED <<server, status_interval, status_network, queue, menu>>

PingReaches ==
    /\ \E p \in pings :
          /\ p.result = "none"
          /\ pings' = (pings \ {p}) \cup {[p EXCEPT !.result = IF up THEN "done" ELSE "fail"]}
    /\ UNCHANGED <<server, status_interval, statusTimer, status_network, queue, menu>>

(* Faulty variant: the interval is doubled each time. *)
BackedOffForEver(interval) == 2 * interval

BackedOff(interval) == IF interval < BackOffLimit THEN 2 * interval ELSE interval

\* The callback of a ping, done () or fail ().
PingEnds ==
    /\ \E p \in pings :
          /\ p.result # "none"
          /\ pings' = pings \ {p}
          /\ status_network' = (p.result = "fail")
          /\ status_interval' =
                IF p.result = "fail" THEN BackedOff(status_interval) ELSE Interval
    /\ UNCHANGED <<server, statusTimer, queue, menu>>

Tick ==
    /\ statusTimer > 0
    /\ \A p \in pings : p.age < Latency
    /\ statusTimer' = statusTimer - 1
    /\ pings' = {[p EXCEPT !.age = @ + 1] : p \in pings}
    /\ steady' = IF steady < Settled THEN steady + 1 ELSE steady
    /\ UNCHANGED <<up, listing, status_interval, status_network, queue, menu>>

-------------------------------------------------------------------------------
show_spinner ==
    /\ spinnerTimers < MaxSpinners
    /\ spinner_started' = TRUE
    /\ spinnerTimers' = spinnerTimers + 1
    /\ UNCHANGED spinner

(* Faulty variant: the spinner is only hidden. *)
hide_spinnerOnly ==
    /\ spinner' = FALSE
    /\ UNCHANGED <<spinner_started, spinnerTimers>>

hide_spinner ==
    /\ spinner_started' = FALSE
    /\ spinner' = FALSE
    /\ UNCHANGED spinnerTimers

SpinnerTimeout ==
    /\ spinnerTimers > 0
    /\ spinnerTimers' = spinnerTimers - 1
    /\ spinner' = (spinner \/ spinner_started)
    /\ UNCHANGED <<server, status, loops, request, table, spinner_started, failed, menu>>

(* Ask for the listing; the caller says what loops there are afterwards. *)
queue_show ==
    /\ show_spinner
    /\ area' = [area EXCEPT !["alert"] = FALSE]
    /\ \E r \in Requests :
          /\ request[r] = "idle"
          /\ request' = [request EXCEPT ![r] = "sent"]
    /\ UNCHANGED <<server, status, table, failed, click, areaTimers>>

\* Each visit of /queue starts a loop that goes on for ever.
Navigate ==
    /\ loops < MaxLoops
    /\ loops' = loops + 1
    /\ queue_show

QueueTimeout ==
    /\ loops > 0
    /\ UNCHANGED loops
    /\ queue_show

RequestReaches(r) ==
    /\ request[r] = "sent"
    /\ request' = [request EXCEPT ![r] = IF up THEN listing ELSE "failed"]
    /\ UNCHANGED <<server, status, loops, table, spinner_started, spinnerTimers, spinner,
                   failed, menu>>

(* Faulty variant: the next call of queue_show waits for an answer. *)
QueueFailsEndingLoop(r) ==
    /\ request[r] = "failed"
    /\ request' = [request EXCEPT ![r] = "idle"]
    /\ failed' = TRUE
    /\ loops' = IF loops > 0 THEN loops - 1 ELSE 0
    /\ UNCHANGED <<server, status, table, spinner_started, spinnerTimers, spinner, menu>>

\* There is no callback for a request that fails.
QueueFails(r) ==
    /\ request[r] = "failed"
    /\ request' = [request EXCEPT ![r] = "idle"]
    /\ failed' = TRUE
    /\ UNCHANGED <<server, status, loops, table, spinner_started, spinnerTimers, spinner, menu>>

QueueAnswered(r) ==
    /\ request[r] \in Listings
    /\ request' = [request EXCEPT ![r] = "idle"]
    /\ table' = request[r]
    /\ failed' = FALSE
    /\ hide_spinner
    /\ UNCHANGED <<server, status, loops, menu>>

-------------------------------------------------------------------------------
(* Clear queue or Stop server is chosen. *)
Choose ==
    /\ click = Idle
    /\ \E item \in {"clear", "stop"} : click' = <<item, "sent">>
    /\ UNCHANGED <<server, status, queue, area, areaTimers>>

\* With allow_control off the server answers with an error.
ClickReaches ==
    /\ click[2] = "sent"
    /\ \/ up /\ click' = <<click[1], "error">> /\ UNCHANGED server
       \/ /\ up
          /\ click' = <<click[1], "success">>
          /\ IF click[1] = "stop" THEN up' = FALSE /\ steady' = 0 /\ UNCHANGED listing
             ELSE listing' \in Listings /\ UNCHANGED <<up, steady>>
       \/ ~up /\ click' = Idle /\ UNCHANGED server
    /\ UNCHANGED <<status, queue, area, areaTimers>>

(* Faulty variant: one timer for all that is shown. *)
ShowInOneTimer(a) ==
    /\ area' = [area EXCEPT ![a] = TRUE]
    /\ areaTimers' = IF \E b \in Areas : areaTimers[b] > 0 THEN areaTimers
                     ELSE [areaTimers EXCEPT ![a] = @ + 1]

\* show_alert and show_message: timers already running are left to run.
Show(a) ==
    /\ areaTimers["alert"] + areaTimers["success"] < MaxTimers
    /\ area' = [area EXCEPT ![a] = TRUE]
    /\ areaTimers' = [areaTimers EXCEPT ![a] = @ + 1]

ClickAnswered ==
    /\ click[2] \in {"error", "success"}
    /\ Show(IF click[2] = "error" THEN "alert" ELSE "success")
    /\ click' = Idle
    /\ UNCHANGED <<server, status, queue>>

\* hide_alert and hide_message, by any of the timers.
AreaTimeout(a) ==
    /\ areaTimers[a] > 0
    /\ areaTimers' = [areaTimers EXCEPT ![a] = @ - 1]
    /\ area' = [area EXCEPT ![a] = FALSE]
    /\ UNCHANGED <<server, status, queue, click>>

-------------------------------------------------------------------------------
StatusStep == update_status_loop \/ PingReaches \/ PingEnds \/ Tick

PageStep ==
    \/ Navigate \/ QueueTimeout \/ SpinnerTimeout
    \/ \E r \in Requests : RequestReaches(r) \/ QueueFails(r) \/ QueueAnswered(r)
    \/ Choose \/ ClickReaches \/ ClickAnswered \/ \E a \in Areas : AreaTimeout(a)

ServerStep == ServerChanges \/ QueueChanges

(* Timers end, and requests fail or are answered. *)
PageFairness ==
    /\ WF_vars(QueueTimeout) /\ WF_vars(SpinnerTimeout)
    /\ \A r \in Requests :
          WF_vars(RequestReaches(r)) /\ WF_vars(QueueFails(r) \/ QueueAnswered(r))
    /\ WF_vars(ClickReaches) /\ WF_vars(ClickAnswered)
    /\ \A a \in Areas : WF_vars(AreaTimeout(a))

Next == StatusStep \/ PageStep \/ ServerStep

Spec == Init /\ [][Next]_vars /\ PageFairness
-------------------------------------------------------------------------------
(* Type correctness; the interval is one of those that doubling leads to. *)
TypeOK ==
    /\ up \in BOOLEAN /\ listing \in Listings /\ steady \in 0 .. Settled
    /\ status_interval \in Interval .. Doubled[Interval]
    /\ statusTimer \in 0 .. Doubled[Interval]
    /\ pings \subseteq [age : 0 .. Latency, result : {"none", "done", "fail"}]
    /\ loops \in 0 .. MaxLoops
    /\ request \in [Requests -> {"idle", "sent", "failed"} \cup Listings]
    /\ table \in Listings \cup {Nothing}
    /\ {status_network, spinner_started, spinner, failed} \subseteq BOOLEAN
    /\ spinnerTimers \in 0 .. MaxSpinners
    /\ click \in ({"clear", "stop"} \X {"sent", "error", "success"}) \cup {Idle}
    /\ area \in [Areas -> BOOLEAN] /\ areaTimers \in [Areas -> 0 .. MaxTimers]

(***************************************************************************)
(* "quick feedback when the process is available again" (app.js:142), and  *)
(* when it no longer is: once the server has stayed as it is for the       *)
(* longest interval and twice the time a ping takes, the page says so,     *)
(* although pings may end out of order and the timer starts before the     *)
(* result.  Once would not do: a result from before the change may come    *)
(* last, and the ping sent after it has a time of its own to take.         *)
(***************************************************************************)
FeedbackInTime ==
    steady = Settled => /\ status_network = ~up
                        /\ up => status_interval = Interval

(***************************************************************************)
(* The spinner is shown only while a listing is asked for, or after that   *)
(* failed, although the timers that show it go on when an answer comes     *)
(* first, and an answer to one request hides it for all.                   *)
(***************************************************************************)
SpinnerMeansWaiting ==
    spinner => failed \/ \E r \in Requests : request[r] # "idle"

(***************************************************************************)
(* Whatever earlier timers hide, and however often, an alert or a message  *)
(* that is shown will be hidden.                                           *)
(***************************************************************************)
MessagesGoAway == \A a \in Areas : area[a] ~> ~area[a]

(***************************************************************************)
(* A server that comes back and whose queue no longer changes is shown as  *)
(* it is, with no spinner left, on a page that shows the queue: failures   *)
(* do not end the loop, and answers that come late are replaced.           *)
(***************************************************************************)
ListingCatchesUp ==
    \A l \in Listings :
        <>(loops > 0) /\ <>[](up /\ listing = l) => <>[](table = l) /\ []<>~spinner
===============================================================================
