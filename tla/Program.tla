-------------------------------- MODULE Program --------------------------------
(***************************************************************************)
(* main () over several starts of the program: it writes a documented      *)
(* configuration, reads a file and the overrides of its command line, and  *)
(* serves requests as they say.  Between starts the user edits the file.   *)
(***************************************************************************)
EXTENDS Config, FiniteSets

CONSTANTS
    Files, Missing,   \* as in Routing
    FileEdits,        \* settings and values the user may write in the file
    Overrides,        \* documents the command line may give
    DeviceTables,     \* device tables of a file: how they are given, and they
    Difficulties,     \* texts the user may give as base_difficulty
    MaxEdits          \* bound on the edits of a file

R == INSTANCE Routing

Given == {"none", "table", "array", "scalar"}   \* what the key device may be

GivenDifficulty == [given : {"none", "text", "mistyped"}, text : HexTexts]

\* A document the parser can be given; it has device tables as its key device says.
IsDocument(doc) ==
    /\ doc.valid \in BOOLEAN
    /\ DOMAIN doc.values \subseteq Settings
    /\ doc.base_difficulty \in GivenDifficulty
    /\ doc.device \in Given
    /\ doc.device \in {"none", "scalar"} => doc.devices = <<>>
    /\ doc.device = "table" => DOMAIN doc.devices = {1}

ASSUME ProgramAssumption ==
    /\ \A e \in FileEdits : e[1] \in Settings
    /\ \A o \in Overrides : IsDocument(o) /\ o.device # "array"
    /\ \A d \in DeviceTables :
          IsDocument([Empty EXCEPT !.device = d.given, !.devices = d.tables])
    /\ Difficulties \subseteq HexTexts
    /\ MaxEdits \in Nat

VARIABLES
    file,       \* the configuration file
    generated,  \* the file was written by the program and not edited but by
                \* removing comment signs
    edits,      \* how many times it was edited
    overrides,  \* the values of --config
    phase,      \* stopped, failed or serving
    conf,       \* the config object
    request,    \* the last request
    reply       \* and what it got

vars == <<file, generated, edits, overrides, phase, conf, request, reply>>
NoRequest == [verb |-> "none"]
NoReply   == <<"none", "none">>
NoConfig  == read(Empty)     \* stands for a config object that does not exist

\* What the files of the admin UI may be; they may change at any time.
Disks == [Files \cup {"/index.html"} -> {"present", "absent", "unreadable"}]

\* The program has ended, and nothing is left of it but the file.
Clear == overrides' = Empty /\ conf' = NoConfig /\ request' = NoRequest /\ reply' = NoReply

Init ==
    /\ file = Empty /\ generated = FALSE /\ edits = 0
    /\ overrides = Empty
    /\ phase = "stopped"
    /\ conf = NoConfig
    /\ request = NoRequest
    /\ reply = NoReply

-------------------------------------------------------------------------------
(* --generate_config, its output kept as the configuration file. *)
Generate ==
    /\ phase # "serving"
    /\ file' = export_documented
    /\ generated' = TRUE
    /\ edits' = 0
    /\ Clear
    /\ UNCHANGED phase

Edited(newFile) ==
    /\ phase # "serving"
    /\ edits < MaxEdits
    /\ edits' = edits + 1
    /\ file' = newFile
    /\ Clear
    /\ UNCHANGED phase

(* The user removes the comment sign before a documented value. *)
Uncomment ==
    /\ generated
    /\ \/ \E k \in WrittenSettings :
             Edited([file EXCEPT !.values = KeepFirst(@, [j \in {k} |-> default(j)])])
       \/ Edited([file EXCEPT !.base_difficulty = Difficulty(writtenDifficulty)])
       \/ \E k \in DOMAIN writtenDevice :
             Edited([file EXCEPT !.devices =
                         <<KeepFirst(@[1], [j \in {k} |-> writtenDevice[j]])>>])
    /\ UNCHANGED generated

(* The user writes values of their own, or breaks the file's syntax or mends it. *)
Edit ==
    /\ \/ \E e \in FileEdits :
             Edited([file EXCEPT !.values = KeepFirst([j \in {e[1]} |-> e[2]], @)])
       \/ \E d \in DeviceTables : Edited([file EXCEPT !.device = d.given, !.devices = d.tables])
       \/ \E d \in {Difficulty(t) : t \in Difficulties} \cup {Mistyped} :
             Edited([file EXCEPT !.base_difficulty = d])
       \/ Edited([file EXCEPT !.valid = ~@])
    /\ generated' = FALSE

(* main () up to the call of start (). *)
Start ==
    /\ phase # "serving"
    /\ overrides' \in Overrides
    /\ LET tree == merge(overrides', file)
       IN  IF throws(tree)
           THEN phase' = "failed" /\ conf' = NoConfig
           ELSE phase' = "serving" /\ conf' = read(tree)
    /\ request' = NoRequest
    /\ reply' = NoReply
    /\ UNCHANGED <<file, generated, edits>>

Allowed == conf.settings[<<"server", "allow_control">>] = "true"

\* The handlers main () registers; two of them need allow_control.
Handler(name) ==
    IF name \in {"stop", "clear"} /\ ~Allowed
    THEN <<"error", "not allowed">>
    ELSE <<"done", name>>

(* A request arrives; the stop endpoint ends the program.  No request has  *)
(* an effect on the next, so one is enough between two starts.             *)
Serve ==
    /\ phase = "serving"
    /\ request = NoRequest
    /\ request' \in R!Requests
    /\ \E disk \in Disks : \E r \in R!Dispatch(conf.settings, disk, request') :
          reply' = IF r[1] = "call" THEN Handler(r[2]) ELSE r
    /\ phase' = IF reply' = <<"done", "stop">> THEN "stopped" ELSE "serving"
    /\ UNCHANGED <<file, generated, edits, overrides, conf>>

(* A signal. *)
Stop ==
    /\ phase = "serving"
    /\ phase' = "stopped"
    /\ Clear
    /\ UNCHANGED <<file, generated, edits>>

Next == Generate \/ Uncomment \/ Edit \/ Start \/ Serve \/ Stop

Spec == Init /\ [][Next]_vars
-------------------------------------------------------------------------------
(* Type correctness; the file and the overrides are documents. *)
TypeOK ==
    /\ IsDocument(file) /\ IsDocument(overrides) /\ overrides.device # "array"
    /\ generated \in BOOLEAN /\ edits \in 0 .. MaxEdits
    /\ phase \in {"stopped", "failed", "serving"}
    /\ DOMAIN conf.settings = Settings
    /\ conf.base_difficulty \in [1 .. SIZE_BYTES -> 0 .. 255]
    /\ request = NoRequest \/ request \in R!Requests

\* What a user who wrote a setting wants of it: the command line comes first.
Wanted(k) ==
    IF k \in DOMAIN overrides.values THEN overrides.values[k]
    ELSE IF k \in DOMAIN file.values THEN file.values[k] ELSE default(k)

(***************************************************************************)
(* Nobody is given more than the user has allowed, and did not take back   *)
(* on the command line: the queue is cleared and the server stopped with   *)
(* allow_control only, and pages are sent to remote clients with           *)
(* allow_remote as well, also index.html for a file that does not exist.   *)
(***************************************************************************)
NothingUnwanted ==
    /\ reply \in {<<"done", "stop">>, <<"done", "clear">>} =>
          Wanted(<<"server", "allow_control">>) = "true"
    /\ reply[1] \in {"page", "head"} =>
          /\ Wanted(<<"admin", "enable">>) = "true"
          /\ request.loopback \/ Wanted(<<"admin", "allow_remote">>) = "true"

(***************************************************************************)
(* Every request the documentation lists gets to its handler, whatever the *)
(* configuration and the files, and an upgrade of its WebSocket path is    *)
(* one; of control requests that are not allowed the client is told so.    *)
(***************************************************************************)
DocumentedRequests ==
    { <<"POST", "/api/v1/work", "work">>, <<"POST", "/", "work">>,
      <<"GET", "/api/v1/ping", "ping">>, <<"GET", "/api/v1/version", "version">>,
      <<"GET", "/api/v1/work/queue", "queue">>, <<"DELETE", "/api/v1/work/queue", "clear">>,
      <<"GET", "/api/v1/stop", "stop">> }

DocumentedRequestsHandled ==
    request # NoRequest =>
        /\ request.upgrade /\ request.path = "/websocket" =>
              reply = <<"upgraded", "/websocket">>
        /\ \A d \in DocumentedRequests :
              /\ request.verb = d[1] /\ request.path = d[2]
              /\ ~request.query /\ ~request.upgrade
              => \/ reply = <<"done", d[3]>>
                 \/ reply = <<"error", "not allowed">> /\ d[3] \in {"clear", "stop"}

\* The same for a key of a device: only the first device can be given in both.
WantedOfDevice(i, k) ==
    IF i \in DOMAIN overrides.devices /\ k \in DOMAIN overrides.devices[i]
    THEN overrides.devices[i][k]
    ELSE IF i \in DOMAIN file.devices /\ k \in DOMAIN file.devices[i]
    THEN file.devices[i][k] ELSE deviceDefault[k]

WantedDifficulty ==
    LET first == FirstGiven(overrides.base_difficulty, file.base_difficulty)
    IN  IF first.given = "text" THEN first.text ELSE BASE_DIFFICULTY

Typed(value, other) == IF value = "mistyped" THEN other ELSE value

(***************************************************************************)
(* What the user writes is what the server has: the value of each setting, *)
(* the difficulty, all of it and no other, and each device key by key; a   *)
(* value of another type is none.  A server does not start on a text that  *)
(* is not TOML, on numbers out of range, or with a device of a type it     *)
(* does not know.                                                          *)
(***************************************************************************)
SettingsObeyed ==
    phase = "serving" =>
        /\ file.valid /\ overrides.valid
        /\ \A k \in Settings :
              /\ conf.settings[k] = Typed(Wanted(k), default(k))
              /\ conf.settings[k] # "out_of_range"
        /\ DOMAIN conf.devices = DOMAIN (IF overrides.device = "none"
                                        THEN file.devices ELSE overrides.devices)
        /\ \A i \in DOMAIN conf.devices :
              /\ \A k \in DeviceKeys :
                    conf.devices[i][k] = Typed(WantedOfDevice(i, k), deviceDefault[k])
              /\ ~Refused(conf.devices[i])
        /\ LET zeros == [i \in 1 .. 2 * SIZE_BYTES - Len(WantedDifficulty) |-> 0]
           IN  to_hex(conf.base_difficulty) = zeros \o WantedDifficulty

(***************************************************************************)
(* A documented file, with any comment signs removed, configures a server  *)
(* as no file does, but for one thing: it has a device.                    *)
(***************************************************************************)
GeneratedFileIsNeutral ==
    phase = "serving" /\ generated /\ overrides = Empty =>
        /\ conf.settings = read(Empty).settings
        /\ conf.base_difficulty = read(Empty).base_difficulty
        /\ Len(conf.devices) = 1
===============================================================================
