-------------------------------- MODULE Routing --------------------------------
(***************************************************************************)
(* What http_session makes of a request, by its verb, its target, where it *)
(* comes from, and whether it is an upgrade: on_read and handle_request,   *)
(* with the endpoints main () registers.                                   *)
(*                                                                         *)
(* A target is a path and possibly a query.  The pattern made of a path is *)
(* matched against the whole target, query included; only an upgrade's     *)
(* target is cut at the query (class url).  No registered path has a       *)
(* parameter, so a pattern matches the one target it was made of.          *)
(***************************************************************************)
EXTENDS Integers

CONSTANTS
    Files,      \* paths of the files under doc_root besides index.html
    Missing     \* paths that begin with a slash and name no file

Work  == "/api/v1/work"
Queue == "/api/v1/work/queue"
Stop  == "/api/v1/stop"

\* Paths that handle_request refuses: not absolute, or with two dots in them.
Illegal == {"relative", "/../up"}

Verbs == {"GET", "HEAD", "POST", "DELETE"}
Paths == Illegal \cup Files \cup Missing
         \cup {"/", Work, Queue, Stop, "/api/v1/ping", "/api/v1/version", "/websocket"}

\* Only a GET can be an upgrade.
Requests ==
    {req \in [verb : Verbs, path : Paths, query : BOOLEAN, loopback : BOOLEAN, upgrade : BOOLEAN] :
        req.upgrade => req.verb = "GET"}

(* Faulty variant: clearing the queue is registered as another GET. *)
EndpointsClearingByGet ==
    { <<"POST", "/", "work">>,   <<"POST", Work, "work">>,
      <<"GET", Queue, "queue">>, <<"GET", Queue, "clear">>,
      <<"GET", Stop, "stop">>,   <<"GET", "/api/v1/ping", "ping">>,
      <<"GET", "/api/v1/version", "version">> }

Endpoints ==
    { <<"POST", "/", "work">>,   <<"POST", Work, "work">>,
      <<"GET", Queue, "queue">>, <<"DELETE", Queue, "clear">>,
      <<"GET", Stop, "stop">>,   <<"GET", "/api/v1/ping", "ping">>,
      <<"GET", "/api/v1/version", "version">> }

WebSocketEndpoints == { <<"/websocket", "work">> }

Matches(req) == {e \in Endpoints : e[1] = req.verb /\ e[2] = req.path /\ ~req.query}

(* Faulty variant: pages are kept from remote clients by the file asked for. *)
MayReadPagesOfOthers(conf, req) ==
    /\ conf[<<"admin", "enable">>] = "true"
    /\ conf[<<"admin", "allow_remote">>] = "true" \/ req.loopback \/ req.path \notin Files

MayReadPages(conf, req) ==
    /\ conf[<<"admin", "enable">>] = "true"
    /\ conf[<<"admin", "allow_remote">>] = "true" \/ req.loopback

\* path_cat and the index of a directory; a query makes another file name.
FileOf(req) ==
    IF req.query THEN "none"
    ELSE IF req.path = "/" THEN "/index.html" ELSE req.path

(***************************************************************************)
(* disk gives the state of each file.  A file that does not exist is       *)
(* replaced by index.html, and any other failure to open is an error.      *)
(* Every verb but HEAD gets the file's contents.                           *)
(***************************************************************************)
Page(disk, req) ==
    LET exists(f) == f \in DOMAIN disk /\ disk[f] # "absent"
        file == IF exists(FileOf(req)) THEN FileOf(req) ELSE "/index.html"
    IN  CASE ~exists(file)             -> <<"error", "not found">>
          [] disk[file] = "unreadable" -> <<"error", "server error">>
          [] OTHER -> <<IF req.verb = "HEAD" THEN "head" ELSE "page", file>>

(* Several matching endpoints would answer in the order of registration. *)
handle_request(conf, disk, req) ==
    IF req.path \in Illegal THEN {<<"error", "bad request">>}
    ELSE IF Matches(req) # {} THEN {<<"call", e[3]>> : e \in Matches(req)}
    ELSE IF ~MayReadPages(conf, req) THEN {<<"error", "access denied">>}
    ELSE {Page(disk, req)}

\* on_read; an upgrade to an unknown path gets no answer.
Dispatch(conf, disk, req) ==
    IF ~req.upgrade THEN handle_request(conf, disk, req)
    ELSE IF \E e \in WebSocketEndpoints : e[1] = req.path
         THEN {<<"upgraded", req.path>>}
         ELSE {<<"none", "none">>}
===============================================================================
