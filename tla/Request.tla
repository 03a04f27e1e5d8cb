------------------------------ MODULE Request ------------------------------
(***************************************************************************)
(* src/src/server/handler.c and what it calls for a request: api.c,        *)
(* pipeline_executor.c with the jq, Lua and SQL steps, validation of the   *)
(* fields, and the page's answer of mustache.c.                            *)
(*                                                                         *)
(* libmicrohttpd (MHD) calls handleRequest once when the headers are       *)
(* there, once for each part of the body, and once after the body;         *)
(* handleRequestCompleted when it is done with the request, at any time    *)
(* between two calls.  A connection stays with one thread.  A thread       *)
(* serves several connections, one call at a time.                         *)
(*                                                                         *)
(* pc of a request:                                                        *)
(*   idle, reading               between calls                             *)
(*   route, validate, reference, inside the call that answers              *)
(*   form, pipeline, respond                                               *)
(*   answered, refused           a response is queued; MHD_NO was returned *)
(*   gone                        completed                                 *)
(***************************************************************************)
EXTENDS Routing, Validation

CONSTANTS
  Conns,           \* requests, each on a connection
  Threads,         \* of the daemon
  Placements,      \* the ways in which MHD may give the connections to them
  Messages,        \* what each one's client may send: [method, url, content]
  SpecialUrls,     \* [GET, BODY]: urls that auth.c, github.c and css.c answer
  Keys,            \* names of form and JSON fields
  Texts,           \* values of the fields of a form
  JsonValues,      \* and of a JSON body
  MaxFormFields,   \* MAX_FORM_FIELDS
  MaxCalls,        \* bound on the parts of a body
  MaxFaults        \* bound on failing system calls

ASSUME RequestAssumption ==
  /\ Placements \subseteq [Conns -> Threads]
  /\ None \notin Conns
  /\ MaxFormFields \in Nat /\ MaxCalls \in Nat /\ MaxFaults \in Nat

IsEndpoint(e) == IsSequence(e.pipeline) /\ \A k \in DOMAIN e.fields : IsRules(e.fields[k])

ASSUME SiteAssumption ==
  /\ \A i \in DOMAIN Apis : IsEndpoint(Apis[i])
  /\ \A i \in DOMAIN Pages : IsEndpoint(Pages[i])
  /\ None \notin Texts \cup JsonValues
  /\ \A v \in Texts : IsText(v)
  /\ \A v \in JsonValues : IsText(v) \/ IsNumber(v) \/ v \in {Other, NotJson}
  /\ \A c \in Conns : \A m \in Messages[c] : IsPath(m.url)

(* What the program looks for in a JSON value: its properties error,       *)
(* errors and redirect.  A redirect that is no string is "blank".           *)
Flags == {"error", "errors", "redirect", "blank"}
Values == Texts \cup JsonValues
Contexts == {"NULL", "GET", "POST", "JSON_POST", "MULTIPART"}
Calling == {"route", "validate", "reference", "form", "pipeline", "respond"}
PC == Calling \cup {"idle", "reading", "answered", "refused", "gone"}
Replies == {"none", "special", "200", "302", "400", "404"}

VARIABLES
  thread,     \* of each connection
  pc, message,
  context,    \* *con_cls: its type field, or NULL
  calls,      \* parts of the body received
  entries,    \* post_data, or raw_json as its members
  files,      \* names of the uploads in post->files
  disk,       \* number of temporary files a request has on the disk
  strays,     \* of those, the number that could not be opened
  arena,      \* each request's arena
  jsonArena,  \* currentJsonArena of each thread: whose it is
  json,       \* whose arenas hold a request's JSON values
  match,      \* RouteMatch
  flags,      \* of requestContext
  value,      \* current, in executePipeline: its flags
  step,       \* the next one
  ran,        \* flags of the results of the steps that were executed
  reply, faults

connection == <<thread, message, context>>
body == <<calls, entries, files, disk, strays>>
memory == <<arena, jsonArena>>
pipe == <<flags, value, step, ran>>
vars == <<connection, body, memory, pipe, pc, json, match, reply, faults>>

NoMatch == [type |-> "none", endpoint |-> 0, params |-> {}]

TypeOK ==
  /\ thread \in [Conns -> Threads] /\ pc \in [Conns -> PC]
  /\ \A c \in Conns : message[c] \in Messages[c] \cup {None}
  /\ context \in [Conns -> Contexts]
  /\ calls \in [Conns -> 0..MaxCalls]
  /\ entries \in [Conns -> Seq([key : Keys, value : Values])]
  /\ \A c \in Conns : context[c] \in {"POST", "MULTIPART"} => Len(entries[c]) <= MaxFormFields
  /\ files \in [Conns -> SUBSET Keys]
  /\ disk \in [Conns -> Nat] /\ strays \in [Conns -> Nat]
  /\ arena \in [Conns -> {"none", "live", "freed", "freed twice"}]
  /\ jsonArena \in [Threads -> Conns \cup {None}]
  /\ json \in [Conns -> SUBSET (Conns \cup {None})]
  /\ \A c \in Conns : /\ match[c].type \in {"api", "page", "none"}
                      /\ match[c].endpoint \in Nat
  /\ flags \in [Conns -> SUBSET Flags] /\ value \in [Conns -> SUBSET Flags]
  /\ step \in [Conns -> Nat] /\ ran \in [Conns -> Seq(SUBSET Flags)]
  /\ reply \in [Conns -> Replies] /\ faults \in 0..MaxFaults

Init ==
  /\ thread \in Placements
  /\ pc = [c \in Conns |-> "idle"] /\ message = [c \in Conns |-> None]
  /\ context = [c \in Conns |-> "NULL"]
  /\ calls = [c \in Conns |-> 0] /\ entries = [c \in Conns |-> <<>>]
  /\ files = [c \in Conns |-> {}]
  /\ disk = [c \in Conns |-> 0] /\ strays = [c \in Conns |-> 0]
  /\ arena = [c \in Conns |-> "none"] /\ jsonArena = [t \in Threads |-> None]
  /\ json = [c \in Conns |-> {}] /\ match = [c \in Conns |-> NoMatch]
  /\ flags = [c \in Conns |-> {}] /\ value = [c \in Conns |-> {}]
  /\ step = [c \in Conns |-> 1] /\ ran = [c \in Conns |-> <<>>]
  /\ reply = [c \in Conns |-> "none"] /\ faults = 0

-----------------------------------------------------------------------------
(* Memory *)

Goto(c, l) == pc' = [pc EXCEPT ![c] = l]
ThreadFree(t) == \A c \in Conns : thread[c] = t => pc[c] \notin Calling

(* Mutant: it is not. *)
Local_Global(t) == CHOOSE u \in Threads : TRUE

(* currentJsonArena is thread-local. *)
Local(t) == t
initRequestJsonArena(c) == jsonArena' = [jsonArena EXCEPT ![Local(thread[c])] = c]
cleanupRequestJsonArena(c) == jsonArena' = [jsonArena EXCEPT ![Local(thread[c])] = None]

(* Creating, copying and printing JSON values allocate. *)
jsonArenaMalloc(c) == json' = [json EXCEPT ![c] = @ \cup {jsonArena[Local(thread[c])]}]

freeArena(c) ==
  arena' = [arena EXCEPT ![c] = IF @ = "live" THEN "freed" ELSE "freed twice"]

-----------------------------------------------------------------------------
(* The first call *)

isBodyMethod(m) == m.method \in {"POST", "PUT", "PATCH"}

RequestType(m) == CASE m.content = "json" -> "JSON_POST"
                    [] m.content = "multipart" -> "MULTIPART"
                    [] OTHER -> "POST"

(* Mutant: *con_cls is set before the post processor is created. *)
FirstCall_SetsEarly(c, m) ==
  /\ pc[c] = "idle" /\ ThreadFree(thread[c])
  /\ message' = [message EXCEPT ![c] = m]
  /\ context' = [context EXCEPT ![c] = IF isBodyMethod(m) THEN RequestType(m) ELSE "GET"]
  /\ IF isBodyMethod(m) /\ m.content \notin {"json", "multipart", "form"}
     THEN arena' = [arena EXCEPT ![c] = "freed"] /\ Goto(c, "refused")
     ELSE arena' = [arena EXCEPT ![c] = "live"] /\ Goto(c, "reading")
  /\ UNCHANGED <<thread, body, jsonArena, pipe, json, match, reply, faults>>

(* MHD_create_post_processor knows forms and multipart bodies only; MHD_NO *)
(* leaves *con_cls as it is.                                                *)
FirstCall(c, m) ==
  /\ pc[c] = "idle" /\ ThreadFree(thread[c])
  /\ message' = [message EXCEPT ![c] = m]
  /\ IF isBodyMethod(m) /\ m.content \notin {"json", "multipart", "form"}
     THEN /\ arena' = [arena EXCEPT ![c] = "freed"]
          /\ Goto(c, "refused") /\ UNCHANGED context
     ELSE /\ arena' = [arena EXCEPT ![c] = "live"]
          /\ context' = [context EXCEPT ![c] = IF isBodyMethod(m) THEN RequestType(m) ELSE "GET"]
          /\ Goto(c, "reading")
  /\ UNCHANGED <<thread, body, jsonArena, pipe, json, match, reply, faults>>

-----------------------------------------------------------------------------
(* The calls with a part of the body.  How a body is cut into parts is the *)
(* network's choice; MHD's post processor hands a field over in pieces     *)
(* when its value spans two parts.                                          *)

BeginUpload(c) ==
  /\ pc[c] = "reading" /\ ThreadFree(thread[c]) /\ calls[c] < MaxCalls
  /\ initRequestJsonArena(c)
  /\ calls' = [calls EXCEPT ![c] = @ + 1]
  /\ UNCHANGED <<connection, arena, pipe, json, match, reply>>

Entry(k, v) == [key |-> k, value |-> v]
StoreEntry(c, k, v) ==
  entries' = IF Len(entries[c]) < MaxFormFields
             THEN [entries EXCEPT ![c] = Append(@, Entry(k, v))] ELSE entries

(* raw_json grows by the part. *)
handleJsonPostData(c) ==
  /\ BeginUpload(c) /\ context[c] = "JSON_POST"
  /\ \E k \in Keys, v \in JsonValues : entries' = [entries EXCEPT ![c] = Append(@, Entry(k, v))]
  /\ UNCHANGED <<pc, files, disk, strays, faults>>

(* Every piece becomes an entry of its own: the offset is ignored. *)
post_iterator(c) ==
  /\ BeginUpload(c) /\ context[c] = "POST"
  /\ \E k \in Keys, v \in Texts : StoreEntry(c, k, v)
  /\ UNCHANGED <<pc, files, disk, strays, faults>>

(* Of a field of a multipart body the first piece is kept; one that is too *)
(* long, or whose name is, ends the request.                                *)
processFormField(c) ==
  /\ BeginUpload(c) /\ context[c] = "MULTIPART"
  /\ \/ /\ \E k \in Keys, v \in Texts : StoreEntry(c, k, v)
        /\ UNCHANGED pc
     \/ UNCHANGED <<entries, pc>>
     \/ Goto(c, "refused") /\ UNCHANGED entries
  /\ UNCHANGED <<files, disk, strays, faults>>

(* A file's part: refused for its name or size or because it cannot be     *)
(* written, with the upload in the list once addFileUpload has succeeded.   *)
processFileUpload(c) ==
  /\ BeginUpload(c) /\ context[c] = "MULTIPART"
  /\ \E k \in Keys : /\ files' = [files EXCEPT ![c] = @ \cup {k}]
                     /\ disk' = [disk EXCEPT ![c] = IF k \in files[c] THEN @ ELSE @ + 1]
  /\ UNCHANGED pc \/ Goto(c, "refused")
  /\ UNCHANGED <<entries, strays, faults>>

(* mkstemp or fopen fails; after fopen the file is there, but the upload   *)
(* is taken out of the list.                                                *)
addFileUploadFails(c) ==
  /\ BeginUpload(c) /\ context[c] = "MULTIPART" /\ files[c] # Keys
  /\ faults < MaxFaults /\ faults' = faults + 1
  /\ \/ UNCHANGED <<disk, strays>>
     \/ /\ disk' = [disk EXCEPT ![c] = @ + 1]
        /\ strays' = [strays EXCEPT ![c] = @ + 1]
  /\ Goto(c, "refused")
  /\ UNCHANGED <<entries, files>>

-----------------------------------------------------------------------------
(* The call that answers *)

(* MHD takes no response while the body is still to come; the handler then *)
(* returns the MHD_NO of MHD_queue_response.                                *)
Early(c) == ~isBodyMethod(message[c]) /\ message[c].content # "none"
Queue(c, status) ==
  IF Early(c) THEN Goto(c, "refused") /\ UNCHANGED reply
  ELSE Goto(c, "answered") /\ reply' = [reply EXCEPT ![c] = status]

(* MHD_NO of handleSpecialEndpoints means "not special", also when it is   *)
(* MHD's.                                                                  *)
IsSpecial(c) ==
  /\ ~Early(c)
  /\ message[c].url \in (IF isBodyMethod(message[c]) THEN SpecialUrls.BODY
                                                     ELSE SpecialUrls.GET)

(* After the body; but a method without one is answered by the first call  *)
(* after the headers, also when a body follows.                             *)
AnsweringCall(c) ==
  /\ pc[c] = "reading" /\ ThreadFree(thread[c])
  /\ initRequestJsonArena(c)
  /\ IF IsSpecial(c) THEN Queue(c, "special") ELSE Goto(c, "route") /\ UNCHANGED reply
  /\ UNCHANGED <<connection, body, arena, pipe, json, match, faults>>

Endpoint(c) == IF match[c].type = "api" THEN Apis[match[c].endpoint]
                                        ELSE Pages[match[c].endpoint]
Pipeline(c) == IF match[c].type = "none" THEN <<>> ELSE Endpoint(c).pipeline

(* Routing does not depend on the state. *)
RouteOf == [m \in UNION {Messages[c] : c \in Conns} |-> findRoute(m.url, m.method)]

(* findRoute and buildRequestContextJson. *)
FindRoute(c) ==
  /\ pc[c] = "route"
  /\ match' = [match EXCEPT ![c] = RouteOf[message[c]]]
  /\ flags' = [flags EXCEPT ![c] = {}]
  /\ jsonArenaMalloc(c)
  /\ Goto(c, IF isBodyMethod(message[c]) THEN "validate" ELSE "pipeline")
  /\ value' = [value EXCEPT ![c] = {}] /\ step' = [step EXCEPT ![c] = 1]
  /\ ran' = [ran EXCEPT ![c] = <<>>]
  /\ UNCHANGED <<connection, body, memory, reply, faults>>

-----------------------------------------------------------------------------
(* Validation *)

(* Where a field came; its value when it came first, and last. *)
Sent(c, k) == {i \in DOMAIN entries[c] : entries[c][i].key = k}
First(c, k) == IF Sent(c, k) = {} THEN None ELSE entries[c][Min(Sent(c, k))].value
Latest(c, k) == IF Sent(c, k) = {} THEN None ELSE entries[c][Max(Sent(c, k))].value

Broken(c) == \E i \in DOMAIN entries[c] : entries[c][i].value = NotJson

(* fields: the rules of each field *)
validateJsonFields(c, fields) ==
  /\ entries[c] # <<>> /\ ~Broken(c)
  /\ \A k \in DOMAIN fields : validateField(fields[k], TextOf(Latest(c, k)))

validateFormFields(c, fields) ==
  \A k \in DOMAIN fields : validateField(fields[k], First(c, k))

(* What the steps find in the property body of the request's context: only *)
(* a POST has one, and a property that is set twice has the second value.  *)
buildBody(c, k) ==
  IF \/ message[c].method # "POST" \/ context[c] = "MULTIPART"
     \/ context[c] = "JSON_POST" /\ Broken(c)
  THEN None ELSE Latest(c, k)

(* executeRouteValidation, and what handleRequest does with its result: the *)
(* fields of an API are those of a JSON body, the fields of a page those   *)
(* of a form.                                                              *)
ChecksJson(c) ==
  match[c].type = "api" /\ context[c] = "JSON_POST" /\ Endpoint(c).fields # <<>>
ChecksForm(c) ==
  match[c].type = "page" /\ context[c] = "POST" /\ Endpoint(c).fields # <<>>

Begin(c, l) ==
  /\ Goto(c, l) /\ value' = [value EXCEPT ![c] = flags[c]]
  /\ step' = [step EXCEPT ![c] = 1] /\ ran' = [ran EXCEPT ![c] = <<>>]

executeRouteValidation(c) ==
  /\ pc[c] = "validate"
  /\ \/ /\ ChecksJson(c) /\ ~validateJsonFields(c, Endpoint(c).fields)
        /\ jsonArenaMalloc(c) /\ Queue(c, "400")
        /\ UNCHANGED pipe
     \/ /\ ChecksForm(c) /\ Endpoint(c).reference # <<>>
        /\ Begin(c, "reference") /\ UNCHANGED <<flags, json, reply>>
     \/ /\ ChecksForm(c) /\ Endpoint(c).reference = <<>>
        /\ Goto(c, "form") /\ UNCHANGED <<pipe, json, reply>>
     \/ /\ ~ChecksForm(c)
        /\ ChecksJson(c) => validateJsonFields(c, Endpoint(c).fields)
        /\ Begin(c, "pipeline") /\ UNCHANGED <<flags, json, reply>>
  /\ UNCHANGED <<connection, body, memory, match, faults>>

PageReply(page) == IF page.redirect THEN "302" ELSE "200"

(* A page shows the errors itself. *)
ValidateForm(c) ==
  /\ pc[c] = "form"
  /\ IF validateFormFields(c, Endpoint(c).fields)
     THEN Begin(c, "pipeline") /\ UNCHANGED <<flags, json, reply>>
     ELSE /\ flags' = [flags EXCEPT ![c] = @ \cup {"errors"}]
          /\ jsonArenaMalloc(c) /\ Queue(c, PageReply(Endpoint(c)))
          /\ UNCHANGED <<value, step, ran>>
  /\ UNCHANGED <<connection, body, memory, match, faults>>

-----------------------------------------------------------------------------
(* Pipelines *)

Steps(c) == IF pc[c] = "reference" THEN Endpoint(c).reference ELSE Pipeline(c)
Stops(v) == v \cap {"error", "redirect", "blank"} # {}

(* What a filter or script returns is the site's choice.  A Lua result     *)
(* takes over the properties of the input; a query's result is a copy of   *)
(* the input that says inside its data whether the query succeeded.        *)
Results == {{}, {"error"}, {"redirect"}, {"blank"}, {"error", "redirect"}}
execute(kind, input) ==
  IF kind = "jq" THEN Results
  ELSE {{"error"}} \cup {input \cup r : r \in IF kind = "lua" THEN Results ELSE {{}}}

(* Mutant: only errors are handed on. *)
executePipelineStep_RunsOn(c) ==
  /\ pc[c] \in {"reference", "pipeline"} /\ step[c] \in DOMAIN Steps(c)
  /\ IF "error" \in value[c]
     THEN UNCHANGED <<value, ran>>
     ELSE \E v \in execute(Steps(c)[step[c]], value[c]) :
            /\ value' = [value EXCEPT ![c] = v]
            /\ ran' = [ran EXCEPT ![c] = Append(@, v)]
  /\ step' = [step EXCEPT ![c] = @ + 1]
  /\ jsonArenaMalloc(c)
  /\ UNCHANGED <<connection, body, memory, flags, pc, match, reply, faults>>

(* Mutant: a failed step is not left behind. *)
executePipelineStep_Stays(c) ==
  /\ pc[c] \in {"reference", "pipeline"} /\ step[c] \in DOMAIN Steps(c)
  /\ IF Stops(value[c])
     THEN UNCHANGED <<value, ran, step>>
     ELSE \E v \in execute(Steps(c)[step[c]], value[c]) :
            /\ value' = [value EXCEPT ![c] = v]
            /\ ran' = [ran EXCEPT ![c] = Append(@, v)]
            /\ step' = [step EXCEPT ![c] = @ + 1]
  /\ jsonArenaMalloc(c)
  /\ UNCHANGED <<connection, body, memory, flags, pc, match, reply, faults>>

executePipelineStep(c) ==
  /\ pc[c] \in {"reference", "pipeline"} /\ step[c] \in DOMAIN Steps(c)
  /\ IF Stops(value[c])
     THEN UNCHANGED <<value, ran>>
     ELSE \E v \in execute(Steps(c)[step[c]], value[c]) :
            /\ value' = [value EXCEPT ![c] = v]
            /\ ran' = [ran EXCEPT ![c] = Append(@, v)]
  /\ step' = [step EXCEPT ![c] = @ + 1]
  /\ jsonArenaMalloc(c)
  /\ UNCHANGED <<connection, body, memory, flags, pc, match, reply, faults>>

(* The result of referenceData is merged into the context. *)
EndReference(c) ==
  /\ pc[c] = "reference" /\ step[c] > Len(Steps(c))
  /\ flags' = [flags EXCEPT ![c] = @ \cup value[c]]
  /\ Goto(c, "form")
  /\ UNCHANGED <<connection, body, memory, value, step, ran, json, match, reply, faults>>

(* Without a pipeline the context becomes a property of the result. *)
EndPipeline(c) ==
  /\ pc[c] = "pipeline" /\ step[c] > Len(Steps(c))
  /\ IF Pipeline(c) = <<>> THEN value' = [value EXCEPT ![c] = {}] /\ jsonArenaMalloc(c)
                           ELSE UNCHANGED <<value, json>>
  /\ Goto(c, "respond")
  /\ UNCHANGED <<connection, body, memory, flags, step, ran, match, reply, faults>>

-----------------------------------------------------------------------------
(* The answer *)

(* Mutant: an API's result is sent without a look for error. *)
Status_AlwaysOk(c) ==
  IF "redirect" \in value[c] THEN "302"
  ELSE CASE match[c].type = "none" -> "404"
         [] match[c].type = "page" -> PageReply(Endpoint(c))
         [] match[c].type = "api" -> "200"

(* An error may bring its own status; 400 stands for all of them.  The     *)
(* result is never NULL, so the 500 for it is left out: only a want of     *)
(* memory makes it so.  An API for OPTIONS answers with its headers only.   *)
Status(c) ==
  IF "redirect" \in value[c] THEN "302"
  ELSE CASE match[c].type = "none" -> "404"
         [] match[c].type = "page" -> PageReply(Endpoint(c))
         [] match[c].type = "api" ->
              IF "error" \in value[c] /\ message[c].method # "OPTIONS" THEN "400" ELSE "200"

(* handlePipelineRedirect returns MHD_YES for a redirect that is no string, *)
(* and no response is queued: MHD calls again.                               *)
handleRouteResponse(c) ==
  /\ pc[c] = "respond"
  /\ IF "blank" \in value[c] THEN Goto(c, "reading") /\ UNCHANGED reply
                             ELSE Queue(c, Status(c))
  /\ IF Status(c) = "404" \/ value[c] \cap {"redirect", "blank"} # {}
     THEN UNCHANGED json ELSE jsonArenaMalloc(c)
  /\ UNCHANGED <<connection, body, memory, pipe, match, faults>>

(* After the response has been sent, MHD_NO, a lost connection, or 30      *)
(* seconds without traffic.  The rest of the request's state was in its    *)
(* arena and in variables of its calls.                                     *)
Forget(c) ==
  /\ context' = [context EXCEPT ![c] = "NULL"] /\ message' = [message EXCEPT ![c] = None]
  /\ calls' = [calls EXCEPT ![c] = 0] /\ entries' = [entries EXCEPT ![c] = <<>>]
  /\ json' = [json EXCEPT ![c] = {}] /\ match' = [match EXCEPT ![c] = NoMatch]
  /\ flags' = [flags EXCEPT ![c] = {}] /\ value' = [value EXCEPT ![c] = {}]
  /\ step' = [step EXCEPT ![c] = 1] /\ ran' = [ran EXCEPT ![c] = <<>>]
  /\ reply' = [reply EXCEPT ![c] = "none"]

(* Mutant: the type MULTIPART is forgotten. *)
handleRequestCompleted_KeepsFiles(c) ==
  /\ pc[c] \in {"reading", "answered", "refused"} /\ ThreadFree(thread[c])
  /\ cleanupRequestJsonArena(c)
  /\ IF context[c] = "NULL" THEN UNCHANGED <<files, disk, arena>>
     ELSE /\ freeArena(c)
          /\ files' = [files EXCEPT ![c] = {}]
          /\ disk' = [disk EXCEPT ![c] = IF context[c] = "MULTIPART" THEN @
                                         ELSE @ - Cardinality(files[c])]
  /\ Forget(c) /\ Goto(c, "gone")
  /\ UNCHANGED <<thread, strays, faults>>

handleRequestCompleted(c) ==
  /\ pc[c] \in {"reading", "answered", "refused"} /\ ThreadFree(thread[c])
  /\ cleanupRequestJsonArena(c)
  /\ IF context[c] = "NULL" THEN UNCHANGED <<files, disk, arena>>
     ELSE /\ freeArena(c)
          /\ files' = [files EXCEPT ![c] = {}]
          /\ disk' = [disk EXCEPT ![c] = @ - Cardinality(files[c])]
  /\ Forget(c) /\ Goto(c, "gone")
  /\ UNCHANGED <<thread, strays, faults>>

-----------------------------------------------------------------------------
Upload(c) == \/ handleJsonPostData(c) \/ post_iterator(c) \/ processFormField(c)
             \/ processFileUpload(c) \/ addFileUploadFails(c)
Handler(c) == \/ FindRoute(c) \/ executeRouteValidation(c) \/ ValidateForm(c)
              \/ executePipelineStep(c) \/ EndReference(c) \/ EndPipeline(c)
              \/ handleRouteResponse(c)

Next == \E c \in Conns : \/ \E m \in Messages[c] : FirstCall(c, m)
                         \/ Upload(c) \/ AnsweringCall(c) \/ Handler(c)
                         \/ handleRequestCompleted(c)

Spec == Init /\ [][Next]_vars

(* A handler that runs goes on.  A thread of MHD looks at each of its       *)
(* connections again and again, and gives one up when it has timed out.    *)
FairSpec == /\ Spec
            /\ \A c \in Conns : WF_vars(Handler(c)) /\ SF_vars(handleRequestCompleted(c))

-----------------------------------------------------------------------------
(* Properties *)

(* What a request acquires is released once: its arena is live from the    *)
(* first call to completion, and then freed, whichever call ended it.      *)
(* (freeArena in setupPostProcessor and handleRequestCompleted)            *)
ReleasedOnce ==
  \A c \in Conns :
    /\ arena[c] # "freed twice"
    /\ pc[c] \in Calling \cup {"reading", "answered"} => arena[c] = "live"
    /\ pc[c] = "gone" => arena[c] = "freed"

(* The temporary files of uploads are on the disk while the request is     *)
(* there and removed with it, except those that could be made but not      *)
(* opened.  (addFileUpload, cleanupFileUploads)                            *)
FilesRemoved ==
  \A c \in Conns :
    /\ disk[c] = Cardinality(files[c]) + strays[c]
    /\ pc[c] = "gone" => files[c] = {}

(* Uploads and the form's entries, whose bound is in TypeOK: none is       *)
(* written behind the table, none is left behind on the disk.              *)
UploadsSound == TypeOK /\ FilesRemoved

(* JSON values of a request are in its own arena, while it is live: never  *)
(* in the arena of another request of the same or another thread, although *)
(* jansson's allocator only knows currentJsonArena.                        *)
(* (initRequestJsonArena, cleanupRequestJsonArena, jsonArenaMalloc)        *)
JsonStaysHome ==
  \A c \in Conns : json[c] \subseteq {c} /\ (json[c] # {} => arena[c] = "live")

(* After a step that failed or redirected no other step is executed.       *)
(* (executePipelineStep)                                                   *)
FailureStopsSteps ==
  \A c \in Conns : \A i \in DOMAIN ran[c] : i < Len(ran[c]) => ~Stops(ran[c][i])

(* An API's answer tells the outcome: 200 only if each step was executed   *)
(* and none failed, apart from OPTIONS, which is told nothing of a failure; *)
(* 302 only if the last one executed redirected; 400 only if the fields    *)
(* are not valid or the last one failed.                                   *)
(* (handleApiRequest, executePipeline)                                     *)
Told(c) ==
  LET executed == Len(ran[c])
      outcome  == IF executed = 0 THEN {} ELSE Last(ran[c])
  IN CASE reply[c] = "200" -> \/ executed = Len(Pipeline(c)) /\ ~Stops(outcome)
                              \/ message[c].method = "OPTIONS" /\ "error" \in outcome
       [] reply[c] = "302" -> "redirect" \in outcome
       [] reply[c] = "400" -> "error" \in outcome \/ (executed = 0 /\ ChecksJson(c))
       [] OTHER -> TRUE
AnswerTellsOutcome ==
  \A c \in Conns : pc[c] = "answered" /\ match[c].type = "api" => Told(c)

JsonObeyed(rules, v) ==
  \/ v = None /\ ~rules.required
  \/ v = Other /\ ~rules.required
  \/ v \notin {None, Other} /\ (IsInt(v) => Obeys(rules, v, 5))
FormObeyed(rules, v) ==
  \/ v = None /\ ~rules.required
  \/ v # None /\ (IsInt(v) => Obeys(rules, v, 0))

(* When the pipeline of a POST with a JSON body runs, its body has the     *)
(* required fields, and those that are texts or numbers obey the rules of  *)
(* the API; a number is rounded before it is compared, and one that no int *)
(* can hold is not promised to be in its range.  A form's fields obey the  *)
(* page's rules, unless one was sent twice or in pieces.  A required field *)
(* is there, but may be empty: validateField tests for NULL only, though   *)
(* docs/validation.md says "present and non-empty".  The rules are those   *)
(* the parser can store and whose test is defined (IsRules).               *)
(* (validateJsonFields, validateFormFields, validateField, buildBody)      *)
Running(c) == pc[c] \in {"pipeline", "respond"}
CheckedBodyIsValid ==
  \A c \in Conns :
    Running(c) /\ message[c].method = "POST" =>
      /\ ChecksJson(c) => \A k \in DOMAIN Endpoint(c).fields :
           JsonObeyed(Endpoint(c).fields[k], buildBody(c, k))
      /\ ChecksForm(c) => \A k \in DOMAIN Endpoint(c).fields :
           (\A i, j \in Sent(c, k) : i = j) =>
             FormObeyed(Endpoint(c).fields[k], buildBody(c, k))

(* What README.md says of the pipeline: the fields are validated before    *)
(* the steps are executed.  The code violates it (see README).             *)
FieldsAreValidated ==
  \A c \in Conns :
    Running(c) /\ isBodyMethod(message[c]) /\ match[c].type # "none" =>
      \A k \in DOMAIN Endpoint(c).fields :
        validateField(Endpoint(c).fields[k], TextOf(buildBody(c, k)))

(* The route found is an API if one fits, else a page; among those the     *)
(* latest that is spelled like the url, else one whose parameters can be   *)
(* read off the url; and the parameters are that route's, whatever other   *)
(* routes were tried, and all of them unless there are too many.           *)
(* (findRoute, parseRouteParams)                                           *)
Fits(pattern, url) ==
  /\ Len(pattern) = Len(url)
  /\ \A i \in DOMAIN url : pattern[i] \in ParamSegments \/ pattern[i] = url[i]
  /\ Last(pattern) \in ParamSegments => Last(url) # Empty
Best(found, table, fitting, url) ==
  LET exact == {i \in fitting : table[i].route = url}
      route == table[found.endpoint].route
      named == {i \in DOMAIN url : route[i] \in ParamSegments}
      read  == {<<route[i], url[i]>> : i \in named}
  IN /\ found.endpoint \in fitting
     /\ exact # {} => /\ \A i \in exact : i <= found.endpoint
                      /\ found.endpoint \in exact /\ found.params = {}
     /\ exact = {} => /\ found.params \subseteq read
                      /\ Cardinality(named) <= MaxParams => found.params = read
RightRoute(found, url, method) ==
  LET apis  == {i \in DOMAIN Apis : Fits(Apis[i].route, url) /\ Apis[i].method = method}
      pages == {i \in DOMAIN Pages : Fits(Pages[i].route, url)}
  IN CASE apis # {} -> found.type = "api" /\ Best(found, Apis, apis, url)
       [] apis = {} /\ pages # {} -> found.type = "page" /\ Best(found, Pages, pages, url)
       [] OTHER -> found.type = "none"
Routed(c) == pc[c] \in {"validate", "reference", "form", "pipeline", "respond"}
RoutedRight ==
  \A c \in Conns : Routed(c) => RightRoute(match[c], message[c].url, message[c].method)

(* Every request that has begun is completed and released, however it      *)
(* ends.  (handleRequest, executePipeline, MHD_OPTION_CONNECTION_TIMEOUT)  *)
EveryRequestEnds == \A c \in Conns : (pc[c] # "idle") ~> (pc[c] = "gone")
=============================================================================
