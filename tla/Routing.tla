-------------------------------- MODULE Routing --------------------------------
(***************************************************************************)
(* Which code a call reaches, and what its caller learns: the manifest an  *)
(* endpoint asks for when it connects (rpc_manifest.go), the gate every    *)
(* new request passes (rpc_server.go), the two multiplexers (handler.go,   *)
(* typemux/new_mux.go) and the stubs that adapt a request to the handler   *)
(* functions (typemux).  One side calls, the other serves; how their       *)
(* packets travel is the subject of Session.                               *)
(*                                                                         *)
(* The element of a method is a sequence of its dotted parts, so that      *)
(* <<"a.b">> and <<"a", "b">> are different methods with the same String.  *)
(***************************************************************************)
EXTENDS Naturals, Sequences, FiniteSets, SequencesExt

CONSTANTS
  Calls,      \* the calls made
  Methods,    \* the methods that are called
  Root,       \* Root[k]: the plugin registered with the HandlerMux for key k
  Stub,       \* Stub[g][k]: the kind of stub plugin g registered for key k
  Manifest,   \* the paths of the nested manifest the server sends
  Answers     \* how the server may answer the manifest call

CallType == {"async", "source", "sink", "duplex"}

(* Method.String joins the elements with dots: what is left of a method    *)
(* as a key of a map.                                                      *)
String(m) == FlattenSeq(m)

(* The keys a plugin handles, and all of them.                             *)
Keys(g) == DOMAIN Stub[g]
AllKeys == UNION {Keys(Root[k]) : k \in DOMAIN Root}

(* Plugins are registered the way the muxes are meant to be used: a plugin *)
(* handles names below its own key, and no other plugin has a key between. *)
ASSUME RoutingAssumption ==
  /\ Methods \subseteq Seq(Seq(STRING))
  /\ DOMAIN Root \subseteq Seq(STRING) \ {<< >>}
  /\ \A k \in DOMAIN Root : Root[k] \in DOMAIN Stub
  /\ \A g \in DOMAIN Stub : Stub[g] \in [Keys(g) -> CallType]
  /\ \A k, l \in DOMAIN Root : \A n \in Keys(Root[k]) :
       IsPrefix(k, n) /\ (IsPrefix(l, n) => Len(l) <= Len(k))
  /\ {String(path) : path \in Manifest} = AllKeys
  /\ Answers \subseteq {"good", "bad", "refused", "silent"}

VARIABLES
  manifestCall,  \* retreiveManifest: "write", "asked", the answer on its way, or "done"
  missing,       \* r.manifest.missing
  methods,       \* the keys of r.manifest.methods
  handling,      \* Handle has returned the endpoint
  cpc,           \* cpc[c]: where the caller is, and in the end what it was told
  method, type,  \* method[c], type[c]: what is called
  hpc,           \* hpc[c]: where the receiver is with it
  stub,          \* stub[c]: plugin and key of the stub that serves it
  returned,      \* returned[c]: what the handler function returned
  answer         \* answer[c]: what was sent back: data, or an end

manifestVars == <<manifestCall, missing, methods, handling>>
callVars == <<method, type>>
servVars == <<hpc, stub, returned, answer>>
vars == <<manifestVars, cpc, callVars, servVars>>

Nowhere == <<"none", << >>>>

Init ==
  /\ manifestCall = "write" /\ missing = TRUE /\ methods = {} /\ handling = FALSE
  /\ cpc = [c \in Calls |-> "new"]
  /\ method \in [Calls -> Methods] /\ type \in [Calls -> CallType]
  /\ hpc = [c \in Calls |-> "none"] /\ stub = [c \in Calls |-> Nowhere]
  /\ returned = [c \in Calls |-> "nothing"] /\ answer = [c \in Calls |-> "none"]

-------------------------------------------------------------------------------
(* The manifest.                                                           *)

(* The request is written, or cannot be.  Until the transport takes it no  *)
(* deadline applies: the context only ends the wait for the answer.        *)
writeManifestRequest ==
  /\ manifestCall = "write"
  /\ manifestCall' \in {"asked", "done"}
  /\ UNCHANGED <<missing, methods, handling, cpc, callVars, servVars>>

ManifestAnswered ==
  /\ manifestCall = "asked"
  /\ manifestCall' \in Answers \ {"silent"}
  /\ UNCHANGED <<missing, methods, handling, cpc, callVars, servVars>>

(* recurseMap: the nested map, flattened to the keys of its methods.       *)
recurseMap_LastNames == {<<path[Len(path)][1]>> : path \in Manifest}

recurseMap == {String(path) : path \in Manifest}

(* The tail of retreiveManifest: the map is set as a whole or not at all,  *)
(* and a manifest that could not be had counts as missing.                 *)
retreiveManifest_MissingFirst ==
  /\ manifestCall \in {"good", "bad", "refused"}
  /\ methods' = IF manifestCall = "good" THEN recurseMap ELSE methods
  /\ missing' = (manifestCall = "refused")
  /\ manifestCall' = "done"
  /\ UNCHANGED <<handling, cpc, callVars, servVars>>

retreiveManifest ==
  /\ manifestCall \in {"good", "bad", "refused"}
  /\ methods' = IF manifestCall = "good" THEN recurseMap ELSE methods
  /\ missing' = (manifestCall # "good")
  /\ manifestCall' = "done"
  /\ UNCHANGED <<handling, cpc, callVars, servVars>>

(* No answer within a minute, or the session ends.                         *)
manifestTimeout_Never ==
  /\ manifestCall = "refused"
  /\ manifestCall' = "done"
  /\ UNCHANGED <<missing, methods, handling, cpc, callVars, servVars>>

manifestTimeout ==
  /\ manifestCall = "asked"
  /\ manifestCall' = "done"
  /\ UNCHANGED <<missing, methods, handling, cpc, callVars, servVars>>

(* Handle waits for it before it hands out the endpoint.                   *)
Handle ==
  /\ manifestCall = "done" /\ ~handling
  /\ handling' = TRUE
  /\ UNCHANGED <<manifestCall, missing, methods, cpc, callVars, servVars>>

manifestHandled(m) == missing \/ String(m) \in methods

-------------------------------------------------------------------------------
(* The calling side.  A handler of the calling side has the endpoint       *)
(* before Handle returns, so a call need not wait for the manifest.        *)

Call(c) ==
  /\ cpc[c] = "new"
  /\ cpc' = [cpc EXCEPT ![c] = IF manifestHandled(method[c]) THEN "sent" ELSE "refused here"]
  /\ UNCHANGED <<manifestVars, callVars, servVars>>

(* The answer arrives; an answer to an async call completes it.            *)
Told(c) ==
  /\ cpc[c] = "sent" /\ answer[c] # "none"
  /\ cpc' = [cpc EXCEPT ![c] = answer[c]]
  /\ UNCHANGED <<manifestVars, callVars, servVars>>

-------------------------------------------------------------------------------
(* The serving side: the gate, the multiplexers, the stubs.                *)

rootHandled(m) == String(m) \in AllKeys

(* HandleCall tries the method, then ever shorter beginnings of it: the    *)
(* lengths of those that table has.                                        *)
Found(table, m) == {i \in 1 .. Len(m) : String(SubSeq(m, 1, i)) \in table}
KeyAt(m, i) == String(SubSeq(m, 1, i))

pick_Shortest(is) == CHOOSE i \in is : \A j \in is : i <= j

pick(is) == CHOOSE i \in is : \A j \in is : j <= i

Receive(c) ==
  /\ cpc[c] # "new" /\ cpc[c] # "refused here" /\ hpc[c] = "none"
  /\ \/ /\ rootHandled(method[c])
        /\ hpc' = [hpc EXCEPT ![c] = "accepted"]
        /\ UNCHANGED answer
     \/ /\ ~rootHandled(method[c])
        /\ hpc' = [hpc EXCEPT ![c] = "refused"]
        /\ answer' = [answer EXCEPT ![c] = "err"]
  /\ UNCHANGED <<manifestVars, cpc, callVars, stub, returned>>

(* The HandlerMux, and the typemux of the plugin it finds; a mux that      *)
(* finds nothing closes the request with an error.                         *)
HandleCall(c) ==
  LET atRoot == Found(DOMAIN Root, method[c])
      plugin == Root[KeyAt(method[c], pick(atRoot))]
      atPlugin == IF atRoot = {} THEN {} ELSE Found(Keys(plugin), method[c])
  IN
  /\ hpc[c] = "accepted"
  /\ \/ /\ atPlugin # {}
        /\ stub' = [stub EXCEPT ![c] = <<plugin, KeyAt(method[c], pick(atPlugin))>>]
        /\ hpc' = [hpc EXCEPT ![c] = "stub"]
        /\ UNCHANGED answer
     \/ /\ atPlugin = {}
        /\ answer' = [answer EXCEPT ![c] = "err"]
        /\ hpc' = [hpc EXCEPT ![c] = "refused"]
        /\ UNCHANGED stub
  /\ UNCHANGED <<manifestVars, cpc, callVars, returned>>

Kind(c) == Stub[stub[c][1]][stub[c][2]]

(* Request.ResponseSink, ResponseSource: only a call of the right type has *)
(* them.                                                                   *)
ResponseSink(c) == type[c] \in {"source", "duplex"}
ResponseSource(c) == type[c] \in {"sink", "duplex"}

Fits(c) ==
  /\ Kind(c) \in {"source", "duplex"} => ResponseSink(c)
  /\ Kind(c) \in {"sink", "duplex"} => ResponseSource(c)

stubHandleCall_Drops(c) ==
  /\ hpc[c] = "stub"
  /\ hpc' = [hpc EXCEPT ![c] = IF Fits(c) THEN "running" ELSE "refused"]
  /\ UNCHANGED <<manifestVars, cpc, callVars, stub, returned, answer>>

stubHandleCall(c) ==
  /\ hpc[c] = "stub"
  /\ \/ Fits(c) /\ hpc' = [hpc EXCEPT ![c] = "running"] /\ UNCHANGED answer
     \/ /\ ~Fits(c)
        /\ hpc' = [hpc EXCEPT ![c] = "refused"]
        /\ answer' = [answer EXCEPT ![c] = "err"]
  /\ UNCHANGED <<manifestVars, cpc, callVars, stub, returned>>

(* The handler function returns.  The async stub passes its value on with  *)
(* Request.Return, which takes no call that is a stream and no value that  *)
(* JSON cannot encode; the stub only logs that.                            *)
Result(c) ==
  {"error"} \cup (IF Kind(c) = "async" THEN {"value", "unencodable"} ELSE {"nil"})

Return(c) ==
  /\ hpc[c] = "running"
  /\ \E result \in Result(c) :
       /\ returned' = [returned EXCEPT ![c] = result]
       /\ answer' = [answer EXCEPT ![c] =
            IF @ # "none" THEN @
            ELSE IF result = "error" THEN "err"
            ELSE IF result = "value" /\ type[c] = "async" THEN "data"
            ELSE "none"]
  /\ hpc' = [hpc EXCEPT ![c] = "returned"]
  /\ UNCHANGED <<manifestVars, cpc, callVars, stub>>

(* The handler of a stream ends it, from its function or a goroutine, well *)
(* or with an error.                                                       *)
StreamEnds(c) ==
  /\ hpc[c] \in {"running", "returned"} /\ Kind(c) # "async" /\ answer[c] = "none"
  /\ \E end \in {"end", "err"} : answer' = [answer EXCEPT ![c] = end]
  /\ UNCHANGED <<manifestVars, cpc, callVars, hpc, stub, returned>>

-------------------------------------------------------------------------------
Next ==
  \/ writeManifestRequest \/ ManifestAnswered \/ retreiveManifest \/ manifestTimeout \/ Handle
  \/ \E c \in Calls :
       \/ Call(c) \/ Told(c)
       \/ Receive(c) \/ HandleCall(c) \/ stubHandleCall(c) \/ Return(c) \/ StreamEnds(c)

(* The library's steps are taken, and the wait for the manifest has a      *)
(* deadline; nothing is assumed of handler functions, of the transport     *)
(* that takes the request or of the server that answers it.                *)
Fairness ==
  /\ WF_vars(retreiveManifest) /\ WF_vars(manifestTimeout) /\ WF_vars(Handle)
  /\ \A c \in Calls :
       WF_vars(Receive(c) \/ HandleCall(c) \/ stubHandleCall(c) \/ Told(c))

Spec == Init /\ [][Next]_vars /\ Fairness

-------------------------------------------------------------------------------
(* Properties.                                                             *)

(* Every variable keeps its type; the flat map is only there, and then is  *)
(* the whole of it, when the manifest is not missing.                      *)
TypeOK ==
  /\ manifestCall \in {"write", "asked", "good", "bad", "refused", "done"}
  /\ missing \in BOOLEAN /\ handling \in BOOLEAN
  /\ methods = IF missing THEN {} ELSE AllKeys
  /\ cpc \in [Calls -> {"new", "sent", "refused here", "data", "err", "end"}]
  /\ method \in [Calls -> Methods] /\ type \in [Calls -> CallType]
  /\ hpc \in [Calls -> {"none", "accepted", "refused", "stub", "running", "returned"}]
  /\ \A c \in Calls : stub[c] = Nowhere \/ stub[c][2] \in Keys(stub[c][1])
  /\ returned \in [Calls -> {"nothing", "error", "value", "unencodable", "nil"}]
  /\ answer \in [Calls -> {"none", "data", "err", "end"}]

(* A call is served by the stub registered for the very name that passed   *)
(* the gate: the search for shorter names never finds another one.         *)
NeverMisrouted ==
  \A c \in Calls : stub[c] # Nowhere => stub[c][2] = String(method[c])

(* A call the manifest made this side refuse is one the other side would   *)
(* refuse too, whatever became of the manifest call meanwhile.             *)
LocalRefusalIsRight ==
  \A c \in Calls : cpc[c] = "refused here" => ~rootHandled(method[c])

(* A call whose handling is over has been answered, but for three cases:   *)
(* a stream left open, a stream call of an async method, and a value that  *)
(* cannot be encoded; in the last two the caller waits for its context.    *)
NoSilentCall ==
  \A c \in Calls :
    hpc[c] \in {"refused", "returned"} /\ answer[c] = "none" =>
      \/ returned[c] = "nil"
      \/ Kind(c) = "async" /\ (type[c] # "async" \/ returned[c] = "unencodable")

(* Once the request for the manifest is out, or could not be written,      *)
(* Handle returns, even if the other side never answers.  It does not      *)
(* return while the transport does not take the request.                   *)
HandleReturns == manifestCall # "write" ~> handling

(* A call that cannot be served is refused to its caller: by the manifest, *)
(* the gate, a mux or a stub.                                              *)
RefusalIsTold ==
  \A c \in Calls :
    cpc[c] = "sent" /\ (~rootHandled(method[c]) \/ hpc[c] = "refused") ~> cpc[c] = "err"
===============================================================================
