------------------------------- MODULE Routes -------------------------------
(***************************************************************************)
(* router.go: the route table.  While the server starts, routers are        *)
(* grouped, given middleware and register routes, in any order; then        *)
(* Handle looks a request's op up and runs the route's middleware and       *)
(* handler through BaseContext.Next.                                        *)
(*                                                                          *)
(* A route string is the sequence of its parts between dots: "a..b" is      *)
(* <<"a", "", "b">> and the empty string <<"">>; the spaces around it that  *)
(* Handle trims are left out.  Middleware lists are Go                      *)
(* slices: a heap of arrays, and append, which writes in place when the     *)
(* array has room.  The table is not written once the server serves, so one *)
(* request at a time stands for all of them.                                *)
(***************************************************************************)
EXTENDS Naturals, Sequences, SequencesExt, Functions

CONSTANTS
  Names,        \* parts that match [A-Za-z_]+, "root" among them
  Args,         \* route strings Group and register are called with
  Ops,          \* route strings in requests
  Middleware,   \* middleware
  StreamTypes,  \* kinds of routes registered
  MaxCalls      \* bound on calls while the server starts

ASSUME RoutesAssumption ==
  Names \subseteq STRING /\ "" \notin Names /\ "root" \in Names /\ Args \subseteq Seq(STRING)

VARIABLES
  heap,      \* backing arrays of slices
  routers,   \* the routers made so far, the root first: prefix and middleware
  routes,    \* the root's map: path -> streamType and middleware
  calls,     \* calls so far
  phase,     \* "start", "serve" or "panic"
  ctx,       \* the request being handled: path, index into its chain, where it is
  declared,  \* history: router -> middleware it has been given, in order
  chain,     \* history: path -> middleware declared for it when it was registered
  ran        \* history: middleware the request has been through

vars == <<heap, routers, routes, calls, phase, ctx, declared, chain, ran>>

Empty == <<"">>

Root == <<"root">>

-----------------------------------------------------------------------------
(* Slices *)

NilSlice == [array |-> 0, len |-> 0]

Cap(h, s) == IF s.array = 0 THEN 0 ELSE Len(h[s.array])

Elements(h, s) == IF s.array = 0 THEN <<>> ELSE SubSeq(h[s.array], 1, s.len)

\* append(s, elems...): in place if there is room, else in a new array with room to
\* spare (the runtime decides how much).
Appended(h, s, elems, spare) ==
  LET n == s.len + Len(elems)
      whole == Elements(h, s) \o elems
  IN IF elems = <<>> THEN [heap |-> h, slice |-> s]
     ELSE IF n <= Cap(h, s)
     THEN [heap |-> [h EXCEPT ![s.array] = whole \o SubSeq(@, n + 1, Len(@))],
           slice |-> [s EXCEPT !.len = n]]
     ELSE [heap |-> Append(h, whole \o [i \in 1..spare |-> "nil"]),
           slice |-> [array |-> Len(h) + 1, len |-> n]]

\* Mutant: append(own, more...), which shares own's array.
JoinedShared(h, own, more, spare) == Appended(h, own, more, spare)

\* append(append([]Middleware{}, own...), more...)
Joined(h, own, more, spare) ==
  LET copy == Appended(h, NilSlice, Elements(h, own), spare)
  IN Appended(copy.heap, copy.slice, more, spare)

-----------------------------------------------------------------------------
(* Route strings *)

isDotRoute(r) == r = Empty \/ Range(r) \subseteq Names

\* The loop over the parts: clean[n] is what the first n of them leave.
cleanParts(r) ==
  LET clean[n \in 0..Len(r)] ==
        IF n = 0 THEN <<>> ELSE IF r[n] = "" THEN clean[n - 1] ELSE Append(clean[n - 1], r[n])
  IN clean[Len(r)]

normalizeRoute(r) == IF cleanParts(r) = <<>> THEN Root ELSE cleanParts(r)

\* Mutant: the parts are only put together.
joinRouteRaw(prefix, r) == IF prefix = Empty THEN r ELSE prefix \o r

joinRoute(prefix, r) ==
  LET p == normalizeRoute(prefix)
      s == normalizeRoute(r)
  IN IF p = Root THEN s ELSE IF s = Root THEN p ELSE p \o s

-----------------------------------------------------------------------------
(* Start *)

NoRequest == [step |-> "none", path |-> Empty, index |-> 0]

Init ==
  /\ heap = <<>>
  /\ routers = <<[prefix |-> Empty, middleware |-> NilSlice]>>
  /\ routes = <<>>
  /\ calls = 0
  /\ phase = "start"
  /\ ctx = NoRequest
  /\ declared = <<<<>>>>
  /\ chain = <<>>
  /\ ran = <<>>

\* m[key] = value
Put(m, key, value) == [k \in DOMAIN m \cup {key} |-> IF k = key THEN value ELSE m[k]]

Lists == {<<>>} \cup {<<m>> : m \in Middleware}

Call == phase = "start" /\ calls < MaxCalls /\ calls' = calls + 1

Panics == phase' = "panic" /\ UNCHANGED <<heap, routers, routes, declared, chain>>

Group(r, prefix, mw, spare) ==
  /\ Call
  /\ IF isDotRoute(prefix)
     THEN LET joined == Joined(heap, routers[r].middleware, mw, spare)
          IN /\ heap' = joined.heap
             /\ routers' = Append(routers, [prefix |-> joinRoute(routers[r].prefix, prefix),
                                            middleware |-> joined.slice])
             /\ declared' = Append(declared, declared[r] \o mw)
             /\ UNCHANGED <<routes, phase, chain>>
     ELSE Panics
  /\ UNCHANGED <<ctx, ran>>

Use(r, mw, spare) ==
  /\ Call
  /\ LET appended == Appended(heap, routers[r].middleware, mw, spare)
     IN heap' = appended.heap /\ routers' = [routers EXCEPT ![r].middleware = appended.slice]
  /\ declared' = [declared EXCEPT ![r] = @ \o mw]
  /\ UNCHANGED <<routes, phase, ctx, chain, ran>>

\* Response, ServerUpdates, ClientUpdates, ServerTransfer and ClientTransfer.
register(r, streamType, path, mw, spare) ==
  /\ Call
  /\ LET fullPath == joinRoute(routers[r].prefix, path)
         joined == Joined(heap, routers[r].middleware, mw, spare)
     IN IF isDotRoute(path) /\ fullPath \notin DOMAIN routes
        THEN /\ heap' = joined.heap
             /\ routes' = Put(routes, fullPath,
                              [streamType |-> streamType, middleware |-> joined.slice])
             /\ chain' = Put(chain, fullPath, declared[r] \o mw)
             /\ UNCHANGED <<routers, phase, declared>>
        ELSE Panics
  /\ UNCHANGED <<ctx, ran>>

Serve ==
  /\ phase = "start"
  /\ phase' = "serve"
  /\ UNCHANGED <<heap, routers, routes, calls, ctx, declared, chain, ran>>

-----------------------------------------------------------------------------
(* Requests *)

\* Handle up to the first Next: an op that is empty, malformed or unknown is refused.
Handle(op) ==
  /\ phase = "serve"
  /\ ctx = NoRequest
  /\ LET path == normalizeRoute(op)
     IN ctx' = IF op = Empty \/ ~isDotRoute(op) THEN [NoRequest EXCEPT !.step = "bad request"]
               ELSE IF path \notin DOMAIN routes THEN [NoRequest EXCEPT !.step = "not found"]
               ELSE [step |-> "next", path |-> path, index |-> 0]
  /\ ran' = <<>>
  /\ UNCHANGED <<heap, routers, routes, calls, phase, declared, chain>>

ContextChain == routes[ctx.path].middleware

\* Mutant: the last middleware is taken for the handler.
ContextNextSkips ==
  /\ ctx.step = "next"
  /\ ctx' = [ctx EXCEPT !.index = @ + 1,
                        !.step = IF ctx.index + 1 >= ContextChain.len THEN "endpoint" ELSE "middleware"]
  /\ UNCHANGED <<heap, routers, routes, calls, phase, declared, chain, ran>>

\* BaseContext.Next: the next middleware of the chain, or the endpoint.
ContextNext ==
  /\ ctx.step = "next"
  /\ ctx' = [ctx EXCEPT !.index = @ + 1,
                        !.step = IF ctx.index >= ContextChain.len THEN "endpoint" ELSE "middleware"]
  /\ UNCHANGED <<heap, routers, routes, calls, phase, declared, chain, ran>>

\* A middleware answers the request itself or calls Next.
RunMiddleware ==
  /\ ctx.step = "middleware"
  /\ ran' = Append(ran, Elements(heap, ContextChain)[ctx.index])
  /\ \E step \in {"next", "answered"} : ctx' = [ctx EXCEPT !.step = step]
  /\ UNCHANGED <<heap, routers, routes, calls, phase, declared, chain>>

\* The endpoint decodes the request and calls the route's handler; a response route
\* leaves decoding to its handler.
Endpoint ==
  /\ ctx.step = "endpoint"
  /\ \E step \in {"handled", "internal error"} :
       /\ step = "internal error" => routes[ctx.path].streamType # "response"
       /\ ctx' = [ctx EXCEPT !.step = step]
  /\ UNCHANGED <<heap, routers, routes, calls, phase, declared, chain, ran>>

-----------------------------------------------------------------------------

Next ==
  \/ \E r \in 1..Len(routers), mw \in Lists, spare \in 0..1 :
       \/ Use(r, mw, spare)
       \/ \E arg \in Args : Group(r, arg, mw, spare)
       \/ \E arg \in Args, streamType \in StreamTypes : register(r, streamType, arg, mw, spare)
  \/ Serve
  \/ \E op \in Ops : Handle(op)
  \/ ContextNext
  \/ RunMiddleware
  \/ Endpoint

Spec == Init /\ [][Next]_vars

-----------------------------------------------------------------------------
(* Properties. *)

\* A route keeps the middleware its router had when it was registered, followed by its
\* own: later calls of Use and Group on any router do not reach it, although Go slices
\* may share arrays (Group, Use, register); and so does every router.
MiddlewareAsDeclared ==
  /\ \A r \in 1..Len(routers) : Elements(heap, routers[r].middleware) = declared[r]
  /\ \A path \in DOMAIN routes : Elements(heap, routes[path].middleware) = chain[path]

\* A handler runs after all the middleware declared for its route, each once and in
\* order, and after no other (BaseContext.Next).
HandlerAfterItsChain == ctx.step \in {"endpoint", "handled"} => ran = chain[ctx.path]

\* Every registered route can be requested: its path is an op that Handle accepts and
\* looks up as that path, whatever the prefixes of its groups (joinRoute,
\* normalizeRoute, isDotRoute).
EveryRouteReachable ==
  \A path \in DOMAIN routes :
    path # Empty /\ isDotRoute(path) /\ normalizeRoute(path) = path

=============================================================================
