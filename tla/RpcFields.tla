----------------------------- MODULE RpcFields -----------------------------
(***************************************************************************)
(* The vocabulary in which the RPC stubs of the client and the handlers of *)
(* the server are written down.  Both are generated C++ functions whose    *)
(* body is one chain of rpc_write and rpc_read calls; such a chain is a    *)
(* sequence of items here, one item per call, in the order of the calls.   *)
(*                                                                         *)
(* A message is a sequence of units.  A unit is what one rpc_write puts on *)
(* the wire, labelled with the parameter, its C type and the number of     *)
(* elements; nothing like the label is on the wire, so a reader that takes *)
(* a unit under another label has lost its place.  The contents of a       *)
(* parameter matter only when the two sides count or branch on it: flags   *)
(* and lengths have their value, everything else is 0.  A structure that   *)
(* carries arrays has their length as its value.  Where a stub branches on *)
(* return_value, 1 stands for success and 0 for every error.               *)
(***************************************************************************)
EXTENDS Integers, Sequences, FiniteSets, FiniteSetsExt, TLC

\* Bounds on the values the parameters take.
MaxCount == 2                   \* longest array a caller asks for or passes
NoTicket == -1                  \* the sentinel ~uint64_t{0} of a call that waits

Flag == 0..1                    \* _present, _null and _has_data bytes
Cnt == 0..MaxCount              \* an unsigned count
Len1 == 1..MaxCount             \* std::strlen(s) + 1
Int32 == -1..MaxCount           \* a signed count nobody has checked yet
Out == 0..MaxCount + 1          \* a count the driver reports, free to exceed the request
Ticket == {NoTicket, 0}

NoArgs == {<<>>}                \* no parameter of the call is counted or branched on
NoOuts == {<<>>}                \* nor is any result of the driver

(***************************************************************************)
(* Items.  An rpc_write or rpc_read of parameter n of type t moves Count   *)
(* units: none if a parameter of `when' is zero or one of `unless' is not, *)
(* else the least of the counts in `count', else one.  A transfer of zero  *)
(* bytes is no transfer, so tests of the form `n != 0 &&' need no item.    *)
(***************************************************************************)
Item(kind, n, t, count, when, unless) ==
  [kind |-> kind, n |-> n, t |-> t, count |-> count, when |-> when, unless |-> unless]

F(n, t) == Item("field", n, t, {}, {}, {})
FIf(p, n, t) == Item("field", n, t, {}, {p}, {})
FUnless(p, n, t) == Item("field", n, t, {}, {}, {p})
Arr(n, t, c) == Item("field", n, t, c, {}, {})
ArrIf(p, n, t, c) == Item("field", n, t, c, {p}, {})
ArrUnless(p, n, t, c) == Item("field", n, t, c, {}, {p})

\* malloc or calloc of the buffer of n, which may return null; a null pointer
\* for a buffer of no bytes is tolerated.
Alloc(n) == Item("alloc", n, "", {}, {}, {})
AllocUnless(p, n) == Item("alloc", n, "", {}, {}, {p})
AllocArr(n, c) == Item("alloc", n, "", c, {}, {})
AllocArrUnless(p, n, c) == Item("alloc", n, "", c, {}, {p})
\* A stub gives up on a string longer than its limit (MaxCount here).
Limit(n) == Item("limit", n, "", {n}, {}, {})
\* The handler's `if (n < 0) goto ERROR_0'.
NonNegative(n) == Item("check", n, "", {}, {}, {})
\* NVML handlers: a buffer was given and the driver's count n exceeds the
\* count asked for, so the call is turned into a failure.
Fits(null, n, cap) == Item("fits", n, "", {cap}, {}, {null})
\* NVML handlers: n tells the client that the array follows.
HasData(n, null) == Item("set", n, "", {}, {"return_value"}, {null})
\* NVML stubs: the array may follow only if a buffer was given and the count
\* n fits what was asked for; otherwise the stub closes the transport.
Expect(flag, null, n, cap) == Item("expect", n, "", {cap} \ {""}, {flag}, {null})

Value(env, n) == IF n \in DOMAIN env THEN env[n] ELSE 0

Count(it, env) ==
  CASE (\E p \in it.when : Value(env, p) = 0) \/ (\E p \in it.unless : Value(env, p) # 0) -> 0
    [] it.count # {} -> Max({0, Min({Value(env, c) : c \in it.count})})
    [] OTHER -> 1

\* n bound to v in the parameters env.
Bind(env, n, v) == (n :> v) @@ env

\* What the handler settles before it writes: a count that does not fit turns
\* the result into a failure, and only then the announcements are computed.
Overflows(it, env) ==
  it.kind = "fits" /\ (\A p \in it.unless : Value(env, p) = 0)
    /\ \E c \in it.count : Value(env, it.n) > Value(env, c)
Settle(items, env) ==
  LET failed == IF \E i \in DOMAIN items : Overflows(items[i], env)
                  THEN Bind(env, "return_value", 0) ELSE env
      sets == SelectSeq(items, LAMBDA it : it.kind = "set")
  IN IF sets = <<>> THEN failed ELSE Bind(failed, sets[1].n, Count(sets[1], failed))

\* The units a chain of rpc_write calls produces from the parameters env.
Units(items, env) ==
  LET sent == SelectSeq(items, LAMBDA it : it.kind = "field" /\ Count(it, env) > 0)
  IN [i \in DOMAIN sent |-> [n |-> sent[i].n, t |-> sent[i].t, c |-> Count(sent[i], env),
                             v |-> Value(env, sent[i].n)]]

(***************************************************************************)
(* Stubs and handlers.  A stub that submits asynchronously writes its      *)
(* request and returns; the handler of such a request writes no response.  *)
(* The NCCL collectives do either, as the async_sequence they send says.   *)
(***************************************************************************)
Stub(mode, route, request, response) ==
  [mode |-> mode, route |-> route, args |-> NoArgs, request |-> request,
   response |-> response, then |-> {}]
Call(route, request, response) == Stub("wait", route, request, response)
Post(route, request) == Stub("post", route, request, <<>>)
CallOrPost(route, request, response) == Stub("either", route, request, response)
\* The parameters a caller can pass, as far as they are tracked.
With(args, stub) == [stub EXCEPT !.args = args]
\* Client tables the stub updates once the call has succeeded.
Then(effects, stub) == [stub EXCEPT !.then = effects]

Handler(mode, request, response) ==
  [mode |-> mode, request |-> request, outs |-> NoOuts, response |-> response]
Reply(request, response) == Handler("wait", request, response)
Run(request) == Handler("post", request, <<>>)
ReplyOrRun(request, response) == Handler("either", request, response)
\* The results of the driver, as far as they are tracked.
Driver(outs, handler) == [handler EXCEPT !.outs = outs]
=============================================================================
