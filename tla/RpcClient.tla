----------------------------- MODULE RpcClient ------------------------------
(***************************************************************************)
(* The RPC client that all EVM workers share (chain/evm/client.go): a call *)
(* goes to the endpoint that answered last, is repeated a number of times, *)
(* and then moves on to the other endpoint.  Several goroutines call at    *)
(* once; what they share is the active endpoint, which is read and written *)
(* under a lock.                                                           *)
(*                                                                         *)
(* These are the steps of one goroutine's call, and what the calls of the  *)
(* others may do to the shared state meanwhile.  Who asks what, what an    *)
(* endpoint says and what happens then is left to the module that extends  *)
(* this one.  Left out are the health snapshot, which only the HTTP API    *)
(* reads, and endpoint.validated: it is read for the active endpoint only, *)
(* and set before an endpoint can become that.                             *)
(***************************************************************************)
EXTENDS Integers, Sequences

CONSTANTS
  NumEndpoints,     \* 2: the primary and the fallback
  MaxAttempts       \* RetryPolicy.MaxAttempts

ASSUME RpcClientConstantsAssumption ==
  NumEndpoints \in Nat \ {0} /\ MaxAttempts \in Nat \ {0}

Endpoint == 1 .. NumEndpoints

VARIABLES
  foreign,            \* the endpoints configured for another chain
  active,             \* Client.active
  call                \* the endpoints left to try, the attempt at the first of them,
                      \* and whether validateEndpoint let it pass

(* Only endpoints of the right chain are ever asked anything but their id. *)
ClientTypeOK ==
  /\ foreign \subseteq Endpoint /\ active \in Endpoint \ foreign
  /\ call \in [order : Seq(Endpoint), attempt : 1 .. MaxAttempts, passed : BOOLEAN]
  /\ Len(call.order) <= NumEndpoints
  /\ call.passed => call.order # <<>> /\ Head(call.order) \notin foreign

(* validateEndpoint skips the probe only for the endpoint in use.          *)
ProvenBug(e) == TRUE
Proven(e) == e = active

(* A call that is to try these endpoints: none is no call, or a failed one. *)
CallTo(order) ==
  [order |-> order, attempt |-> 1, passed |-> order # <<>> /\ Proven(Head(order))]
NoCall == CallTo(<<>>)

(* New returns a client once an endpoint has shown the right chain. *)
ClientInit ==
  /\ foreign \in SUBSET Endpoint
  /\ active \in Endpoint \ foreign
  /\ call = NoCall

(* The process starts again. *)
ClientRestart ==
  /\ active' \in Endpoint \ foreign
  /\ call' = NoCall
  /\ UNCHANGED foreign

(* The active endpoint first, then the others as configured. *)
EndpointOrder == [n \in Endpoint |-> IF n = 1 THEN active ELSE IF n <= active THEN n - 1 ELSE n]
Called == CallTo(EndpointOrder)

Calling == call.order # <<>>
Asked   == Head(call.order)
NextEndpoint == CallTo(Tail(call.order))

(* The probe shows the right chain. *)
Validated ==
  /\ Calling /\ ~ call.passed
  /\ Asked \notin foreign
  /\ call' = [call EXCEPT !.passed = TRUE]
  /\ UNCHANGED <<foreign, active>>

(* It shows another one, or fails. *)
Rejected ==
  /\ Calling /\ ~ call.passed
  /\ call' = NextEndpoint
  /\ UNCHANGED <<foreign, active>>

(* markSuccess: the endpoint that answered last is asked first.            *)
MarkSuccess ==
  /\ call.passed
  /\ active' = Asked
  /\ UNCHANGED foreign

(* Timeouts, 429, 502, 503, 504 and -32002 are tried again; a range that   *)
(* is too large, a refused connection or NotFound is returned at once.     *)
Failure == {"timeout", "tooLarge", "refused"}
IsLogRangeTooLarge(f) == f = "tooLarge"
RetryableBug(f) == f = "refused"
Retryable(f) == ~ IsLogRangeTooLarge(f) /\ f = "timeout"

Fail(f) ==
  /\ call.passed
  /\ call' = IF ~ Retryable(f) THEN NoCall
             ELSE IF call.attempt < MaxAttempts THEN [call EXCEPT !.attempt = @ + 1]
             ELSE NextEndpoint
  /\ UNCHANGED <<foreign, active>>

(* Another goroutine's call, past its probe, is answered. *)
OtherCall(e) ==
  /\ e \notin foreign
  /\ active' = e
  /\ UNCHANGED <<foreign, call>>
=============================================================================
