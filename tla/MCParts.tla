------------------------------ MODULE MCParts ------------------------------
(***************************************************************************)
(* Six components that share no state with one another, checked in one     *)
(* run: part says which of them a behaviour is about, and the others stay  *)
(* as they are at the start.                                               *)
(*                                                                         *)
(* The ring buffer has three slots, six pushes (two full wraps) of two     *)
(* messages, and a clock that runs past the TTL twice; the pool three      *)
(* calls for two slots; the forwarder two jobs, one in each behaviour, of  *)
(* which one has a target with a scheme that is not allowed, each with two *)
(* retries, a name that may resolve to an address of several kinds and a   *)
(* target that the request reaches up to four times; the limiter two       *)
(* clients and room for one, buckets of two requests that take four ticks  *)
(* to fill, and a clock that reaches past forgetting them.  Of signatures  *)
(* with the secret there may be two when a request comes in, so that a     *)
(* sender's and the server's own can be replayed, in time or too late,     *)
(* under a configuration that signs again or one whose secret is not       *)
(* valid, where only the public key can verify; a client comes through up  *)
(* to two trusted proxies, itself one or not, with up to two entries and   *)
(* an X-Real-IP it made up.                                                *)
(***************************************************************************)
EXTENDS ReplayBuffer, ScriptPool, Forwarder, RateLimiter, Signature, ClientAddress

MCSettings ==
  {[secret |-> s, publicKey |-> "public", resign |-> TRUE] : s \in {"secret", "malformed"}}

VARIABLE part

partsVars == <<part, vars, poolVars, forwardVars, limiterVars, signatureVars, addressVars>>

PartsInit ==
  /\ part \in {"ring", "pool", "limiter", "signature", "address"} \cup Job
  /\ Init
  /\ PoolInit
  /\ ForwardInit
  /\ LimiterInit
  /\ SignatureInit
  /\ AddressInit

InRing == part = "ring" /\ Next /\ UNCHANGED <<poolVars, forwardVars, limiterVars, signatureVars, addressVars>>
InPool == part = "pool" /\ PoolNext /\ UNCHANGED <<vars, forwardVars, limiterVars, signatureVars, addressVars>>
InForwarder ==
  /\ part \in Job
  /\ ForwardNext
  /\ \A j \in Job \ {part} : forward'[j] = "none"
  /\ UNCHANGED <<vars, poolVars, limiterVars, signatureVars, addressVars>>
InLimiter == part = "limiter" /\ LimiterNext /\ UNCHANGED <<vars, poolVars, forwardVars, signatureVars, addressVars>>
InSignature == part = "signature" /\ SignatureNext /\ UNCHANGED <<vars, poolVars, forwardVars, limiterVars, addressVars>>
InAddress == part = "address" /\ AddressNext /\ UNCHANGED <<vars, poolVars, forwardVars, limiterVars, signatureVars>>

PartsNext ==
  /\ UNCHANGED part
  /\ InRing \/ InPool \/ InForwarder \/ InLimiter \/ InSignature \/ InAddress

PartsSpec == PartsInit /\ [][PartsNext]_partsVars /\ PoolFairness
=============================================================================
