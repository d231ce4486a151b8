--------------------------- MODULE ClientAddress ---------------------------
(***************************************************************************)
(* Whose request it is: the address that is stored with a request and that *)
(* the rate limiter counts by (ClientIP in internal/middleware/            *)
(* clientip.go).  A sender writes any X-Forwarded-For and X-Real-IP it     *)
(* likes; every trusted proxy on the way adds the peer it sees to          *)
(* X-Forwarded-For, in one line, and leaves X-Real-IP alone.  An untrusted *)
(* proxy counts as the sender.                                             *)
(***************************************************************************)
EXTENDS Integers, Sequences, FiniteSetsExt

CONSTANTS
  Named,      \* what can be written as an address; those outside Host are not one
  Host,       \* addresses that can connect
  Trusted,    \* hosts in the networks of TRUSTED_PROXIES
  NoAddress,  \* an entry that is empty, a header that is not there
  MaxWritten, \* bound on the entries a sender writes
  MaxHops     \* bound on the proxies

ASSUME AddressAssumption ==
  /\ Host \subseteq Named
  /\ Trusted \subseteq Host
  /\ NoAddress \notin Named
  /\ MaxWritten \in Nat
  /\ MaxHops \in Nat

VARIABLES
  path,            \* the sender, then the proxies it came through
  xForwardedFor,   \* the header's entries
  xRealIP

addressVars == <<path, xForwardedFor, xRealIP>>

AddressInit ==
  /\ path = <<>>
  /\ xForwardedFor = <<>>
  /\ xRealIP = NoAddress

SendRequest ==
  /\ path = <<>>
  /\ \E s \in Host, n \in 0..MaxWritten :
       /\ path' = <<s>>
       /\ xForwardedFor' \in [1..n -> Named \cup {NoAddress}]
       /\ xRealIP' \in Named \cup {NoAddress}

Relay(proxy) ==
  /\ path # <<>>
  /\ Len(path) <= MaxHops
  /\ path' = Append(path, proxy)
  /\ xForwardedFor' = Append(xForwardedFor, path[Len(path)])
  /\ UNCHANGED xRealIP

AddressNext == SendRequest \/ \E proxy \in Trusted : Relay(proxy)

AddressSpec == AddressInit /\ [][AddressNext]_addressVars

\* The entries that name somebody who is not a trusted proxy.
Outside(given) == {i \in DOMAIN given : given[i] \notin Trusted \cup {NoAddress}}

\* Fault: the leftmost entry, which is the one the sender wrote first.
ClientIPFromLeft(peer, given, real) ==
  IF peer \notin Trusted THEN peer
  ELSE IF Outside(given) # {} THEN given[Min(Outside(given))]
  ELSE IF given # <<>> /\ given[1] # NoAddress THEN given[1]
  ELSE IF real # NoAddress THEN real
  ELSE peer

\* The headers count only if a trusted proxy delivers them; then it is the
\* rightmost entry that is not one, else the leftmost, else X-Real-IP.
ClientIP(peer, given, real) ==
  IF peer \notin Trusted THEN peer
  ELSE IF Outside(given) # {} THEN given[Max(Outside(given))]
  ELSE IF given # <<>> /\ given[1] # NoAddress THEN given[1]
  ELSE IF real # NoAddress THEN real
  ELSE peer

-----------------------------------------------------------------------------
\* Through any number of trusted proxies, a sender that is not one itself is
\* known by its own address, whatever it wrote into the headers: it can neither
\* spend another client's rate limit nor escape its own.
SenderKnown ==
  path # <<>> /\ path[1] \notin Trusted =>
    ClientIP(path[Len(path)], xForwardedFor, xRealIP) = path[1]
=============================================================================
