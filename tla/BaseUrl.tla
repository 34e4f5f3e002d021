------------------------------ MODULE BaseUrl ------------------------------
(***************************************************************************)
(* base_url.py: the scheme, host and port a request is reported to have    *)
(* come to, out of what a proxy forwarded, the Host header and the         *)
(* connection.  A header is the sequence of its hops, an authority a host   *)
(* and a port; CleanScheme and CleanHost say what a spelling reduces to.    *)
(***************************************************************************)
EXTENDS Integers, Sequences, FiniteSetsExt

CONSTANTS
  None, Blank, Garbled, \* absent, empty, and a port that is no number
  CleanSchemes,         \* spellings of schemes -> the scheme
  CleanHosts            \* spellings of hosts -> the host

DefaultPort == [http |-> 80, https |-> 443]

Or(a, b) == IF a \notin {None, Blank} THEN a ELSE b

(* The hop the nearest proxy wrote. *)
LastHop(hops) ==
  LET said == {i \in DOMAIN hops : hops[i] # Blank} IN
  IF said = {} THEN None ELSE hops[Max(said)]

CleanScheme(s) == IF s \in DOMAIN CleanSchemes THEN CleanSchemes[s] ELSE None
CleanHost(h) == IF h \in DOMAIN CleanHosts THEN CleanHosts[h] ELSE None
IsNumber(p) == p \notin {None, Blank, Garbled}
Ports == 1..65535
ValidPortMutant(p) == IF IsNumber(p) /\ p > 0 THEN p ELSE None
ValidPort(p) == IF IsNumber(p) /\ p \in Ports THEN p ELSE None
CleanPort(p, scheme) ==
  IF scheme \in DOMAIN DefaultPort /\ DefaultPort[scheme] = ValidPort(p)
  THEN None ELSE ValidPort(p)

NoAuthority == [host |-> None, port |-> None]
Authority(a) == IF a \in {None, Blank} THEN NoAuthority ELSE a
HostAuthority(e) == Authority(Or(e.host, e.server_name))

(* What is not usable is not evidence, and only a scheme or a port that is  *)
(* makes the connection's own irrelevant.                                    *)
Resolve(e, trust) ==
  LET proto == IF trust THEN CleanScheme(LastHop(e.fwd_proto)) ELSE None
      fwd   == IF trust THEN Authority(LastHop(e.fwd_host)) ELSE NoAuthority
      fport == IF trust THEN ValidPort(LastHop(e.fwd_port)) ELSE None
      proxied == proto # None \/ fport # None
      scheme == Or(proto, IF proxied THEN None ELSE CleanScheme(e.scheme))
      from   == IF CleanHost(fwd.host) # None THEN fwd ELSE HostAuthority(e)
      port   == Or(Or(fport, from.port), IF proxied THEN None ELSE e.server_port)
  IN [scheme |-> scheme, host |-> CleanHost(from.host),
      port |-> IF scheme = None THEN None ELSE CleanPort(port, scheme)]

Hostname(e) == CleanHost(HostAuthority(e).host)

-----------------------------------------------------------------------------
ProperConstants ==
  /\ {None, Blank, Garbled} \cap Int = {}
  /\ None \notin DOMAIN CleanSchemes \cup DOMAIN CleanHosts
  /\ \A s \in DOMAIN CleanSchemes : CleanSchemes[s] \notin {None, Blank}
  /\ \A h \in DOMAIN CleanHosts : CleanHosts[h] # None

(* A forwarded header whose last hop is not usable is as if it had not been *)
(* sent, and so is every one when proxies are not trusted.                   *)
Ends(hops, i) == hops[i] # Blank /\ \A j \in (i + 1)..Len(hops) : hops[j] = Blank
UsableProto(hops) == \E i \in DOMAIN hops : Ends(hops, i) /\ hops[i] \in DOMAIN CleanSchemes
UsablePort(hops) == \E i \in DOMAIN hops : Ends(hops, i) /\ hops[i] # Garbled /\ hops[i] \in Ports
UsableHost(hops) == \E i \in DOMAIN hops : Ends(hops, i) /\ hops[i].host \in DOMAIN CleanHosts
Evidence(e, trust) == [e EXCEPT
  !.fwd_proto = IF trust /\ UsableProto(@) THEN @ ELSE << >>,
  !.fwd_port  = IF trust /\ UsablePort(@) THEN @ ELSE << >>,
  !.fwd_host  = IF trust /\ UsableHost(@) THEN @ ELSE << >>]

(* A URL that is of the evidence alone; of no scheme or port of the          *)
(* connection once a proxy gave either; and with a port only beside a scheme *)
(* it is not the default of.                                                 *)
Evidenced(environ, trust, url) ==
  LET e == Evidence(environ, trust) IN
  /\ url = Resolve(e, TRUE)
  /\ e.fwd_proto # << >> \/ e.fwd_port # << >> =>
       url = Resolve([e EXCEPT !.scheme = None, !.server_port = None], TRUE)
  /\ url.port # None => url.scheme # None /\ <<url.scheme, url.port>> \notin {<<"http", 80>>, <<"https", 443>>}
=============================================================================
