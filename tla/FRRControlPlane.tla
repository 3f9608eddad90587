--------------------------- MODULE FRRControlPlane ---------------------------
(***************************************************************************)
(* The lab router behind AuthorizedNetworkAdapter: the driver of           *)
(* agents/failover/frr_control_plane.py, reached through                   *)
(* TypedControlPlaneDelegate.                                              *)
(*                                                                         *)
(* The router's state is the set of administrative distances under which   *)
(* the static default route via ISP-A is configured; ISP-B's default route *)
(* is always there with distance 20.  The lowest distance wins.            *)
(*                                                                         *)
(* The driver sends two vtysh commands in one docker exec.  A timeout, a   *)
(* failing command or a lost container can stop it after any prefix of     *)
(* them; only a return code of 0 means both were taken.  The driver        *)
(* answers in a response object and never raises.                          *)
(***************************************************************************)
EXTENDS Naturals

VARIABLE
    distancesA   (* distances of the static default routes via ISP-A       *)

RouterInit == distancesA = {10}

(* verify_route_path: next hop of the static default of lowest distance.   *)
ActiveProvider ==
    IF \E d \in distancesA : d < 20 THEN "ISP-A" ELSE "ISP-B"

(* Applying the first k of the commands "no ip route .. via ISP-A old",    *)
(* "ip route .. via ISP-A new".                                            *)
AfterCommands(k, old, new) ==
    CASE k = 0 -> distancesA
      [] k = 1 -> distancesA \ {old}
      [] OTHER -> (distancesA \ {old}) \cup {new}

Reconfigure(old, new) ==
    \E k \in 0..2 : distancesA' = AfterCommands(k, old, new)

(* Variant of FailoverProvider: the new distance ties with ISP-B's.        *)
FailoverProviderTie == Reconfigure(10, 20)

(* failover_provider deprioritises ISP-A behind ISP-B, failback_provider   *)
(* puts it back; neither looks at the providers named in the request.      *)
FailoverProvider == Reconfigure(10, 30)
FailbackProvider == Reconfigure(30, 10)

RouterTypeOK == distancesA \subseteq {10, 30}
=============================================================================
