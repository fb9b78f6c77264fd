----------------------------- MODULE MCBrowserVm -----------------------------
(* Two browsers and two ports that other programs may take.  One browser is   *)
(* offered two egress fragments that agree on the proxy and disagree on a     *)
(* mount, the other one that asks for no network.                             *)
EXTENDS BrowserVm, TLC

CONSTANTS first, second, proxy, secrets

Fragment(network, name, mount, guard) ==
  [network |-> network, environment |-> name, mounts |-> mount, guards |-> guard]

MCOffered ==
  (first :> << Fragment("internet", "HTTP_PROXY" :> "p",
                        {[tag |-> "ca", host |-> "p", guest |-> "/ca"]}, {proxy}),
               Fragment("internet", ("HTTP_PROXY" :> "p") @@ ("TOKEN" :> "s"),
                        {[tag |-> "keys", host |-> "s", guest |-> "/ca"]}, {secrets}) >>)
  @@ (second :> << Fragment("disabled", "TOKEN" :> "s", {}, {secrets}) >>)
=============================================================================
