--------------------------- MODULE MCSubscriptions ---------------------------
(* "Home.VPN" and "HomeVPN" have two slugs and one group.                    *)
EXTENDS Subscriptions, TLC

CONSTANTS r1, r2, dotted, joined

MCSlug  == (dotted :> "home-vpn") @@ (joined :> "homevpn")
MCGroup == (dotted :> "HomeVPN") @@ (joined :> "HomeVPN")
=============================================================================
