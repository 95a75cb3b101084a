----------------------------- MODULE RouteList -----------------------------
(***************************************************************************)
(* The routes of a node: the std::list<Route> of src/src/interface.h and   *)
(* the test by which findRoute of src/src/interface.cpp picks one.  Every  *)
(* route is a host route (addPeerRoute sets mask 255.255.255.255 and       *)
(* maskbits 32), so mask and maskbits carry no information and a route     *)
(* matches exactly the address it was added for.                           *)
(***************************************************************************)
EXTENDS Naturals, Sequences

CONSTANTS Addr,          \* IPv4 addresses
          FriendNumber   \* toxcore's friend numbers

Route == [network : Addr, friend_number : FriendNumber]

\* (network & mask) == (peer.s_addr & mask), with all bits of mask set
Matches(r, peer) == r.network = peer

\* addresses some route of the list matches
Networks(routes) == {routes[i].network : i \in DOMAIN routes}

\* the first route of the list that matches peer, as a set of at most one
FirstMatch(routes, peer) ==
  {routes[i] : i \in {j \in DOMAIN routes :
                        /\ Matches(routes[j], peer)
                        /\ \A k \in 1 .. j - 1 : ~Matches(routes[k], peer)}}
=============================================================================
