-------------------------- MODULE MCResourceViews --------------------------
(* Instances of ResourceViews for TLC: a render target view, a shader      *)
(* resource view and an unordered access view on the buffers of swap       *)
(* chains.                                                                 *)
EXTENDS ResourceViews, TLC

CONSTANTS r1, r2, r3, rtv, srv, uav, a1, a2, a3

KindDef == rtv :> "RTV" @@ srv :> "SRV" @@ uav :> "UAV"

Symmetry == Permutations(Resource) \union Permutations(Image)
=============================================================================
