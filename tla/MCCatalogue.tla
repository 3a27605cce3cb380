------------------------------ MODULE MCCatalogue ------------------------------
(***************************************************************************)
(* Instances of Catalogue for TLC.                                         *)
(***************************************************************************)
EXTENDS Catalogue, TLC

CONSTANTS c1, ec, lc, dc,     \* a company: made, edited, given a logo, removed
          p1, ep, dp,         \* a property of it: made, edited, removed,
          ip, vp              \* given images and a video

KindOf ==
    c1 :> "newCompany" @@ ec :> "edit" @@ lc :> "logo" @@ dc :> "remove"
    @@ p1 :> "newProperty" @@ ep :> "edit" @@ ip :> "images"
    @@ vp :> "videos" @@ dp :> "remove"

\* The update of the company brings a logo, too, which its form does not have.
BodyOf ==
    c1 :> [info |-> c1] @@ ec :> [info |-> ec, logo |-> ec]
    @@ p1 :> [info |-> p1] @@ ep :> [info |-> ep]

MCKind == [r \in Requests |-> KindOf[r]]
MCSubject == [r \in Requests |-> IF r \in {c1, ec, lc, dc} THEN c1 ELSE p1]
MCBody == [r \in Requests |-> IF r \in DOMAIN BodyOf THEN BodyOf[r] ELSE <<>>]
MCParent == p1 :> c1
MCCount == [r \in Requests |-> IF r = ip THEN 2 ELSE 1]
================================================================================
