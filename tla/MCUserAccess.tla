---------------------------- MODULE MCUserAccess ----------------------------
(***************************************************************************)
(* UserAccess for TLC: an update sends a tag of its own and some that      *)
(* normalizeTags drops, or ResourceName; only requests whose calls may     *)
(* fail name another group.                                                *)
(***************************************************************************)
EXTENDS UserAccess

SomeWishes ==
    {{Tag("custom", "new"), Tag("spinup:spaceid", "elsewhere"), Tag("Name", "another")},
     {Tag("ResourceName", "another")}}

UnluckyStray ==
    {f \in [Requests \cup Updates -> Spaces] : \A x \in Requests \cup Updates :
        f[x] # Home => x \in Unlucky}
=============================================================================
