-------------------------------- MODULE Tags --------------------------------
(***************************************************************************)
(* The tags of api/tags.go: what becomes of the tags of a filesystem or of *)
(* a request before they are put on a filesystem or a user.  A list of     *)
(* tags is the set of its keys with their values.                          *)
(***************************************************************************)

OwnKeys == {"Name", "spinup:org", "spinup:spaceid"}

ReservedKeys == {"aws:"}        \* stands for every key that begins like this

Tag(k, v) == [key |-> k, value |-> v]

Keys(tags) == {t.key : t \in tags}

Unique(tags) == \A t, x \in tags : t.key = x.key => t = x

(* Mutants: the tags of the request win; they are not dropped. *)
KeepOwnKeys(org, name, group, tags) ==
    LET kept == {t \in tags : t.key \notin ReservedKeys}
        own == {Tag("Name", name), Tag("spinup:org", org), Tag("spinup:spaceid", group)}
    IN kept \cup {t \in own : t.key \notin Keys(kept)}

DropReservedOnly(org, name, group, tags) ==
    {t \in tags : t.key \notin ReservedKeys}
        \cup {Tag("Name", name), Tag("spinup:org", org), Tag("spinup:spaceid", group)}

(* normalizeTags *)
Normalized(org, name, group, tags) ==
    {t \in tags : t.key \notin OwnKeys \cup ReservedKeys}
        \cup {Tag("Name", name), Tag("spinup:org", org), Tag("spinup:spaceid", group)}

(* A resource that has the tags old is given the tags new. *)
Put(old, new) == {t \in old : t.key \notin Keys(new)} \cup new
=============================================================================
