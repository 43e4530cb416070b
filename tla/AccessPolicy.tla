---------------------------- MODULE AccessPolicy ----------------------------
(***************************************************************************)
(* The access policy of a filesystem, api/policy.go: a client sets it by   *)
(* flags, EFS keeps it as statements, and a client that asks is shown the  *)
(* flags that are read back from the names of the statements.  What a      *)
(* statement says is left out: it follows from its name.                   *)
(***************************************************************************)

(* FileSystemAccessPolicy *)
Flags == [AllowAnonymousAccess : BOOLEAN,
          EnforceEncryptedTransport : BOOLEAN,
          AllowEcsTaskExecutionRole : BOOLEAN]

(* efsPolicyFromFileSystemAccessPolicy *)
Statements(flags) ==
    (IF flags.EnforceEncryptedTransport THEN {"DenyUnencryptedTransport"} ELSE {})
    \cup {IF flags.AllowAnonymousAccess THEN "AllowAnonymousAccess" ELSE "DenyAnonymousAccess"}
    \cup (IF flags.AllowEcsTaskExecutionRole THEN {"AllowECSAccessFromHomeSpace"} ELSE {})

(* filSystemAccessPolicyFromEfsPolicy: of statements anybody may have set. *)
FlagsShown(statements) ==
    [AllowAnonymousAccess |-> "DenyAnonymousAccess" \notin statements,
     EnforceEncryptedTransport |-> "DenyUnencryptedTransport" \in statements,
     AllowEcsTaskExecutionRole |-> "AllowECSAccessFromHomeSpace" \in statements]
=============================================================================
