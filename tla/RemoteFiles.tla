---------------------------- MODULE RemoteFiles ----------------------------
(***************************************************************************)
(* What the host-channel gateway promises (pyirix_qemu/host_channel.py,    *)
(* push_file and pull_file: "binary-exact"): one caller at a time, files   *)
(* that only grow by the content being pushed, and a success that means    *)
(* that the file and the content are the same.                             *)
(***************************************************************************)
EXTENDS Integers, Sequences

CONSTANTS
  Paths,
  Blobs,     \* what fits the data buffer in one chunk
  Contents   \* the contents that are pushed: sequences of blobs

VARIABLES
  files,     \* files[p]: the content of p in the guest, or Absent
  op,        \* the call in progress or just returned
  target,    \* its path
  content,   \* what it pushes
  got,       \* what it has pulled, or printed
  reply      \* "none" while it is in progress, then its outcome

rfVars == <<files, op, target, content, got, reply>>

Absent == <<"absent">>

RFInit ==
  /\ files = [p \in Paths |-> Absent]
  /\ op = "none" /\ target \in Paths /\ content = <<>> /\ got = <<>>
  /\ reply = "ok"

(* A call begins when the one before has returned.                         *)
Begin ==
  /\ reply # "none"
  /\ reply' = "none"
  /\ op' \in {"push", "pull", "other"}
  /\ target' \in Paths
  /\ content' \in Contents \cup {<<>>} \cup {<<b>> : b \in Blobs}
  /\ got' = <<>>
  /\ UNCHANGED files

(* A push in progress empties the file, then extends it by what comes next *)
(* of the content.                                                         *)
Write ==
  /\ op = "push" /\ reply = "none"
  /\ \/ files' = [files EXCEPT ![target] = <<>>]
     \/ /\ files[target] # Absent /\ Len(files[target]) < Len(content)
        /\ files' = [files EXCEPT ![target] = Append(@, content[Len(@) + 1])]
  /\ UNCHANGED <<op, target, content, got, reply>>

Read ==
  /\ op = "pull" /\ reply = "none"
  /\ files[target] # Absent /\ Len(got) < Len(files[target])
  /\ got' = Append(got, files[target][Len(got) + 1])
  /\ UNCHANGED <<files, op, target, content, reply>>

Return ==
  /\ reply = "none"
  /\ \/ reply' = "failed"
     \/ reply' = "ok" /\ op = "push" /\ files[target] = content
     \/ reply' = "ok" /\ op = "pull" /\ files[target] = got
     \/ reply' = "ok" /\ op = "other"
  /\ op # "other" => UNCHANGED got
  /\ UNCHANGED <<files, op, target, content>>

RFNext == Begin \/ Write \/ Read \/ Return

RFSpec == RFInit /\ [][RFNext]_rfVars
=============================================================================
