--------------------------- MODULE MCTelegramPoll ---------------------------
(* Instances of TelegramPoll for TLC. *)
EXTENDS TelegramPoll

\* What people post: commands, and a picture outside the thread, which has
\* neither of the keys poll_updates looks for.
MCKinds ==
  [thread : {"ours"}, text : {"mute", "query", "reboot"}]
    \cup {[thread |-> "none", text |-> "none"]}

\* /reboot alone.
MCReboot == {[thread |-> "ours", text |-> "reboot"]}
=============================================================================
