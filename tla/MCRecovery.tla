---------------------------- MODULE MCRecovery ----------------------------
(* Two requests on a calendar and a message, with files and a shell.       *)
EXTENDS Recovery, TLC

Make(tool, fields) == [tool |-> tool, fields |-> fields]

delete == Make("calendar_delete", "event" :> "e1")
update == Make("calendar_update", "event" :> "e2")
mail == Make("mail", "to" :> "ann" @@ "text" :> "hi")
again == Make("mail", "to" :> "ann" @@ "text" :> "bye")
read == Make("file_read", "path" :> "p")
edit == Make("edit", "path" :> "p")
build == Make("bash", "command" :> "make")
secret == Make("secret", "path" :> "q")
list == Make("calendar_list", "day" :> "today")

MCCall == {delete, update, mail, again, read, edit, build, secret, list}

\* A model that asks for one thing over and over (RecoveryRepeats.cfg).
RepeatCall == {list}
MCGated == {mail}
MCAllowed == {c.tool : c \in MCCall \ {secret}}
MCRecipient(c) == IF "to" \in DOMAIN c.fields THEN c.fields["to"] ELSE "nobody"
MCNamespace(t) ==
  CASE t \in {"calendar_delete", "calendar_update", "calendar_list"} -> "calendar"
    [] t \in {"file_read", "edit", "bash"} -> "files"
    [] OTHER -> "none"

Ok == [outcome |-> "ok", fresh |-> TRUE, waits |-> FALSE]
Same == [outcome |-> "ok", fresh |-> FALSE, waits |-> FALSE]
Ask == [outcome |-> "ok", fresh |-> TRUE, waits |-> TRUE]
Fail(outcome) == [outcome |-> outcome, fresh |-> TRUE, waits |-> FALSE]

MCPossible(c) ==
  CASE c = delete -> {Fail("failed"), Fail("final")}
    [] c = update -> {Ok}
    [] c = mail -> {Ok, Fail("failed")}
    [] c = again -> {Ask}
    [] c = read -> {Ok}
    [] c = edit -> {Ok, Fail("failed")}
    [] c = list -> {Ok, Same}
    [] c = build -> {Same, Fail("stuck")}
    [] OTHER -> {}

\* Unreadable answers, repeated outputs and a tool the turn may not use only matter to the
\* count of what brings nothing new, which a resume starts over: where they come in play, all
\* calls do that, each in a way of its own, and nothing is resumed.
Bound ==
  unread > 0 \/ barren > idle + toolCalls \/ (\E i \in DOMAIN results : results[i].call \in {list, secret})
    => resumes = 0 /\ \A i \in DOMAIN results : results[i].call \in {list, delete, secret}
=============================================================================
