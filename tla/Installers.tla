----------------------------- MODULE Installers -----------------------------
(***************************************************************************)
(* `lumux integration <agent>`: the installers of the agents' state hooks  *)
(* (crates/lumux/src/integration.rs and integration/*.rs).  An install     *)
(* reads the user's own configuration of the agent, drops the entries an   *)
(* earlier install left there, adds its entries, writes the wrapper script *)
(* that they run and then replaces the configuration.  Each file is        *)
(* replaced by a rename, one after another, and any step may fail or be    *)
(* the last before the process is killed; the user edits the configuration *)
(* whenever he likes, the moment between the read and the rename included. *)
(***************************************************************************)
EXTENDS Naturals, FiniteSets, Sequences, Lists

(* The lumux releases that are run; the old one mapped more events.        *)
Releases == {"old", "new"}

VARIABLES
  agent,    \* the agent whose integration is installed
  release,  \* the lumux release that is run
  readable, \* the configuration is there or absent, and parses
  events,   \* event -> its hook groups; a group is a sequence of commands
  text,     \* Kimi's config.toml, as lines
  feature,  \* Codex's config.toml: the hooks feature
  wrapper,  \* the managed script: "missing" or the release that wrote it
  step,     \* where the running install stands
  root,     \* the configuration it holds in memory
  seen      \* the configuration it read (history)

installVars == <<agent, release, readable, events, text, feature, wrapper, step,
          root, seen>>

(* The hook schemas: Claude, Codex and Qoder have groups of commands;      *)
(* Cursor's flat list is a list of groups of one; Kimi's block is          *)
(* delimited by two comments; Copilot's file is generated as a whole;      *)
(* opencode and pi get a plugin file and no entry anywhere.                *)
Agents == {"claude", "codex", "qodercli", "cursor", "kimi", "copilot",
           "opencode", "pi"}
Merged == {"claude", "codex", "qodercli", "cursor"}

(* "current" stands for the events of HOOK_EVENTS, "retired" for those     *)
(* only an older release mapped.                                           *)
Events == {"current", "retired"}
Mapped == IF release = "old" THEN Events ELSE {"current"}

Entry(array, groups) == [array |-> array, groups |-> groups]
NoGroups == Entry(TRUE, <<>>)
Nothing == [e \in Events |-> NoGroups]

(* What a user may leave under an event: nothing, something that is not an *)
(* array, a group of his own (or of a shape lumux does not know) alone or  *)
(* after lumux's, his command beside lumux's in one group, with an empty   *)
(* group.  Of Kimi's lines, where one stands for all the hooks a release   *)
(* writes, he may lose the closing comment.                                *)
Entries == {NoGroups, Entry(FALSE, <<>>)} \cup
  {Entry(TRUE, gs) : gs \in {<<<<"user">>>>, <<<<"ours">>, <<"user">>>>,
      <<<<"user", "ours">>, <<>>>>}}
Flat(e) == \A i \in DOMAIN e.groups : Len(e.groups[i]) = 1
Texts == {<<>>, <<"user">>} \cup UNION {
  {<<"begin", r, "end">>, <<"begin", r, "user">>,
   <<"user", "begin", r, "end">>, <<"begin", r, "end", "user">>} : r \in Releases}
HookLines(lines) == Cardinality({i \in DOMAIN lines : lines[i] \in Releases})

Ours(seq) == Cardinality({i \in DOMAIN seq : seq[i] = "ours"})

(* Where lumux's commands are: a group, and a place in it.                 *)
Places(e) ==
  UNION {{<<i, j>> : j \in {k \in DOMAIN e.groups[i] : e.groups[i][k] = "ours"}} :
           i \in DOMAIN e.groups}
OursIn(e) == Cardinality(Places(e))

InstallInit ==
  /\ agent \in Agents
  /\ release \in Releases
  /\ readable \in BOOLEAN
  /\ events = [e \in Events |-> NoGroups]
  /\ text = <<>>
  /\ feature \in {"unset", "off", "bad"}
  /\ wrapper = "missing"
  /\ step = "idle"
  /\ root = Nothing
  /\ seen = [events |-> Nothing, text |-> <<>>]

-----------------------------------------------------------------------------
(* What lumux does to the configuration it read.                           *)

(* A group is thrown away with whatever else it holds.                     *)
PruneWholeGroups(conf) == [e \in Events |->
  [conf[e] EXCEPT !.groups = Chain([i \in DOMAIN @ |-> IF Ours(@[i]) = 0 THEN <<@[i]>> ELSE <<>>])]]

(* common::prune_managed_nested_hooks and Cursor's prune_managed: the      *)
(* managed commands go from every event, mapped or not; a group goes only  *)
(* when that emptied it.                                                   *)
PrunedGroup(g) == Kept(g, {"user"})
PrunedGroups(groups) ==
  Chain([i \in DOMAIN groups |->
    IF Ours(groups[i]) > 0 /\ PrunedGroup(groups[i]) = <<>> THEN <<>>
    ELSE <<PrunedGroup(groups[i])>>])
Prune(conf) == [e \in Events |-> [conf[e] EXCEPT !.groups = PrunedGroups(@)]]

(* append_hook for each of HOOK_EVENTS: it fails on an event that is not   *)
(* an array.                                                               *)
CanAppend(conf) == \A e \in Mapped : conf[e].array
AppendHooks(conf) == [e \in Events |->
  IF e \in Mapped THEN [conf[e] EXCEPT !.groups = Append(@, <<"ours">>)]
                  ELSE conf[e]]

(* Copilot's file is built from nothing.                                   *)
Generated == AppendHooks(Nothing)

(* Kimi's strip_block: from the opening comment to the closing one, or to  *)
(* the end.                                                                *)
Outside(lines) ==
  [i \in DOMAIN lines |->
     \A b \in 1..i : lines[b] = "begin" =>
        \E c \in b..(i - 1) : lines[c] = "end"]
StripBlock(lines) ==
  Chain([i \in DOMAIN lines |-> IF Outside(lines)[i] THEN <<lines[i]>> ELSE <<>>])
ConfigWithBlock(lines) == StripBlock(lines) \o <<"begin", release, "end">>

-----------------------------------------------------------------------------
(* An install.  A file that cannot be read or parsed ends it before it     *)
(* wrote anything, and so does an event whose value is not an array: in    *)
(* all but Claude's installer, which writes the wrapper first.             *)

Starts(next, conf) ==
  /\ step' = next
  /\ root' = conf
  /\ seen' = [events |-> events, text |-> IF readable THEN text ELSE <<>>]
  /\ UNCHANGED <<agent, release, readable, events, text, feature, wrapper>>

(* The process goes on to its next step, or it ends and its memory goes.   *)
Goes(next) ==
  /\ step' = next
  /\ root' = IF next = "idle" THEN Nothing ELSE root
  /\ seen' = IF next = "idle" THEN [events |-> Nothing, text |-> <<>>] ELSE seen

InstallClaude ==
  /\ step = "idle" /\ agent = "claude" /\ readable
  /\ Starts("wrapper", Prune(events))

InstallCodex ==
  /\ step = "idle" /\ agent = "codex" /\ readable /\ feature # "bad"
  /\ CanAppend(Prune(events))
  /\ Starts("wrapper", AppendHooks(Prune(events)))

InstallQoder ==
  /\ step = "idle" /\ agent = "qodercli" /\ readable
  /\ CanAppend(Prune(events))
  /\ Starts("wrapper", AppendHooks(Prune(events)))

InstallCursor ==
  /\ step = "idle" /\ agent = "cursor" /\ readable
  /\ CanAppend(Prune(events))
  /\ Starts("wrapper", AppendHooks(Prune(events)))

(* Kimi's installer takes a file it cannot read for an empty one.          *)
InstallKimi ==
  /\ step = "idle" /\ agent = "kimi"
  /\ Starts("wrapper", root)

InstallCopilot ==
  /\ step = "idle" /\ agent = "copilot" /\ readable
  /\ Starts("wrapper", Generated)

InstallPlugin ==
  /\ step = "idle" /\ agent \in {"opencode", "pi"}
  /\ Starts("wrapper", root)

(* The step that follows the write of the wrapper.  A plugin file is all   *)
(* there is to write, and Kimi's lines are not written when they are as    *)
(* they should be.                                                         *)
AfterWrapper ==
  CASE agent = "claude" -> "entries"
    [] agent \in {"opencode", "pi"} -> "idle"
    [] agent = "kimi" /\ ConfigWithBlock(seen.text) = seen.text -> "idle"
    [] OTHER -> "config"

(* The result of the write is not looked at.                               *)
WriteWrapperUnchecked ==
  /\ step = "wrapper"
  /\ wrapper' \in {wrapper, release}
  /\ \E next \in {AfterWrapper, "idle"} : Goes(next)
  /\ UNCHANGED <<agent, release, readable, events, text, feature>>

(* write_managed_hook; its last act, the sync of the directory, may fail   *)
(* with the file in place.                                                 *)
WriteWrapper ==
  /\ step = "wrapper"
  /\ wrapper' = release
  /\ \E next \in {AfterWrapper, "idle"} : Goes(next)
  /\ UNCHANGED <<agent, release, readable, events, text, feature>>

(* Claude's loop over CLAUDE_HOOK_EVENTS, after the wrapper.               *)
AppendClaudeEntries ==
  /\ step = "entries"
  /\ \/ /\ CanAppend(root)
        /\ step' = "config"
        /\ root' = AppendHooks(root)
        /\ UNCHANGED seen
     \/ ~CanAppend(root) /\ Goes("idle")
  /\ UNCHANGED <<agent, release, readable, events, text, feature, wrapper>>

(* write_json_config, or write_config_text of Kimi's lines.                *)
WriteConfig ==
  /\ step = "config"
  /\ IF agent = "kimi"
     THEN /\ text' = ConfigWithBlock(seen.text)
          /\ UNCHANGED events
     ELSE events' = root /\ UNCHANGED text
  /\ readable' = TRUE
  /\ \E next \in {IF agent = "codex" THEN "feature" ELSE "idle", "idle"} :
       Goes(next)
  /\ UNCHANGED <<agent, release, feature, wrapper>>

(* Codex's config.toml, with the table the install parsed when it began.   *)
WriteFeature ==
  /\ step = "feature"
  /\ feature' = "on"
  /\ Goes("idle")
  /\ UNCHANGED <<agent, release, readable, events, text, wrapper>>

(* A create, write, sync or rename fails, or the process is killed: the    *)
(* file that was being replaced is as it was.                              *)
Stop ==
  /\ step # "idle"
  /\ Goes("idle")
  /\ UNCHANGED <<agent, release, readable, events, text, feature, wrapper>>

-----------------------------------------------------------------------------
(* The user, who adds and removes, but does not write lumux's commands.    *)

EditHooks(e) ==
  /\ agent \in Merged
  /\ \E entry \in Entries :
       /\ OursIn(entry) <= OursIn(events[e])
       /\ agent = "cursor" => Flat(entry)
       /\ events' = [events EXCEPT ![e] = entry]
  /\ UNCHANGED <<agent, release, readable, text, feature, wrapper, step, root,
                 seen>>

EditText ==
  /\ agent = "kimi"
  /\ \E lines \in Texts :
       /\ \A i \in DOMAIN lines : lines[i] \in Releases =>
            \E j \in DOMAIN text : text[j] = lines[i]
       /\ text' = lines
  /\ UNCHANGED <<agent, release, readable, events, feature, wrapper, step,
                 root, seen>>

Repair ==
  /\ readable' = TRUE
  /\ feature' = IF feature = "bad" THEN "off" ELSE feature
  /\ UNCHANGED <<agent, release, events, text, wrapper, step, root, seen>>

Upgrade ==
  /\ step = "idle" /\ release = "old"
  /\ release' = "new"
  /\ UNCHANGED <<agent, readable, events, text, feature, wrapper, step, root,
                 seen>>

InstallNext ==
  \/ InstallClaude \/ InstallCodex \/ InstallQoder \/ InstallCursor
  \/ InstallKimi \/ InstallCopilot \/ InstallPlugin
  \/ WriteWrapper \/ AppendClaudeEntries \/ WriteConfig \/ WriteFeature \/ Stop
  \/ (\E e \in Events : EditHooks(e)) \/ EditText \/ Repair \/ Upgrade

InstallSpec == InstallInit /\ [][InstallNext]_installVars

-----------------------------------------------------------------------------
(* A hook entry of lumux's, of whichever release, names a script that      *)
(* exists: no failure, kill or half-finished install leaves the agent      *)
(* running a hook whose wrapper was never written.                         *)
HooksHaveWrapper ==
  (\E e \in Events : OursIn(events[e]) > 0) \/ HookLines(text) > 0
    => wrapper # "missing"

(* The items of a user's entry: his commands in order, and the groups he   *)
(* left empty, those that lumux's own commands do not account for.         *)
UserItems(e) ==
  Chain([i \in DOMAIN e.groups |->
    IF e.groups[i] = <<>> THEN <<"empty">> ELSE Kept(e.groups[i], {"user"})])

(* Every opening comment is closed before the user's next line.            *)
Intact(lines) ==
  \A b, i \in DOMAIN lines : lines[b] = "begin" /\ lines[i] = "user" /\ b < i
    => \E c \in b..i : lines[c] = "end"

(* An install that replaces the user's configuration leaves in it every    *)
(* item of his that it read, in the order he had them, under every event;  *)
(* and of its own exactly one hook for each event this release maps and    *)
(* none for those it no longer maps, whatever earlier installs, releases,  *)
(* failures and edits left there.  So with Kimi's lines, whose one block   *)
(* is then of this release; but an opening comment that the user left      *)
(* without its closing one takes his lines after it along.                 *)
InstallOwnsOnlyItsHooks ==
  [][ step = "config" /\ step' # step /\ <<events, text>>' # <<events, text>>
      => /\ agent \in Merged => \A e \in Events :
              /\ UserItems(events'[e]) = UserItems(seen.events[e])
              /\ events'[e].array = seen.events[e].array
         /\ agent # "kimi" => \A e \in Events :
              OursIn(events'[e]) = IF e \in Mapped THEN 1 ELSE 0
         /\ agent = "kimi" =>
              /\ HookLines(text') = 1 /\ \E i \in DOMAIN text' : text'[i] = release
              /\ Intact(seen.text) => Kept(text', {"user"}) = Kept(seen.text, {"user"})
    ]_installVars

=============================================================================
