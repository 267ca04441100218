------------------------------ MODULE Selectors ------------------------------
(***************************************************************************)
(* What a command is about: the selector, its algebra, and how the flags   *)
(* of find, sync, status and list become one (src/src/selector.rs,         *)
(* app/selectors.rs, and the path rules of config.rs).                     *)
(*                                                                         *)
(* A path is the sequence of its components and a date an integer.  A text *)
(* a user wrote is [pad, is]: what it says, and whether blanks surround    *)
(* it; Blank and BadDate are texts that say nothing and no date.           *)
(***************************************************************************)
EXTENDS Integers, Sequences, SequencesExt, FiniteSets

CONSTANTS
  None,
  Sources,        \* the sources; the command line also knows AllSources
  DefaultSource,
  AllSources,     \* the word "all" of --source
  Unknown,        \* a source name nothing supports
  Refused,        \* an error, whatever it says
  Blank, BadDate,
  Dot, DotDot,    \* the components "." and ".."
  NotUtf8,        \* components that are not valid UTF-8
  DefaultRoots    \* [Sources -> paths]

ASSUME SelectorConstants ==
  /\ DefaultSource \in Sources
  /\ {None, AllSources, Unknown} \cap Sources = {}

-----------------------------------------------------------------------------
(* Paths are resolved without looking at the file system.                  *)

Utf8(path) == \A i \in DOMAIN path : path[i] \notin NotUtf8

PopOrPush(out, part) ==
  IF part = Dot THEN out
  ELSE IF part # DotDot THEN Append(out, part)
  ELSE IF out = <<>> THEN out ELSE Front(out)

(* text.absolute says whether it starts at the root.                       *)
ResolveLexical(text, cwd) ==
  FoldLeft(PopOrPush, <<>>, IF text.absolute THEN text.parts ELSE cwd \o text.parts)

ResolveSourceRoot(source, override, cwd) ==
  IF override = None THEN DefaultRoots[source] ELSE ResolveLexical(override, cwd)

-----------------------------------------------------------------------------
(* Selectors.                                                              *)

Kinds == {"all", "date_range", "cwd", "cwd_date_range"}

IsDated(s)  == s.kind \in {"date_range", "cwd_date_range"}
IsForCwd(s) == s.kind \in {"cwd", "cwd_date_range"}

(* The fields a kind does not have are None.                               *)
Select(kind, source, root, cwd, from, to) ==
  [kind |-> kind, source |-> source, root |-> root, cwd |-> cwd, from |-> from, to |-> to]

All(source, root) == Select("all", source, root, None, None, None)

(* The text a stored proof is filed under: the fields of the kind in order.*)
StorageKey(s) ==
  <<s.kind, s.source, s.root>>
    \o (IF IsForCwd(s) THEN <<s.cwd>> ELSE <<>>)
    \o (IF IsDated(s) THEN <<s.from, s.to>> ELSE <<>>)

(* Mutant: a range that reaches into another is taken to contain it.       *)
OverlapsDateRange(c, r) == c.from <= r.to /\ c.to >= r.from

ContainsDateRange(c, r) == c.from <= r.from /\ c.to >= r.to

SelectorImplies(c, r) ==
  /\ c.source = r.source
  /\ c.root = r.root
  /\ IsDated(c) => IsDated(r) /\ ContainsDateRange(c, r)
  /\ IsForCwd(c) => IsForCwd(r) /\ c.cwd = r.cwd

DateInRange(date, s) == date >= s.from /\ date <= s.to

(* file.date is None for a path that carries no date.                      *)
ContainsFile(s, file) ==
  /\ IsForCwd(s) => file.cwd = s.cwd
  /\ IsDated(s) => file.date # None /\ DateInRange(file.date, s)

(* The files a scan for s returns: those under its root that it contains.  *)
InScope(s, file) ==
  /\ file.source = s.source
  /\ IsPrefix(s.root, file.path)
  /\ ContainsFile(s, file)

-----------------------------------------------------------------------------
(* A selector as it was written, in JSON.                                  *)

IsError(x) == x = Refused

Missing(text) == text = None \/ text.is = Blank

DateValid(text) == ~Missing(text) /\ text.is # BadDate

DatesValid(raw) == DateValid(raw.from) /\ DateValid(raw.to) /\ raw.from.is <= raw.to.is

RootValid(root, cwd) == ~Missing(root) /\ Utf8(ResolveLexical(root.is, cwd))

Or(value, default) == IF value = None THEN default ELSE value

Canonicalize(raw, default, cwd) ==
  LET root == Or(raw.root, default.root) IN
  IF /\ IsDated(raw) => DatesValid(raw)
     /\ RootValid(root, cwd)
     /\ IsForCwd(raw) => ~Missing(raw.cwd)
  THEN Select(raw.kind, Or(raw.source, Or(default.source, DefaultSource)),
              ResolveLexical(root.is, cwd),
              IF IsForCwd(raw) THEN raw.cwd.is ELSE None,
              IF IsDated(raw) THEN raw.from.is ELSE None,
              IF IsDated(raw) THEN raw.to.is ELSE None)
  ELSE Refused

ParseSelector(raw, default, cwd) ==
  IF raw = Blank \/ raw.kind \notin Kinds \/ raw.source = Unknown THEN Refused
  ELSE Canonicalize(raw, default, cwd)

-----------------------------------------------------------------------------
(* The flags of a command: source, selector (JSON), root, cwd; None where  *)
(* absent.  env is the directory the command runs in.                      *)

ParseSource(text) == IF text.is \in Sources THEN text.is ELSE Refused

SourceOf(args) ==
  IF args.source = None THEN DefaultSource ELSE ParseSource(args.source)

AllSelector(source, root, env) ==
  LET path == ResolveSourceRoot(source, root, env) IN
  IF Utf8(path) THEN All(source, path) ELSE Refused

(* rootOnly: --root alone is a scope of its own.                           *)
OptionalSelector(args, source, env, rootOnly) ==
  LET root == ResolveSourceRoot(source, args.root, env)
      parsed == ParseSelector(args.selector,
                  [root |-> [pad |-> FALSE, is |-> [absolute |-> TRUE, parts |-> root]],
                   source |-> source], env)
  IN IF args.selector # None /\ args.cwd # None THEN Refused
     ELSE IF ~Utf8(root) THEN Refused
     ELSE IF args.selector # None
       THEN IF IsError(parsed) \/ parsed.source = source THEN parsed
            ELSE Refused
     ELSE IF args.cwd # None
       THEN IF Utf8(<<args.cwd>>) THEN Select("cwd", source, root, args.cwd, None, None)
            ELSE Refused
     ELSE IF rootOnly /\ args.root # None THEN All(source, root)
     ELSE None

SyncSelector(args, env) ==
  LET source == SourceOf(args)
      scope == OptionalSelector(args, source, env, TRUE)
  IN IF IsError(source) THEN source
     ELSE IF scope = None THEN AllSelector(source, None, env) ELSE scope

StatusSelector(args, source, env) == OptionalSelector(args, source, env, FALSE)

(* list has a --cwd of its own, which is no scope.                         *)
ListSelector(args, source, env) ==
  OptionalSelector([args EXCEPT !.cwd = None], source, env, TRUE)

SelectorSourceHint(raw) ==
  IF raw = None THEN None
  ELSE IF raw = Blank \/ raw.source = Unknown THEN Refused
  ELSE raw.source

(* The sources a find searches: the one named, the selector's, or all.     *)
FindSources(args) ==
  LET hint == SelectorSourceHint(args.selector) IN
  IF args.source # None /\ args.source.is # AllSources
  THEN LET named == ParseSource(args.source) IN
       IF IsError(named) THEN named ELSE {named}
  ELSE IF IsError(hint) THEN hint
  ELSE IF hint # None THEN {hint} ELSE Sources

(* Recall, coverage and count of a find all use this selector.             *)
FindScope(args, source, env) ==
  LET scope == OptionalSelector(args, source, env, TRUE) IN
  IF scope = None THEN AllSelector(source, None, env) ELSE scope

HasExplicitScope(args) ==
  args.selector # None \/ args.cwd # None \/ args.root # None

(* Mutant: the proposal is for the source of a bare command.               *)
BootstrapDefaultSource(args, env) ==
  LET source == SourceOf(args)
      scope == OptionalSelector(args, source, env, TRUE)
  IN IF IsError(source) THEN source
     ELSE IF IsError(scope) THEN scope
     ELSE {IF scope = None THEN AllSelector(source, args.root, env) ELSE scope}

(* What a find proposes to sync when there is no index; None says nothing. *)
BootstrapSelectors(args, env) ==
  LET sources == FindSources(args)
      Proposed(s) ==
        LET scope == OptionalSelector(args, s, env, TRUE) IN
        IF scope = None THEN AllSelector(s, args.root, env) ELSE scope
      bad == {s \in sources : IsError(Proposed(s))}
  IN IF IsError(sources) THEN sources
     ELSE IF Cardinality(sources) # 1 /\ ~HasExplicitScope(args) THEN None
     ELSE IF bad # {} THEN Proposed(CHOOSE s \in bad : TRUE)
     ELSE {Proposed(s) : s \in sources}

(* The source a session is read from: its qualifier, --source, or Codex.   *)
ReadSource(qualifier, option) ==
  LET explicit == ParseSource(option) IN
  IF option = None THEN Or(qualifier, DefaultSource)
  ELSE IF IsError(explicit) THEN explicit
  ELSE IF qualifier # None /\ qualifier # explicit THEN Refused
  ELSE explicit

=============================================================================
