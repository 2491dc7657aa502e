----------------------------- MODULE ConfigFile -----------------------------
(***************************************************************************)
(* Loading the configuration: the defaults, the YAML file over them, the   *)
(* environment over both.  A setting is a path of lowercased names; the    *)
(* file may write one path in several ways (letter case, or flat beside a  *)
(* section), and Go visits the entries of a YAML map in any order.         *)
(*                                                                         *)
(* koanf's merge is external: a leaf replaces what was at its path, below  *)
(* it and on the way to it.                                                *)
(***************************************************************************)
EXTENDS Integers, SequencesExt

CONSTANTS Path,       \* sequences of names
          Spelling,   \* ways to write a path
          Default,    \* the paths with a default value
          Null,       \* the YAML null
          MaxLeaves   \* bound on the entries of the file

ASSUME ConfigFileAssumption == Default \subseteq Path /\ MaxLeaves \in Nat

VARIABLES file,      \* the leaves of the YAML document
          env,       \* the paths set in the environment
          todo,      \* the leaves that flattenConfig has still to visit
          flat,      \* the paths collected so far
          spelled,   \* the paths met so far
          status,    \* "flatten", "merge", "loaded" or "error"
          conf       \* the merged paths, with the layer each came from

fileVars == <<file, env, todo, flat, spelled, status, conf>>

Leaf == [path : Path, spelling : Spelling, value : {"set", Null}]

\* One of the paths is the other, or a section on the way to it.
Overlap(p, q) == IsPrefix(p, q) \/ IsPrefix(q, p)

\* A YAML document writes an entry once.
Document(S) == /\ Cardinality(S) <= MaxLeaves
               /\ \A l, m \in S : l.path = m.path /\ l.spelling = m.spelling => l = m

\* The environment sets no section beside one of its settings.
Environment(S) == \A p, q \in S : Overlap(p, q) => p = q

FileInit == /\ file \in {S \in SUBSET Leaf : Document(S)}
            /\ env \in {S \in SUBSET Path : Environment(S)}
            /\ todo = file
            /\ flat = {}
            /\ spelled = {}
            /\ status = "flatten"
            /\ conf = {}

-----------------------------------------------------------------------------

\* Mutants: duplicates are looked up among the values; nulls are kept.
VisitFlat(l) ==
  /\ status = "flatten" /\ l \in todo
  /\ todo' = todo \ {l}
  /\ \/ /\ l.path \in flat
        /\ status' = "error"
        /\ UNCHANGED <<flat, spelled>>
     \/ /\ l.path \notin flat
        /\ flat' = IF l.value = Null THEN flat ELSE flat \cup {l.path}
        /\ UNCHANGED <<spelled, status>>
  /\ UNCHANGED <<file, env, conf>>
VisitNulls(l) ==
  /\ status = "flatten" /\ l \in todo
  /\ todo' = todo \ {l}
  /\ \/ /\ l.path \in spelled
        /\ status' = "error"
        /\ UNCHANGED <<flat, spelled>>
     \/ /\ l.path \notin spelled
        /\ spelled' = spelled \cup {l.path}
        /\ flat' = flat \cup {l.path}
        /\ UNCHANGED status
  /\ UNCHANGED <<file, env, conf>>

\* flattenConfig comes to a leaf: a path met before is a duplicate key, and a
\* null is dropped, but it was met.
Visit(l) ==
  /\ status = "flatten" /\ l \in todo
  /\ todo' = todo \ {l}
  /\ \/ /\ l.path \in spelled
        /\ status' = "error"
        /\ UNCHANGED <<flat, spelled>>
     \/ /\ l.path \notin spelled
        /\ spelled' = spelled \cup {l.path}
        /\ flat' = IF l.value = Null THEN flat ELSE flat \cup {l.path}
        /\ UNCHANGED status
  /\ UNCHANGED <<file, env, conf>>

\* loadConfigFile: a key that is also a section is an error.
Collide ==
  /\ status = "flatten" /\ todo = {}
  /\ status' = IF \E p, q \in flat : p # q /\ IsPrefix(p, q) THEN "error" ELSE "merge"
  /\ UNCHANGED <<file, env, todo, flat, spelled, conf>>

\* koanf: Load of a layer.
Layer(c, paths, name) ==
  {e \in c : \A p \in paths : ~Overlap(p, e.path)} \cup {[path |-> p, from |-> name] : p \in paths}

\* loadConfig: defaults, file, environment.
Merge ==
  /\ status = "merge"
  /\ conf' = Layer(Layer(Layer({}, Default, "default"), flat, "file"), env, "env")
  /\ status' = "loaded"
  /\ UNCHANGED <<file, env, todo, flat, spelled>>

FileNext == (\E l \in Leaf : Visit(l)) \/ Collide \/ Merge

FileSpec == FileInit /\ [][FileNext]_fileVars

-----------------------------------------------------------------------------

\* The file says two things about one setting.
Ambiguous == \/ \E l, m \in file : l # m /\ l.path = m.path
             \/ \E l, m \in file : /\ l.value # Null /\ m.value # Null
                                   /\ l.path # m.path /\ IsPrefix(l.path, m.path)

\* Whether a file is accepted does not depend on the order in which Go visits
\* its maps: exactly the ambiguous ones are refused (loadConfigFile: "two
\* spellings of one key ... are an error, and so is a key that is also a section").
OrderDoesNotMatter == /\ status = "error" => Ambiguous
                      /\ status \in {"merge", "loaded"} => ~Ambiguous

\* A default is lost only to a value that the file or the environment gives: "a
\* null or an empty section is dropped: merged as is, it would replace the whole
\* default subtree beneath it".
DefaultsSurvive ==
  status = "loaded" =>
    \A p \in Default : \/ [path |-> p, from |-> "default"] \in conf
                       \/ \E q \in env : Overlap(q, p)
                       \/ \E l \in file : l.value # Null /\ Overlap(l.path, p)
=============================================================================
