--------------------------------- MODULE Paths ---------------------------------
(* Names and places as the change detector compares them:                    *)
(* changes/normalization.py.  A path is a sequence of segments; a pattern is *)
(* a path some of whose segments are placeholders.  What the redaction       *)
(* policy and the rewriting of indexes make of a key is the constant         *)
(* NormalKey: a set with the normal form, or empty if the key is dropped.    *)
(* The path "/" is <<"">>, "//x" is <<"", "x">>, and a text without a slash  *)
(* at its start is <<>>.  Methods are in upper case.                         *)
EXTENDS Naturals, Sequences, FiniteSets, Functions

CONSTANTS
  Placeholders,
  Unclean,     \* segments with a question mark, a hash sign or a control character
  Garbled,     \* methods that are no tokens of HTTP
  NormalKey

KeySet(keys) == UNION {NormalKey[k] : k \in keys}

(* normalize_method and normalize_origin_relative_path, which refuse.        *)
IsMethod(method) == method \notin Garbled

IsPathname(path) ==
  /\ path # <<>>
  /\ Len(path) > 1 => path[1] # ""
  /\ \A i \in DOMAIN path : path[i] \notin Unclean

-----------------------------------------------------------------------------
(* PathMatcher.                                                              *)

Literals(pattern) == {i \in DOMAIN pattern : pattern[i] \notin Placeholders}

IsTemplate(pattern) == Literals(pattern) # DOMAIN pattern

Fits(pattern, path) ==
  /\ Len(pattern) = Len(path)
  /\ \A i \in DOMAIN path : pattern[i] = path[i] \/ (i \notin Literals(pattern) /\ path[i] # "")

(* What a path is matched with: the literal pattern it equals, else the      *)
(* templates with most literals; more than one is an ambiguity.              *)
Best(patterns, path) ==
  LET fitting == {p \in patterns : IsTemplate(p) /\ Fits(p, path)}
  IN IF path \in patterns /\ ~IsTemplate(path) THEN {path}
     ELSE {p \in fitting : \A q \in fitting :
             Cardinality(Literals(p)) >= Cardinality(Literals(q))}

Ambiguous(patterns, path) == Cardinality(Best(patterns, path)) > 1

Unique(patterns, path) == Cardinality(Best(patterns, path)) = 1

Canonical(patterns, path) ==
  IF Best(patterns, path) = {} THEN path ELSE CHOOSE p \in Best(patterns, path) : TRUE

=============================================================================
