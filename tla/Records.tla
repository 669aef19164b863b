--------------------------------- MODULE Records ---------------------------------
(* Texts and records of the read model: readmodel/model.py, and the files of *)
(* curated knowledge as readmodel/projection_support.py loads them.          *)
(*                                                                           *)
(* A word is an integer and its capitalised spelling the negative one, which *)
(* comes before it as a capital letter does; a text is a sequence of words.  *)
(* The kinds of records, and the punctuation and tags of titles and aliases, *)
(* are the first integers; the words of the world come after them.           *)
EXTENDS SequencesExt, FiniteSets, Integers

Kinds == << "action", "city", "company", "endpoint", "form", "operation", "product", "unit",
            "wiki_topic" >>

KindNumber(kind) == CHOOSE k \in DOMAIN Kinds : Kinds[k] = kind

Slash == 11
KnownEndpoint == 12
NewEndpoint == 13
ErrorSurface == 14
Post == 15
Tag(kind) == 20 + KindNumber(kind)

Lower(word) == IF word < 0 THEN -word ELSE word
Normal(text) == [i \in DOMAIN text |-> Lower(text[i])]
Tokens(text) == {Lower(w) : w \in Range(text)} \ {Slash}

(* Words that are none but punctuation, finite sets of them, and sources: a  *)
(* file and a place in it.                                                   *)
Word == {w \in Int : Lower(w) # Slash}
Words == {W \in SUBSET Word : IsFiniteSet(W)}
Source == Int \X Int

(* The order of texts, of refs and of pairs of keys.                         *)
Before(s, t) ==
  \E n \in 0 .. Len(s) :
    /\ n < Len(t)
    /\ SubSeq(s, 1, n) = SubSeq(t, 1, n)
    /\ n = Len(s) \/ s[n + 1] < t[n + 1]

Ordered(S, Less(_, _)) ==
  [i \in 1 .. Cardinality(S) |->
     CHOOSE x \in S : Cardinality({y \in S : Less(y, x)}) = i - 1]

(* dict.fromkeys: what comes again is left out.                              *)
Unrepeated(s) == FoldLeft(LAMBDA t, x : IF x \in Range(t) THEN t ELSE Append(t, x), <<>>, s)

(* Spellings that normalise alike are one alias, spelt as the first.         *)
Aliases(raw) ==
  LET keys == Ordered({Normal(raw[i]) : i \in DOMAIN raw}, Before)
  IN [k \in DOMAIN keys |-> raw[SelectInSeq(raw, LAMBDA a : Normal(a) = keys[k])]]

(* Refs start with their kind.                                               *)
HasKind(ref, kind) == ref[1] = KindNumber(kind)

Record(ref, kind, title, aliases, body, evidence) ==
  [ref |-> ref, kind |-> kind, title |-> title, aliases |-> Aliases(aliases), body |-> body,
   evidence |-> Unrepeated(evidence)]

-----------------------------------------------------------------------------
(* A data set is an index and the parts it names: files of the functions     *)
(* below are named <<data set, number>>, the index has number 0.             *)

CONSTANT Missing    \* the content of a file that is not there

PartEntry == [file : Nat \ {0}, offset : Int, count : Int]

Present(files, dataset) == files[<<dataset, 0>>] # Missing

IndexOf(files, dataset) == files[<<dataset, 0>>]

PartNames(files, dataset) ==
  LET parts == IndexOf(files, dataset).parts
  IN [i \in DOMAIN parts |-> <<dataset, parts[i].file>>]

CountBefore(parts, n) == FoldLeft(LAMBDA sum, p : sum + p.count, 0, SubSeq(parts, 1, n - 1))

HasOffsets(parts) == \A i \in DOMAIN parts : parts[i].offset = CountBefore(parts, i)

PartsDiffer(files, dataset) == IsInjective(PartNames(files, dataset))

AllPresent(files, dataset) ==
  \A name \in Range(PartNames(files, dataset)) : files[name] # Missing

CountsAgree(files, dataset) ==
  LET parts == IndexOf(files, dataset).parts
  IN /\ \A i \in DOMAIN parts :
          Len(files[PartNames(files, dataset)[i]].items) = parts[i].count
     /\ IndexOf(files, dataset).total = CountBefore(parts, Len(parts) + 1)

(* Parts of products and of their attributes repeat what the index says.     *)
HeadersAgree(files, dataset) ==
  LET parts == IndexOf(files, dataset).parts
  IN \A i \in DOMAIN parts :
       LET part == files[PartNames(files, dataset)[i]]
       IN part.part = i - 1 /\ part.offset = parts[i].offset

Items(files, dataset) ==
  FlattenSeq([i \in DOMAIN PartNames(files, dataset) |->
                files[PartNames(files, dataset)[i]].items])

Whole(files, dataset) ==
  /\ Present(files, dataset)
  /\ AllPresent(files, dataset)
  /\ CountsAgree(files, dataset)

Keyed(items, Key(_)) == \A i, j \in DOMAIN items : Key(items[i]) = Key(items[j]) => i = j

=============================================================================
