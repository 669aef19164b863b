-------------------------------- MODULE Catalogue --------------------------------
(* Actions, products and entities of curated knowledge as records of the     *)
(* read model: readmodel/knowledge.py.  The code checks the fields of each   *)
(* item one by one for their types: the types are stated, and taken to hold. *)
EXTENDS Records

Numbers(S) == Ordered(S, LAMBDA x, y : x < y)

-----------------------------------------------------------------------------
ActionItem ==
  [id : Seq(Int), method : Int, route : Seq(Word), fields : Words, query : Words,
   evidence : Seq(Source), observed : BOOLEAN]

ActionsAccepted(files) ==
  LET catalog == files[<<"actions", 0>>]
  IN /\ catalog # Missing
     /\ catalog.count = Len(catalog.items)
     /\ \A i \in DOMAIN catalog.items :
          catalog.items[i].observed /\ HasKind(catalog.items[i].id, "action")

LastTwo(route) == SubSeq(route, IF Len(route) > 2 THEN Len(route) - 1 ELSE 1, Len(route))

ActionRecord(item) ==
  LET path == <<Slash>> \o item.route
      title == <<item.method>> \o path
  IN Record(item.id, "action", title, <<path, title, item.route, LastTwo(item.route)>>,
            title \o item.route \o Numbers(item.query) \o Numbers(item.fields), item.evidence)

ActionRecords(files) ==
  LET items == files[<<"actions", 0>>].items IN [i \in DOMAIN items |-> ActionRecord(items[i])]

-----------------------------------------------------------------------------
(* Two optional data sets enrich products with terms and evidence.           *)

ProductItem ==
  [id : Seq(Int), slug : Seq(Word), name : Seq(Word), numbers : Seq(Int), categories : Seq(Word),
   evidence : Seq(Source)]

CategoryItem ==
  [id : Int, name : Word, products : SUBSET Seq(Int), documented : BOOLEAN, evidence : Seq(Source)]

AttributeItem ==
  [product : Seq(Int), terms : Seq(Word), documented : BOOLEAN, evidence : Seq(Source)]

CategoriesAccepted(files) ==
  Present(files, "categories") =>
    LET items == Items(files, "categories")
    IN /\ Whole(files, "categories")
       /\ HasOffsets(IndexOf(files, "categories").parts)
       /\ Keyed(items, LAMBDA c : c.id)
       /\ \A i \in DOMAIN items : items[i].documented /\ items[i].evidence # <<>>

AttributesAccepted(files) ==
  Present(files, "attributes") =>
    LET items == Items(files, "attributes")
    IN /\ Whole(files, "attributes")
       /\ HasOffsets(IndexOf(files, "attributes").parts)
       /\ PartsDiffer(files, "attributes")
       /\ HeadersAgree(files, "attributes")
       /\ Keyed(items, LAMBDA a : a.product)
       /\ \A i \in DOMAIN items : items[i].documented /\ items[i].evidence # <<>>

Gather(items, OfItem(_)) == Unrepeated(FlattenSeq([i \in DOMAIN items |-> OfItem(items[i])]))

(* What the data sets say of one product, once each.                         *)
CategoriesOf(files, product, Said(_)) ==
  IF ~Present(files, "categories") THEN <<>>
  ELSE Gather(Items(files, "categories"),
              LAMBDA c : IF product \in c.products THEN Said(c) ELSE <<>>)

AttributesOf(files, product, Said(_)) ==
  IF ~Present(files, "attributes") THEN <<>>
  ELSE Gather(Items(files, "attributes"), LAMBDA a : IF a.product = product THEN Said(a) ELSE <<>>)

Enriched(files) ==
  (IF Present(files, "categories")
   THEN UNION {c.products : c \in Range(Items(files, "categories"))} ELSE {})
    \cup
  (IF Present(files, "attributes")
   THEN {a.product : a \in Range(Items(files, "attributes"))} ELSE {})

AllKnown(files) ==
  Enriched(files) \subseteq {item.id : item \in Range(Items(files, "products"))}

ProductsAccepted(files) ==
  /\ Whole(files, "products")
  /\ HasOffsets(IndexOf(files, "products").parts)
  /\ PartsDiffer(files, "products")
  /\ HeadersAgree(files, "products")
  /\ CategoriesAccepted(files)
  /\ AttributesAccepted(files)
  /\ \A item \in Range(Items(files, "products")) : HasKind(item.id, "product")
  /\ AllKnown(files)

ProductRecord(files, item) ==
  Record(item.id, "product", item.name,
    <<item.slug>> \o [i \in DOMAIN item.numbers |-> <<Tag("product"), item.numbers[i]>>],
    item.name \o item.slug \o item.categories
      \o CategoriesOf(files, item.id, LAMBDA c : <<c.name>>)
      \o AttributesOf(files, item.id, LAMBDA a : a.terms),
    item.evidence \o CategoriesOf(files, item.id, LAMBDA c : c.evidence)
      \o AttributesOf(files, item.id, LAMBDA a : a.evidence))

ProductRecords(files) ==
  LET items == Items(files, "products") IN [i \in DOMAIN items |-> ProductRecord(files, items[i])]

-----------------------------------------------------------------------------
EntityItem ==
  [id : Seq(Int), kind : Range(Kinds), name : Seq(Word), number : Int, subtype : Seq(Word),
   evidence : Seq(Source)]

EntitiesAccepted(files) ==
  LET entities == files[<<"entities", 0>>]
  IN /\ entities # Missing
     /\ entities.count = Len(entities.items)
     /\ \A i \in DOMAIN entities.items : HasKind(entities.items[i].id, entities.items[i].kind)

EntityRecord(item) ==
  Record(item.id, item.kind, item.name, << <<Tag(item.kind), item.number>> >>,
         item.name \o <<Tag(item.kind)>> \o item.subtype, item.evidence)

EntityRecords(files) ==
  LET items == files[<<"entities", 0>>].items IN [i \in DOMAIN items |-> EntityRecord(items[i])]

=============================================================================
