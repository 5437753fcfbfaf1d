------------------------- MODULE SimpleModuleProofs -------------------------
(***************************************************************************)
(* Proofs about the modules of lab02 and lab03 (module SimpleModule), for  *)
(* any number of users, readers, openings and insertions, and any size of  *)
(* the buffer of lab02/ex1.                                                *)
(***************************************************************************)
EXTENDS SimpleModule, FiniteSetTheorems, SequenceTheorems, TLAPS

------------------------------------------------------------------------------
(* The recipes.                                                            *)

\* What lists of up to five resources contain.
LEMMA Tuples ==
    /\ Range(<<>>) = {}
    /\ \A a : Range(<<a>>) = {a}
    /\ \A a, b : Range(<<a, b>>) = {a, b}
    /\ \A a, b, c : Range(<<a, b, c>>) = {a, b, c}
    /\ \A a, b, c, d, e : Range(<<a, b, c, d, e>>) = {a, b, c, d, e}
<1>. USE DEF Range
<1>1. Range(<<>>) = {} /\ \A a : Range(<<a>>) = {a}
  OBVIOUS
<1>2. \A a, b : Range(<<a, b>>) = {a, b}
  OBVIOUS
<1>3. \A a, b, c : Range(<<a, b, c>>) = {a, b, c}
  OBVIOUS
<1>4. \A a, b, c, d, e : Range(<<a, b, c, d, e>>) = {a, b, c, d, e}
  OBVIOUS
<1>. QED
  BY <1>1, <1>2, <1>3, <1>4

\* What a recipe releases when its i-th acquisition fails: all that has been
\* acquired before, and the /proc file but for the exceptions.
Undone(R, i) ==
    /\ R.undo[R.acquires[i]] \in Seq(Resources)
    /\ \A j \in 1 .. i - 1 : R.acquires[j] \in Range(R.undo[R.acquires[i]])
    /\ "proc" \in Range(R.undo[R.acquires[i]]) \/ R.acquires[i] = "chrdev" \/ R \in lab03

\* The exit function releases all, too.
Exits(R) ==
    /\ R.exit \in Seq(Resources)
    /\ Range(R.acquires) \subseteq Range(R.exit)
    /\ "proc" \in Range(R.exit) \/ R \in lab03
    /\ "exits" \in R.traits => "proc" \notin Range(R.exit)

\* What the proofs use of a recipe.
Complete(R) ==
    /\ R.acquires \in Seq(Resources \ {"proc"})
    /\ \A i \in 1 .. Len(R.acquires) : Undone(R, i)
    /\ Exits(R)

\* A device and nothing else.
LEMMA OneResource ==
    ASSUME NEW R, R.acquires = <<"chrdev">>, R.undo["chrdev"] \in Seq(Resources), Exits(R)
    PROVE  Complete(R)
<1>1. Len(R.acquires) = 1 /\ R.acquires[1] = "chrdev" /\ R.acquires \in Seq(Resources \ {"proc"})
  BY DEF Resources
<1>2. \A i \in 1 .. 1 : i = 1 /\ 1 .. i - 1 = {}
  OBVIOUS
<1>. QED
  BY <1>1, <1>2 DEF Complete, Undone

\* A device and a buffer.
LEMMA TwoResources ==
    ASSUME NEW R, R.acquires = <<"chrdev", "mybuf">>, R.undo["chrdev"] = <<>>,
           R.undo["mybuf"] \in Seq(Resources), "chrdev" \in Range(R.undo["mybuf"]),
           "proc" \in Range(R.undo["mybuf"]) \/ R \in lab03, Exits(R)
    PROVE  Complete(R)
<1>1. Len(R.acquires) = 2 /\ R.acquires[1] = "chrdev" /\ R.acquires[2] = "mybuf"
      /\ R.acquires \in Seq(Resources \ {"proc"}) /\ <<>> \in Seq(Resources)
  BY DEF Resources
<1>2. Undone(R, 1)
  <2>1. \A j \in 1 .. 1 - 1 : FALSE
    OBVIOUS
  <2>. QED
    BY <1>1, <2>1 DEF Undone
<1>3. Undone(R, 2)
  <2>1. \A j \in 1 .. 2 - 1 : j = 1
    OBVIOUS
  <2>. QED
    BY <1>1, <2>1 DEF Undone
<1>4. \A i \in 1 .. 2 : i = 1 \/ i = 2
  OBVIOUS
<1>. QED
  BY <1>1, <1>2, <1>3, <1>4 DEF Complete

\* The recipes that have only a device,
LEMMA DeviceRecipes ==
    Complete(lab02_ex2) /\ Complete(lab02_ex3) /\ Complete(lab02_ex4) /\ Complete(lab03_zad1)
<1>1. ASSUME NEW R \in {lab02_ex2, lab02_ex3, lab02_ex4} PROVE Complete(R)
  <2>1. /\ R.acquires = <<"chrdev">>
        /\ R.undo["chrdev"] = <<"proc">>
        /\ R.exit = <<"chrdev", "proc">>
        /\ "exits" \notin R.traits
    BY <1>1 DEF lab02_ex2, lab02_ex3, lab02_ex4, Recipe
  <2>2. Exits(R)
    BY <2>1, Tuples DEF Exits, Resources
  <2>. QED
    BY <2>1, <2>2, OneResource DEF Resources
<1>2. Complete(lab03_zad1)
  <2>. DEFINE R == lab03_zad1
  <2>1. /\ R.acquires = <<"chrdev">>
        /\ R.undo["chrdev"] = <<>>
        /\ R.exit = <<"chrdev">>
        /\ R \in lab03
    BY DEF lab03_zad1, Recipe, lab03
  <2>. HIDE DEF R
  <2>2. Exits(R)
    BY <2>1, Tuples DEF Exits, Resources
  <2>3. R.undo["chrdev"] \in Seq(Resources)
    BY <2>1
  <2>. QED
    BY <2>1, <2>2, <2>3, OneResource DEF R
<1>. QED
  BY <1>1, <1>2

\* those that have a buffer as well,
LEMMA BufferRecipes ==
    Complete(lab02_simple_module) /\ Complete(lab02_ex1) /\ Complete(lab03_zad3)
<1>1. ASSUME NEW R \in {lab02_simple_module, lab02_ex1} PROVE Complete(R)
  <2>1. /\ R.acquires = <<"chrdev", "mybuf">>
        /\ R.undo["chrdev"] = <<>>
        /\ R.undo["mybuf"] = <<"chrdev", "proc", "mybuf">>
        /\ R.exit = <<"chrdev", "proc", "mybuf">>
        /\ "exits" \notin R.traits
    BY <1>1 DEF lab02_simple_module, lab02_ex1, Recipe
  <2>2. Exits(R)
    BY <2>1, Tuples DEF Exits, Resources
  <2>3. R.undo["mybuf"] \in Seq(Resources) /\ Range(R.undo["mybuf"]) = {"chrdev", "proc", "mybuf"}
    BY <2>1, Tuples DEF Resources
  <2>. QED
    BY <2>1, <2>2, <2>3, TwoResources
<1>2. Complete(lab03_zad3)
  <2>. DEFINE R == lab03_zad3
  <2>1. /\ R.acquires = <<"chrdev", "mybuf">>
        /\ R.undo["chrdev"] = <<>>
        /\ R.undo["mybuf"] = <<"chrdev", "mybuf">>
        /\ R.exit = <<"chrdev", "mybuf">>
        /\ R \in lab03
        /\ "exits" \notin R.traits
    BY DEF lab03_zad3, Recipe, lab03
  <2>. HIDE DEF R
  <2>2. Exits(R)
    BY <2>1, Tuples DEF Exits, Resources
  <2>3. R.undo["mybuf"] \in Seq(Resources) /\ Range(R.undo["mybuf"]) = {"chrdev", "mybuf"}
    BY <2>1, Tuples DEF Resources
  <2>. QED
    BY <2>1, <2>2, <2>3, TwoResources DEF R
<1>. QED
  BY <1>1, <1>2

\* and that of ex5.
LEMMA NodeRecipe == Complete(lab02_ex5)
<1>. DEFINE R == lab02_ex5
<1>1. /\ R.acquires = <<"chrdev", "class", "device", "mybuf">>
      /\ R.exit = <<"device", "class", "chrdev", "proc", "mybuf">>
      /\ R.undo["chrdev"] = <<>>
      /\ R.undo["class"] = <<"proc", "chrdev">>
      /\ R.undo["device"] = <<"proc", "class", "chrdev">>
      /\ R.undo["mybuf"] = R.exit
      /\ "exits" \notin R.traits
  BY DEF lab02_ex5, Recipe
<1>. HIDE DEF R
<1>2. /\ Len(R.acquires) = 4
      /\ R.acquires[1] = "chrdev" /\ R.acquires[2] = "class"
      /\ R.acquires[3] = "device" /\ R.acquires[4] = "mybuf"
  BY <1>1
<1>3. /\ R.acquires \in Seq(Resources \ {"proc"}) /\ R.exit \in Seq(Resources)
      /\ R.undo["chrdev"] \in Seq(Resources) /\ R.undo["class"] \in Seq(Resources)
      /\ R.undo["device"] \in Seq(Resources)
  BY <1>1 DEF Resources
<1>4. /\ Range(R.exit) = {"device", "class", "chrdev", "proc", "mybuf"}
      /\ Range(R.undo["class"]) = {"proc", "chrdev"}
      /\ Range(R.undo["device"]) = {"proc", "class", "chrdev"}
  BY <1>1, Tuples
<1>5. Undone(R, 1)
  <2>1. \A j \in 1 .. 1 - 1 : FALSE
    OBVIOUS
  <2>. QED
    BY <1>1, <1>2, <1>3, <2>1 DEF Undone
<1>6. Undone(R, 2)
  <2>1. \A j \in 1 .. 2 - 1 : j = 1
    OBVIOUS
  <2>. QED
    BY <1>1, <1>2, <1>3, <1>4, <2>1 DEF Undone
<1>7. Undone(R, 3)
  <2>1. \A j \in 1 .. 3 - 1 : j = 1 \/ j = 2
    OBVIOUS
  <2>. QED
    BY <1>1, <1>2, <1>3, <1>4, <2>1 DEF Undone
<1>8. Undone(R, 4)
  <2>1. \A j \in 1 .. 4 - 1 : j = 1 \/ j = 2 \/ j = 3
    OBVIOUS
  <2>. QED
    BY <1>1, <1>2, <1>3, <1>4, <2>1 DEF Undone
<1>9. Exits(R)
  BY <1>1, <1>2, <1>3, <1>4 DEF Exits, Range
<1>10. \A i \in 1 .. 4 : i = 1 \/ i = 2 \/ i = 3 \/ i = 4
  OBVIOUS
<1>. QED
  BY <1>2, <1>3, <1>5, <1>6, <1>7, <1>8, <1>9, <1>10 DEF Complete, R

\* All recipes are complete in this sense.
LEMMA RecipesComplete == \A R \in Recipes : Complete(R)
BY DeviceRecipes, BufferRecipes, NodeRecipe DEF Recipes, lab03, lab03_zad2, lab03_zad4

\* open takes no reference where a read calls the exit function; a name is kept
\* with its owner but for lab02_ex2; and only the files of lab02_ex1 and of
\* lab03_zad3 read the buffer.
LEMMA Traits ==
    \A R \in Recipes :
        /\ "reference" \in R.traits => "exits" \notin R.traits
        /\ "names" \in R.traits => "pins" \in R.traits \/ R = lab02_ex2
        /\ "appends" \in R.traits => R = lab02_ex1
        /\ "shows" \in R.traits => R = lab03_zad3
<1>1. ASSUME NEW R \in {lab02_simple_module, lab02_ex2, lab02_ex3, lab02_ex4, lab02_ex5}
      PROVE  /\ "exits" \notin R.traits /\ "appends" \notin R.traits /\ "shows" \notin R.traits
             /\ "names" \in R.traits => "pins" \in R.traits \/ R = lab02_ex2
  BY <1>1 DEF lab02_simple_module, lab02_ex2, lab02_ex3, lab02_ex4, lab02_ex5, Recipe
<1>2. lab02_ex1.traits = {"reference", "appends"}
  BY DEF lab02_ex1, Recipe
<1>3. lab03_zad1.traits = {"exits"} /\ lab03_zad3.traits = {"shows"}
  BY DEF lab03_zad1, lab03_zad3, Recipe
<1>. HIDE DEF lab02_ex1, lab03_zad3
<1>. QED
  BY <1>1, <1>2, <1>3 DEF Recipes, lab03, lab03_zad2, lab03_zad4

\* lab02_ex1 releases its /proc file before its buffer.
LEMMA AppendRecipe ==
    /\ lab02_ex1.acquires = <<"chrdev", "mybuf">>
    /\ lab02_ex1.undo["chrdev"] = <<>>
    /\ lab02_ex1.undo["mybuf"] = <<"chrdev", "proc", "mybuf">>
    /\ lab02_ex1.exit = <<"chrdev", "proc", "mybuf">>
    /\ "exits" \notin lab02_ex1.traits
BY DEF lab02_ex1, Recipe

------------------------------------------------------------------------------
(* The loader.                                                             *)

\* How many of its resources init has acquired.
Acquired == Len(recipe.acquires) - Len(todo)

\* During init the resources before todo are held, and nothing else but the
\* /proc file.
Acquiring ==
    /\ Len(todo) <= Len(recipe.acquires)
    /\ \A i \in 1 .. Len(todo) : todo[i] = recipe.acquires[Acquired + i]
    /\ \A x \in held : x = "proc" \/ \E i \in 1 .. Acquired : x = recipe.acquires[i]
    /\ ~Has("exits") => \A i \in 1 .. Acquired : recipe.acquires[i] \in held

\* Once it is inserted all of them are.
Running ==
    /\ held \subseteq {"proc"} \cup Range(recipe.acquires)
    /\ ~Has("exits") => Range(recipe.acquires) \subseteq held

\* At its end, and when init fails, what is held will be released, but for the
\* /proc file in the exceptions.
Releasing ==
    /\ held \subseteq {"proc"} \cup Range(todo)
    /\ "proc" \in held => "proc" \in Range(todo) \/ refused \/ recipe \in lab03

ModuleTyped ==
    /\ recipe \in Recipes
    /\ loader \in {"out", "init", "in", "fail", "exit"}
    /\ todo \in Seq(Resources)
    /\ insertion \in 0 .. MAX_INSERTIONS
    /\ held \in SUBSET Resources
    /\ freed \in BOOLEAN
    /\ stale \in SUBSET Resources
    /\ refused \in BOOLEAN
    /\ complete \in SUBSET (1 .. insertion)

Lifecycle ==
    /\ ModuleTyped
    /\ loader # "out" => insertion > 0
    /\ loader \in {"init", "fail"} => insertion \notin complete
    /\ loader = "out" => held = {}
    /\ loader = "init" => Acquiring
    /\ loader = "in" => Running
    /\ loader \in {"fail", "exit"} => Releasing
    /\ stale # {} => stale = {"proc"} /\ (refused \/ recipe \in lab03)

\* The elements of a list, and of its tail.
LEMMA ListElements ==
    ASSUME NEW S, NEW s \in Seq(S)
    PROVE  /\ Len(s) \in Nat
           /\ Range(s) \subseteq S
           /\ \A x : x \in Range(s) <=> \E i \in 1 .. Len(s) : x = s[i]
           /\ s # <<>> => /\ Head(s) \in S /\ Head(s) = s[1]
                          /\ Tail(s) \in Seq(S) /\ Len(Tail(s)) = Len(s) - 1 /\ Len(s) > 0
                          /\ \A i \in 1 .. Len(s) - 1 : Tail(s)[i] = s[i + 1]
                          /\ Range(s) = {Head(s)} \cup Range(Tail(s))
<1>1. /\ Len(s) \in Nat /\ DOMAIN s = 1 .. Len(s) /\ \A i \in 1 .. Len(s) : s[i] \in S
  OBVIOUS
<1>2. Range(s) \subseteq S /\ \A x : x \in Range(s) <=> \E i \in 1 .. Len(s) : x = s[i]
  BY <1>1 DEF Range
<1>3. ASSUME s # <<>>
      PROVE  /\ Head(s) \in S /\ Head(s) = s[1]
             /\ Tail(s) \in Seq(S) /\ Len(Tail(s)) = Len(s) - 1 /\ Len(s) > 0
             /\ \A i \in 1 .. Len(s) - 1 : Tail(s)[i] = s[i + 1]
             /\ Range(s) = {Head(s)} \cup Range(Tail(s))
  <2>1. /\ Head(s) \in S /\ Head(s) = s[1]
        /\ Tail(s) \in Seq(S) /\ Len(Tail(s)) = Len(s) - 1 /\ Len(s) > 0
    BY <1>3, HeadTailProperties
  <2>2. \A i \in 1 .. Len(s) - 1 : Tail(s)[i] = s[i + 1]
    BY <1>3
  <2>3. ASSUME NEW x PROVE x \in Range(s) <=> x \in {Head(s)} \cup Range(Tail(s))
    <3>1. x \in Range(Tail(s)) <=> \E i \in 1 .. Len(s) - 1 : x = s[i + 1]
      <4>1. DOMAIN Tail(s) = 1 .. Len(s) - 1
        BY <2>1
      <4>2. x \in Range(Tail(s)) <=> \E i \in 1 .. Len(s) - 1 : x = Tail(s)[i]
        BY <4>1 DEF Range
      <4>. QED
        BY <2>2, <4>2
    <3>2. ASSUME NEW i \in 1 .. Len(s), x = s[i], i # 1 PROVE x \in Range(Tail(s))
      <4>1. i - 1 \in 1 .. Len(s) - 1 /\ i - 1 + 1 = i
        BY <1>1, <3>2
      <4>. QED
        BY <3>1, <3>2, <4>1
    <3>3. ASSUME NEW i \in 1 .. Len(s) - 1, x = s[i + 1] PROVE x \in Range(s)
      <4>1. i + 1 \in 1 .. Len(s)
        BY <1>1
      <4>. QED
        BY <1>2, <3>3, <4>1
    <3>4. 1 \in 1 .. Len(s)
      BY <1>1, <2>1
    <3>. QED
      BY <1>2, <2>1, <3>1, <3>2, <3>3, <3>4
  <2>. QED
    BY <2>1, <2>2, <2>3
<1>. QED
  BY <1>1, <1>2, <1>3

\* What a step of the loader finds.
LEMMA RecipeFacts ==
    ASSUME Lifecycle
    PROVE  /\ Complete(recipe)
           /\ recipe.acquires \in Seq(Resources) /\ recipe.exit \in Seq(Resources)
           /\ todo \in Seq(Resources)
           /\ Range(recipe.acquires) \subseteq Resources \ {"proc"}
           /\ \A i \in 1 .. Len(recipe.acquires) : Undone(recipe, i)
<1>1. Complete(recipe)
  BY RecipesComplete DEF Lifecycle, ModuleTyped
<1>2. recipe.acquires \in Seq(Resources \ {"proc"}) /\ recipe.exit \in Seq(Resources)
  BY <1>1 DEF Complete, Exits
<1>3. recipe.acquires \in Seq(Resources)
  BY <1>2
<1>4. Range(recipe.acquires) \subseteq Resources \ {"proc"}
  BY <1>2, ListElements
<1>. QED
  BY <1>1, <1>2, <1>3, <1>4 DEF Lifecycle, ModuleTyped, Complete

\* init begins.
LEMMA InsertLifecycle ==
    ASSUME Lifecycle, Insert
    PROVE  Lifecycle'
<1>. USE DEF Insert
<1>1. ModuleTyped'
  <2>1. todo' \in Seq(Resources)
    BY RecipeFacts
  <2>2. held' \in SUBSET Resources
    BY DEF Resources
  <2>3. insertion' \in 0 .. MAX_INSERTIONS /\ complete' \in SUBSET (1 .. insertion')
    BY ConstantsAssumption DEF Lifecycle, ModuleTyped
  <2>. QED
    BY <2>1, <2>2, <2>3 DEF Lifecycle, ModuleTyped
<1>2. Acquiring'
  <2>1. Acquired' = 0 /\ Len(todo') = Len(recipe.acquires) /\ Len(recipe.acquires) \in Nat
    BY RecipeFacts DEF Acquired
  <2>2. \A i \in 1 .. Len(todo') : Acquired' + i = i
    BY <2>1
  <2>. QED
    BY <2>1, <2>2 DEF Acquiring
<1>3. insertion' > 0 /\ insertion' \notin complete'
  BY ConstantsAssumption DEF Lifecycle, ModuleTyped
<1>. QED
  BY <1>1, <1>2, <1>3 DEF Lifecycle

\* init acquires the next resource.
LEMMA AcquireLifecycle ==
    ASSUME Lifecycle, Acquire
    PROVE  Lifecycle'
<1>. USE DEF Acquire
<1>. DEFINE acquires == recipe.acquires
<1>1. /\ Head(todo) \in Resources /\ Head(todo) = todo[1]
      /\ todo' \in Seq(Resources) /\ Len(todo') = Len(todo) - 1 /\ Len(todo) > 0 /\ Len(todo) \in Nat
      /\ \A i \in 1 .. Len(todo) - 1 : todo'[i] = todo[i + 1]
  BY RecipeFacts, ListElements
<1>2. ModuleTyped'
  BY <1>1 DEF Lifecycle, ModuleTyped
<1>3. Acquiring'
  <2>1. Len(acquires) \in Nat
    BY RecipeFacts
  <2>2. Acquiring /\ Acquired \in Nat /\ Acquired' = Acquired + 1
    BY <1>1, <2>1 DEF Lifecycle, Acquiring, Acquired
  <2>3. Head(todo) = acquires[Acquired + 1]
    <3>1. 1 \in 1 .. Len(todo)
      BY <1>1
    <3>. QED
      BY <1>1, <2>2, <3>1 DEF Acquiring
  <2>4. Len(todo') <= Len(acquires)
    BY <1>1, <2>1, <2>2 DEF Acquiring
  <2>5. ASSUME NEW i \in 1 .. Len(todo') PROVE todo'[i] = acquires[Acquired' + i]
    <3>1. i \in 1 .. Len(todo) - 1 /\ i + 1 \in 1 .. Len(todo) /\ Acquired' + i = Acquired + (i + 1)
      BY <1>1, <2>2
    <3>2. todo'[i] = todo[i + 1]
      BY <1>1, <3>1
    <3>. QED
      BY <2>2, <3>1, <3>2 DEF Acquiring
  <2>6. \A i : i \in 1 .. Acquired' <=> i \in 1 .. Acquired \/ i = Acquired + 1
    BY <2>2
  <2>7. \A x \in held' : x = "proc" \/ \E i \in 1 .. Acquired' : x = acquires[i]
    BY <2>2, <2>3, <2>6 DEF Acquiring
  <2>8. ~Has("exits") => \A i \in 1 .. Acquired' : acquires[i] \in held'
    BY <2>2, <2>3, <2>6 DEF Acquiring
  <2>. QED
    BY <2>4, <2>5, <2>7, <2>8 DEF Acquiring, Has
<1>. QED
  BY <1>2, <1>3 DEF Lifecycle

\* init fails to acquire the next resource.
LEMMA FailLifecycle ==
    ASSUME Lifecycle, Fail
    PROVE  Lifecycle'
<1>. USE DEF Fail
<1>. DEFINE k == Acquired + 1
<1>1. /\ Len(todo) \in Nat /\ Len(todo) > 0 /\ Head(todo) = todo[1] /\ 1 \in 1 .. Len(todo)
  BY RecipeFacts, ListElements
<1>2. Acquiring /\ Len(recipe.acquires) \in Nat
  BY RecipeFacts DEF Lifecycle
<1>3. k \in 1 .. Len(recipe.acquires) /\ k - 1 = Acquired
  BY <1>1, <1>2 DEF Acquiring, Acquired
<1>4. Head(todo) = recipe.acquires[k]
  BY <1>1, <1>2 DEF Acquiring
<1>5. Undone(recipe, k) /\ todo' = recipe.undo[recipe.acquires[k]]
  BY <1>3, <1>4, RecipeFacts
<1>. HIDE DEF k
<1>6. todo' \in Seq(Resources)
  BY <1>5 DEF Undone
<1>7. ModuleTyped'
  BY <1>6 DEF Lifecycle, ModuleTyped
<1>8. Releasing'
  <2>1. held \subseteq {"proc"} \cup Range(todo')
    BY <1>2, <1>3, <1>5 DEF Acquiring, Undone
  <2>2. "proc" \in Range(todo') \/ refused' \/ recipe \in lab03
    BY <1>4, <1>5 DEF Undone
  <2>. QED
    BY <2>1, <2>2 DEF Releasing
<1>. QED
  BY <1>7, <1>8 DEF Lifecycle

\* init succeeds.
LEMMA InsertedLifecycle ==
    ASSUME Lifecycle, Inserted
    PROVE  Lifecycle'
<1>. USE DEF Inserted
<1>1. Acquiring /\ Len(recipe.acquires) \in Nat /\ Acquired = Len(recipe.acquires)
  BY RecipeFacts DEF Lifecycle, Acquired
<1>2. \A x : x \in Range(recipe.acquires) <=> \E i \in 1 .. Acquired : x = recipe.acquires[i]
  BY <1>1, RecipeFacts, ListElements
<1>3. Running'
  <2>1. held \subseteq {"proc"} \cup Range(recipe.acquires)
    BY <1>1, <1>2 DEF Acquiring
  <2>2. ~Has("exits") => Range(recipe.acquires) \subseteq held
    BY <1>1, <1>2 DEF Acquiring
  <2>. QED
    BY <2>1, <2>2 DEF Running, Has
<1>4. complete' \in SUBSET (1 .. insertion')
  BY ConstantsAssumption DEF Lifecycle, ModuleTyped
<1>. QED
  BY <1>3, <1>4 DEF Lifecycle, ModuleTyped

\* exit begins.
LEMMA RemoveLifecycle ==
    ASSUME Lifecycle, Remove
    PROVE  Lifecycle'
<1>. USE DEF Remove
<1>1. Exits(recipe) /\ Running
  BY RecipeFacts DEF Complete, Lifecycle
<1>2. Releasing'
  BY <1>1 DEF Exits, Running, Releasing
<1>. QED
  BY <1>1, <1>2 DEF Lifecycle, ModuleTyped, Exits

\* init or exit releases the next resource.
LEMMA ReleaseLifecycle ==
    ASSUME Lifecycle, Release
    PROVE  Lifecycle'
<1>. USE DEF Release
<1>1. todo' \in Seq(Resources) /\ Range(todo) = {Head(todo)} \cup Range(todo')
  BY RecipeFacts, ListElements
<1>2. Releasing'
  BY <1>1 DEF Lifecycle, Releasing
<1>3. freed' \in BOOLEAN
  <2>1. ("mybuf" \in held) \in BOOLEAN /\ ("mybuf" \in held \/ Has("shows")) \in BOOLEAN
    OBVIOUS
  <2>2. freed' \in BOOLEAN \/ freed' = freed
    BY <2>1
  <2>. QED
    BY <2>2 DEF Lifecycle, ModuleTyped
<1>. QED
  BY <1>1, <1>2, <1>3 DEF Lifecycle, ModuleTyped

\* init or exit returns.
LEMMA ReturnLifecycle ==
    ASSUME Lifecycle, Return
    PROVE  Lifecycle'
<1>. USE DEF Return, Free
<1>1. held \subseteq {"proc"} /\ (held # {} => refused \/ recipe \in lab03)
  BY Tuples DEF Lifecycle, Releasing
<1>2. stale' # {} => stale' = {"proc"} /\ (refused' \/ recipe' \in lab03)
  BY <1>1 DEF Lifecycle
<1>3. ModuleTyped'
  BY <1>2 DEF Lifecycle, ModuleTyped, Resources
<1>. QED
  BY <1>2, <1>3 DEF Lifecycle

\* A read of lab03 calls the exit function.
LEMMA ReadWithoutMemoryLifecycle ==
    ASSUME Lifecycle, NEW u \in Users, ReadWithoutMemory(u)
    PROVE  Lifecycle'
<1>. USE DEF ReadWithoutMemory
<1>1. held' \subseteq held /\ Has("exits")
  OBVIOUS
<1>2. ModuleTyped'
  BY <1>1 DEF Lifecycle, ModuleTyped
<1>3. Acquiring => Acquiring'
  BY <1>1 DEF Acquiring, Acquired, Has
<1>4. Running => Running'
  BY <1>1 DEF Running, Has
<1>5. Releasing => Releasing'
  BY <1>1 DEF Releasing
<1>. QED
  BY <1>1, <1>2, <1>3, <1>4, <1>5 DEF Lifecycle

\* Nobody else does anything to the module.
LEMMA ModuleSteps ==
    ASSUME [Next]_vars
    PROVE  \/ UNCHANGED module
           \/ Loader
           \/ \E u \in Users : ReadWithoutMemory(u)
BY DEF Next, Vanish, User, Find, simple_open, Enter, Access, Skip, simple_release, AppendStep, KeepName,
       ReadProc, ReadTextGone, ReadStale, vars

\* The life cycle is kept by every step,
LEMMA NextLifecycle ==
    ASSUME Lifecycle, [Next]_vars
    PROVE  Lifecycle'
<1>1. CASE UNCHANGED module
  BY <1>1 DEF module, Lifecycle, ModuleTyped, Acquiring, Acquired, Running, Releasing, Has
<1>2. CASE Loader
  BY <1>2, InsertLifecycle, AcquireLifecycle, FailLifecycle, InsertedLifecycle, RemoveLifecycle,
     ReleaseLifecycle, ReturnLifecycle DEF Loader
<1>3. ASSUME NEW u \in Users, ReadWithoutMemory(u) PROVE Lifecycle'
  BY <1>3, ReadWithoutMemoryLifecycle
<1>. QED
  BY <1>1, <1>2, <1>3, ModuleSteps

\* and begins as it should.
LEMMA InitLifecycle == ASSUME Init PROVE Lifecycle
<1>1. <<>> \in Seq(Resources) /\ 0 \in 0 .. MAX_INSERTIONS
  BY ConstantsAssumption
<1>. QED
  BY <1>1 DEF Init, Lifecycle, ModuleTyped

------------------------------------------------------------------------------
(* The name.                                                               *)

\* ex2 is asked for the name of a task that has exited.
Exempt == recipe = lab02_ex2 /\ ~alive

\* Only ex2 and ex4 have a name, and ex4 keeps the mount that it is of.
Naming ==
    /\ alive \in BOOLEAN /\ pinned \in BOOLEAN /\ named \in BOOLEAN
    /\ ~Has("names") => alive /\ ~named
    /\ named /\ Has("pins") => pinned
    /\ pinned => alive

\* What steps do to the name.
LEMMA NameSteps ==
    ASSUME [Next]_vars
    PROVE  /\ recipe' = recipe
           /\ \/ UNCHANGED name
              \/ named' = FALSE /\ UNCHANGED <<alive, pinned>>
              \/ Has("names") /\ alive /\ pinned' = Has("pins") /\ named' = TRUE /\ UNCHANGED alive
              \/ Has("names") /\ ~pinned /\ alive' = FALSE /\ UNCHANGED <<pinned, named>>
BY DEF Next, Vanish, User, Find, simple_open, Enter, Access, Skip, simple_release, AppendStep, KeepName,
       ReadWithoutMemory, ReadProc, ReadTextGone, ReadStale, Loader, Insert, Acquire, Fail,
       Inserted, Remove, Release, Return, vars, handlers, name, module

\* The name is kept as it should be, and a task that has exited stays away.
LEMMA NextNaming ==
    ASSUME Naming, [Next]_vars
    PROVE  Naming' /\ (Exempt => Exempt')
<1>1. recipe' = recipe /\ (Has("names"))' = Has("names") /\ (Has("pins"))' = Has("pins")
  BY NameSteps DEF Has
<1>2. Has("pins") \in BOOLEAN
  BY DEF Has
<1>3. Naming'
  <2>1. CASE UNCHANGED name
    BY <1>1, <2>1 DEF Naming, name, Has
  <2>2. CASE named' = FALSE /\ UNCHANGED <<alive, pinned>>
    BY <1>1, <2>2 DEF Naming, Has
  <2>3. CASE Has("names") /\ alive /\ pinned' = Has("pins") /\ named' = TRUE /\ UNCHANGED alive
    BY <1>1, <1>2, <2>3 DEF Naming
  <2>4. CASE Has("names") /\ ~pinned /\ alive' = FALSE /\ UNCHANGED <<pinned, named>>
    BY <1>1, <2>4 DEF Naming
  <2>. QED
    BY <2>1, <2>2, <2>3, <2>4, NameSteps
<1>4. alive' => alive
  BY NameSteps DEF name
<1>. QED
  BY <1>1, <1>3, <1>4 DEF Exempt, Naming

\* The name is there when a handler reads it.
LEMMA NameThere ==
    ASSUME Lifecycle, Naming
    PROVE  NamePresent \/ Exempt
<1>1. Has("names") => Has("pins") \/ recipe = lab02_ex2
  BY Traits DEF Lifecycle, ModuleTyped, Has
<1>. QED
  BY <1>1 DEF Naming, NamePresent, Exempt

------------------------------------------------------------------------------
(* The users of the device.                                                *)

UsersTyped ==
    /\ at \in [Users -> {"closed", "opening", "open", "inside"}]
    /\ since \in [Users -> 0 .. insertion]
    /\ referenced \in [Users -> BOOLEAN]
    /\ late \in [Users -> BOOLEAN]
    /\ lost \in SUBSET (Users \cup Readers)

\* A user that was in time holds a reference, and if init has succeeded since,
\* this keeps the module there.
Secured(u) ==
    Has("reference") /\ u \notin lost /\ at[u] \in {"open", "inside"} /\ ~late[u] =>
        /\ referenced[u]
        /\ since[u] \in complete => loader = "in" /\ since[u] = insertion

Using == UsersTyped /\ \A u \in Users : Secured(u)

\* A secured user has all that it needs.
LEMMA SecuredFindsAll ==
    ASSUME Lifecycle, Naming, Using, ~Exempt, Has("reference"),
           NEW u \in Users, u \notin lost, at[u] \in {"open", "inside"}, ~late[u], since[u] \in complete
    PROVE  CodePresent(u) /\ DataPresent(u)
<1>1. loader = "in" /\ since[u] = insertion
  BY DEF Using, Secured
<1>2. ~Has("exits")
  BY Traits DEF Lifecycle, ModuleTyped, Has
<1>3. Range(recipe.acquires) \subseteq held
  BY <1>1, <1>2 DEF Lifecycle, Running
<1>. QED
  BY <1>1, <1>3, NameThere DEF CodePresent, DataPresent

\* The loader removes no insertion to which there is a reference.
LEMMA LoaderUsing ==
    ASSUME Lifecycle, Using, Loader, recipe' = recipe
    PROVE  Using'
<1>. USE DEF Loader, Insert, Acquire, Fail, Inserted, Remove, Release, Return, Free
<1>1. UNCHANGED <<at, since, referenced, late>>
  BY DEF users
<1>2. lost \subseteq lost' /\ lost' \subseteq lost \cup Readers
  OBVIOUS
<1>3. insertion \in Nat /\ (insertion' = insertion \/ insertion' = insertion + 1)
  BY ConstantsAssumption DEF Lifecycle, ModuleTyped
<1>4. UsersTyped'
  <2>1. 0 .. insertion \subseteq 0 .. insertion'
    BY <1>3
  <2>2. since \in [Users -> 0 .. insertion']
    BY <2>1 DEF Using, UsersTyped
  <2>. QED
    BY <1>1, <1>2, <2>2 DEF Using, UsersTyped
<1>5. ASSUME NEW u \in Users PROVE Secured(u)'
  <2>1. SUFFICES ASSUME (Has("reference") /\ u \notin lost /\ at[u] \in {"open", "inside"} /\ ~late[u])'
                 PROVE  /\ referenced[u]
                        /\ since[u] \in complete' => loader' = "in" /\ since[u] = insertion'
    BY <1>1 DEF Secured
  <2>2. referenced[u] /\ (since[u] \in complete => loader = "in" /\ since[u] = insertion)
    BY <1>1, <1>2, <2>1 DEF Using, Secured, Has
  <2>3. ~Inserted => complete' = complete
    OBVIOUS
  <2>4. loader = "in" => Remove
    OBVIOUS
  <2>. QED
    BY <2>2, <2>3, <2>4
<1>. QED
  BY <1>4, <1>5 DEF Using

\* One user does something, and what it opens or holds is as it should be.
LEMMA OneUses ==
    ASSUME Using, NEW u \in Users, UNCHANGED <<loader, insertion, complete, recipe>>,
           UsersTyped', lost \subseteq lost',
           \A v \in Users \ {u} : /\ at'[v] = at[v] /\ since'[v] = since[v]
                                  /\ referenced'[v] = referenced[v] /\ late'[v] = late[v],
           Secured(u)'
    PROVE  Using'
<1>1. ASSUME NEW v \in Users PROVE Secured(v)'
  <2>1. CASE v = u
    BY <2>1
  <2>2. CASE v # u
    BY <2>2 DEF Using, Secured, Has
  <2>. QED
    BY <2>1, <2>2
<1>. QED
  BY <1>1 DEF Using

\* A user finds the device,
LEMMA FindUsing ==
    ASSUME Lifecycle, Using, NEW u \in Users, Find(u)
    PROVE  Using'
<1>. USE DEF Find, Step, module, Using, UsersTyped
<1>1. insertion \in 0 .. insertion
  BY DEF Lifecycle, ModuleTyped
<1>2. UsersTyped'
  BY <1>1
<1>3. Secured(u)'
  BY DEF Secured
<1>4. \A v \in Users \ {u} : /\ at'[v] = at[v] /\ since'[v] = since[v]
                             /\ referenced'[v] = referenced[v] /\ late'[v] = late[v]
  OBVIOUS
<1>. QED
  BY <1>2, <1>3, <1>4, OneUses

\* runs simple_open,
LEMMA OpenUsing ==
    ASSUME Lifecycle, Using, NEW u \in Users, simple_open(u)
    PROVE  Using'
<1>. USE DEF simple_open, Step, module, Using, UsersTyped
<1>1. CodePresent(u) \in BOOLEAN /\ Has("reference") \in BOOLEAN /\ (Has("reference"))' = Has("reference")
  BY DEF CodePresent, Has
<1>2. UsersTyped'
  BY <1>1
<1>3. Secured(u)'
  <2>1. late'[u] = (~CodePresent(u) \/ loader = "exit")
        /\ referenced'[u] = (Has("reference") /\ CodePresent(u) /\ loader # "exit")
    OBVIOUS
  <2>2. CodePresent(u) /\ loader # "exit" /\ since[u] \in complete => loader = "in" /\ since[u] = insertion
    BY DEF CodePresent, Lifecycle, ModuleTyped
  <2>. QED
    BY <1>1, <2>1, <2>2 DEF Secured
<1>4. \A v \in Users \ {u} : /\ at'[v] = at[v] /\ since'[v] = since[v]
                             /\ referenced'[v] = referenced[v] /\ late'[v] = late[v]
  OBVIOUS
<1>. QED
  BY <1>2, <1>3, <1>4, OneUses

\* enters or leaves a handler, or fails to.
LEMMA MoveUsing ==
    ASSUME Using, NEW u \in Users, NEW from \in {"open", "inside"},
           NEW to \in {"open", "inside"}, NEW ok \in BOOLEAN, Step(u, from, ok, to),
           UNCHANGED <<since, referenced, late, loader, insertion, complete, recipe>>
    PROVE  Using'
<1>. USE DEF Step, Using, UsersTyped
<1>1. UsersTyped'
  OBVIOUS
<1>2. Secured(u)'
  BY <1>1 DEF Secured, Has
<1>3. \A v \in Users \ {u} : /\ at'[v] = at[v] /\ since'[v] = since[v]
                             /\ referenced'[v] = referenced[v] /\ late'[v] = late[v]
  OBVIOUS
<1>. QED
  BY <1>1, <1>2, <1>3, OneUses

\* A user closes the device.
LEMMA ReleaseUsing ==
    ASSUME Lifecycle, Using, NEW u \in Users, simple_release(u)
    PROVE  Using'
<1>. USE DEF simple_release, Step, module, Using, UsersTyped
<1>1. CodePresent(u) \in BOOLEAN /\ 0 \in 0 .. insertion
  BY ConstantsAssumption DEF CodePresent, Lifecycle, ModuleTyped
<1>2. UsersTyped'
  BY <1>1
<1>3. Secured(u)'
  BY <1>1, <1>2 DEF Secured, Has
<1>4. \A v \in Users \ {u} : /\ at'[v] = at[v] /\ since'[v] = since[v]
                             /\ referenced'[v] = referenced[v] /\ late'[v] = late[v]
  OBVIOUS
<1>. QED
  BY <1>2, <1>3, <1>4, OneUses

\* Whatever a user does, the users are secured as they should be.
LEMMA UserUsing ==
    ASSUME Lifecycle, Using, NEW u \in Users, User(u)
    PROVE  Using'
<1>. USE DEF module
<1>1. CodePresent(u) \in BOOLEAN /\ DataPresent(u) \in BOOLEAN
  BY DEF CodePresent, DataPresent
<1>2. CASE Enter(u) \/ Access(u)
  BY <1>1, <1>2, MoveUsing DEF Enter, Access
<1>3. CASE Skip(u) \/ KeepName(u) \/ ReadWithoutMemory(u)
  BY <1>3, MoveUsing DEF Skip, KeepName, ReadWithoutMemory
<1>4. CASE AppendStep(u)
  <2>1. PICK to \in {"inside", "open"} : Step(u, "inside", TRUE, to)
    BY <1>4 DEF AppendStep
  <2>. QED
    BY <1>4, <2>1, MoveUsing DEF AppendStep
<1>. QED
  BY <1>2, <1>3, <1>4, FindUsing, OpenUsing, ReleaseUsing DEF User

\* The readers do nothing to the users.
LEMMA NextUsing ==
    ASSUME Lifecycle, Using, [Next]_vars
    PROVE  Using'
<1>1. recipe' = recipe
  BY NameSteps
<1>2. CASE Loader
  BY <1>1, <1>2, LoaderUsing
<1>3. ASSUME NEW u \in Users, User(u) PROVE Using'
  BY <1>3, UserUsing
<1>4. ASSUME UNCHANGED <<module, users>>, lost \subseteq lost', lost' \subseteq lost \cup Readers
      PROVE  Using'
  <2>1. UsersTyped'
    BY <1>4 DEF Using, UsersTyped, module, users
  <2>2. \A u \in Users : Secured(u)'
    BY <1>4 DEF Using, Secured, Has, module, users
  <2>. QED
    BY <2>1, <2>2 DEF Using
<1>5. ASSUME NEW r \in Readers, ReadProc(r) \/ ReadTextGone(r) \/ ReadStale(r) PROVE Using'
  BY <1>4, <1>5 DEF ReadProc, ReadTextGone, ReadStale
<1>6. CASE Vanish \/ UNCHANGED vars
  BY <1>4, <1>6 DEF Vanish, vars
<1>. QED
  BY <1>2, <1>3, <1>5, <1>6 DEF Next

\* Nobody is lost that is secured.
LEMMA UsersLost ==
    ASSUME Lifecycle, Naming, Using, ~Exempt, [Next]_vars, Has("reference"),
           NEW u \in Users, u \in lost' \ lost
    PROVE  late'[u] \/ since[u] \notin complete
<1>1. ~Loader /\ ~Vanish /\ ~UNCHANGED vars
  BY ConstantsAssumption
     DEF Loader, Insert, Acquire, Fail, Inserted, Remove, Release, Return, Free, Vanish, vars
<1>2. ASSUME NEW r \in Readers PROVE ~(ReadProc(r) \/ ReadTextGone(r) \/ ReadStale(r))
  BY ConstantsAssumption DEF ReadProc, ReadTextGone, ReadStale
<1>3. PICK v \in Users : User(v)
  BY <1>1, <1>2 DEF Next
<1>4. v = u
  BY <1>3 DEF User, Find, simple_open, Enter, Access, Skip, simple_release, AppendStep, KeepName,
              ReadWithoutMemory, Step
<1>5. SUFFICES ASSUME ~late'[u], since[u] \in complete PROVE FALSE
  OBVIOUS
<1>6. CASE simple_open(u)
  BY <1>5, <1>6 DEF simple_open, Step, Using, UsersTyped
<1>7. ASSUME at[u] \in {"open", "inside"}, ~late[u], ~(CodePresent(u) /\ DataPresent(u)) PROVE FALSE
  BY <1>5, <1>7, SecuredFindsAll
<1>8. CASE Enter(u) \/ Access(u)
  BY <1>5, <1>7, <1>8 DEF Enter, Access, Step
<1>9. CASE simple_release(u)
  BY <1>5, <1>7, <1>9 DEF simple_release, Step
<1>10. ~Find(u) /\ ~Skip(u) /\ ~AppendStep(u) /\ ~KeepName(u) /\ ~ReadWithoutMemory(u)
  BY DEF Find, Skip, AppendStep, KeepName, ReadWithoutMemory, Step
<1>. QED
  BY <1>3, <1>4, <1>6, <1>8, <1>9, <1>10 DEF User

------------------------------------------------------------------------------
(* The readers of the /proc file.                                          *)

\* Whoever is in the handler keeps the /proc file there.
Reading ==
    /\ Proc!TypeOK
    /\ \A r \in Readers \ lost : pc[r] \in {"text", "end"} => "proc" \in held

\* The readings follow each other: one reader at most is at the file, and the
\* flag tells whether it has got the text.
Orderly ==
    /\ \A r, s \in Readers : ~Proc!Away(r) /\ ~Proc!Away(s) => r = s
    /\ \A r \in Readers : ~Proc!Away(r) => texts[r] = IF eof THEN 1 ELSE 0
    /\ \A r \in Readers : (pc[r] = "text" => ~eof) /\ (pc[r] = "end" => eof)
    /\ (\A r \in Readers : Proc!Away(r)) => ~eof

\* A reader that has had more texts than others have taken ends from it will
\* find the flag set, if the flag has not been tested before.
Expecting(r) ==
    /\ texts[r] <= 1 + endings[r]
    /\ pc[r] = "text" \/ (pc[r] = "open" /\ ~eof) => texts[r] <= endings[r]

Serving ==
    /\ \A r \in Readers : Expecting(r)
    /\ clean /\ "proc" \in held => Orderly
    /\ Proc!OneTextEach

\* Only an insertion creates the /proc file.
LEMMA FileCreated ==
    ASSUME Lifecycle, [Next]_vars, "proc" \in held', "proc" \notin held
    PROVE  Insert
<1>1. ASSUME Acquire PROVE FALSE
  <2>1. /\ Len(todo) \in Nat /\ Len(todo) > 0 /\ Head(todo) = todo[1] /\ 1 \in 1 .. Len(todo)
    BY <1>1, RecipeFacts, ListElements DEF Acquire
  <2>2. Acquiring /\ Len(recipe.acquires) \in Nat
    BY <1>1, RecipeFacts DEF Lifecycle, Acquire
  <2>3. Acquired + 1 \in 1 .. Len(recipe.acquires) /\ Head(todo) = recipe.acquires[Acquired + 1]
    BY <2>1, <2>2 DEF Acquiring, Acquired
  <2>4. Head(todo) \in Range(recipe.acquires)
    BY <2>3, RecipeFacts, ListElements
  <2>. QED
    BY <1>1, <2>4, RecipeFacts DEF Acquire
<1>2. CASE UNCHANGED module
  BY <1>2 DEF module
<1>3. CASE Loader
  BY <1>1, <1>3 DEF Loader, Fail, Inserted, Remove, Release, Return, Free
<1>4. ASSUME NEW u \in Users, ReadWithoutMemory(u) PROVE FALSE
  BY <1>4 DEF ReadWithoutMemory
<1>. QED
  BY <1>2, <1>3, <1>4, ModuleSteps

\* Who is lost stays so, and how a reader is.
LEMMA ReadersLost ==
    ASSUME [Next]_vars, NEW r \in Readers
    PROVE  /\ lost \subseteq lost'
           /\ r \in lost' \ lost => \/ Return /\ pc[r] \in {"text", "end"}
                                    \/ ReadTextGone(r)
                                    \/ ReadStale(r)
<1>1. CASE Loader
  BY <1>1 DEF Loader, Insert, Acquire, Fail, Inserted, Remove, Release, Return, Free
<1>2. ASSUME NEW u \in Users, User(u) PROVE lost \subseteq lost' /\ lost' \subseteq lost \cup {u}
  BY <1>2 DEF User, Find, simple_open, Enter, Access, Skip, simple_release, AppendStep, KeepName,
              ReadWithoutMemory, Step
<1>3. ASSUME NEW s \in Readers, ReadProc(s) \/ ReadTextGone(s) \/ ReadStale(s)
      PROVE  /\ lost \subseteq lost'
             /\ r \in lost' \ lost => ReadTextGone(r) \/ ReadStale(r)
  BY <1>3 DEF ReadProc, ReadTextGone, ReadStale
<1>4. CASE Vanish \/ UNCHANGED vars
  BY <1>4 DEF Vanish, vars
<1>. QED
  BY <1>1, <1>2, <1>3, <1>4, ConstantsAssumption DEF Next

\* What steps do to the readers.
LEMMA ReadingSteps ==
    ASSUME [Next]_vars
    PROVE  \/ UNCHANGED reading
           \/ Insert /\ Proc!Load
           \/ /\ Release /\ Head(todo) = "proc"
              /\ pc' = [r \in Readers |-> "closed"]
              /\ UNCHANGED <<eof, opened, texts, endings, clean>>
           \/ \E r \in Readers : ReadProc(r)
BY DEF Next, Vanish, User, Find, simple_open, Enter, Access, Skip, simple_release, AppendStep, KeepName,
       ReadWithoutMemory, ReadTextGone, ReadStale, Loader, Insert, Acquire, Fail,
       Inserted, Remove, Release, Return, vars, handlers, reading

\* What the step of a reader is.
LEMMA ReaderSteps ==
    ASSUME NEW r \in Readers, ReadProc(r)
    PROVE  /\ r \notin lost /\ UNCHANGED <<module, lost>>
           /\ \/ "proc" \in held /\ (Proc!Open(r) \/ Proc!TestFlag(r))
              \/ Proc!CopyText(r) \/ Proc!ReportEnd(r) \/ Proc!CopyFails(r) \/ Proc!GiveUp(r)
BY DEF ReadProc

\* The types of the readers' variables, after the step of one of them,
LEMMA ReaderTyped ==
    ASSUME Proc!TypeOK, NEW r \in Readers, Proc!Reader(r)
    PROVE  Proc!TypeOK'
<1>. USE DEF Proc!TypeOK
<1>1. CASE Proc!Open(r)
  <2>1. opened[r] + 1 \in 0 .. MAX_OPENINGS
    BY <1>1, ConstantsAssumption DEF Proc!Open
  <2>. QED
    BY <1>1, <2>1 DEF Proc!Open
<1>2. CASE Proc!TestFlag(r)
  BY <1>2 DEF Proc!TestFlag, Proc!Goto, Proc!flag
<1>3. CASE Proc!CopyText(r)
  BY <1>3 DEF Proc!CopyText, Proc!Goto
<1>4. CASE Proc!ReportEnd(r)
  <2>1. endings' \in [Readers -> Nat]
    BY <1>4 DEF Proc!ReportEnd
  <2>. QED
    BY <1>4, <2>1 DEF Proc!ReportEnd, Proc!Goto
<1>5. CASE Proc!CopyFails(r)
  BY <1>5 DEF Proc!CopyFails, Proc!Goto, Proc!flag
<1>6. CASE Proc!GiveUp(r)
  BY <1>6 DEF Proc!GiveUp, Proc!Goto
<1>. QED
  BY <1>1, <1>2, <1>3, <1>4, <1>5, <1>6 DEF Proc!Reader

\* and after any step.
LEMMA NextReadersTyped ==
    ASSUME Proc!TypeOK, [Next]_vars
    PROVE  Proc!TypeOK'
<1>1. CASE UNCHANGED reading
  BY <1>1 DEF reading, Proc!TypeOK
<1>2. CASE Proc!Load
  BY <1>2 DEF Proc!Load, Proc!TypeOK
<1>3. CASE pc' = [r \in Readers |-> "closed"] /\ UNCHANGED <<eof, opened, texts, endings, clean>>
  BY <1>3 DEF Proc!TypeOK
<1>4. ASSUME NEW r \in Readers, ReadProc(r) PROVE Proc!TypeOK'
  BY <1>4, ReaderSteps, ReaderTyped DEF Proc!Reader
<1>. QED
  BY <1>1, <1>2, <1>3, <1>4, ReadingSteps

\* Whatever a reader does, it is in the handler only while the file is there.
LEMMA ReaderEnters ==
    ASSUME Reading, NEW r \in Readers, ReadProc(r)
    PROVE  /\ \A s \in Readers \ {r} : pc'[s] = pc[s]
           /\ pc'[r] \in {"text", "end"} => "proc" \in held
<1>. USE ReaderSteps DEF Reading, Proc!TypeOK
<1>1. CASE Proc!Open(r)
  BY <1>1 DEF Proc!Open
<1>2. CASE Proc!TestFlag(r)
  <2>1. pc[r] = "open" /\ pc' = [pc EXCEPT ![r] = IF eof THEN "end" ELSE "text"]
    BY <1>2 DEF Proc!TestFlag, Proc!Goto
  <2>2. CASE "proc" \in held
    BY <2>1, <2>2
  <2>3. CASE Proc!GiveUp(r)
    BY <2>3 DEF Proc!GiveUp, Proc!Goto
  <2>4. CASE Proc!CopyText(r) \/ Proc!ReportEnd(r) \/ Proc!CopyFails(r)
    BY <2>1, <2>4 DEF Proc!CopyText, Proc!ReportEnd, Proc!CopyFails, Proc!Goto
  <2>. QED
    BY <2>1, <2>2, <2>3, <2>4
<1>3. CASE Proc!CopyText(r)
  BY <1>3 DEF Proc!CopyText, Proc!Goto
<1>4. CASE Proc!ReportEnd(r)
  BY <1>4 DEF Proc!ReportEnd, Proc!Goto
<1>5. CASE Proc!CopyFails(r)
  BY <1>5 DEF Proc!CopyFails, Proc!Goto
<1>6. CASE Proc!GiveUp(r)
  BY <1>6 DEF Proc!GiveUp, Proc!Goto
<1>. QED
  BY <1>1, <1>2, <1>3, <1>4, <1>5, <1>6

\* The file stays while somebody is in its handler.
LEMMA NextReading ==
    ASSUME Lifecycle, Reading, [Next]_vars
    PROVE  Reading'
<1>1. Proc!TypeOK'
  BY NextReadersTyped DEF Reading
<1>2. ASSUME NEW r \in Readers \ lost', pc'[r] \in {"text", "end"} PROVE "proc" \in held'
  <2>1. r \notin lost
    BY <1>2, ReadersLost
  <2>2. CASE UNCHANGED reading
    <3>1. "proc" \in held
      BY <1>2, <2>1, <2>2 DEF Reading, reading
    <3>2. CASE UNCHANGED module
      BY <3>1, <3>2 DEF module
    <3>3. CASE Insert \/ Acquire \/ Fail \/ Inserted \/ Remove
      BY <1>2, <2>2, <3>1, <3>3 DEF Insert, Acquire, Fail, Inserted, Remove, Lifecycle
    <3>4. CASE Release
      BY <1>2, <2>1, <2>2, <3>1, <3>4 DEF Release, reading
    <3>5. CASE Return
      BY <1>2, <2>1, <2>2, <3>5 DEF Return, Free, reading
    <3>6. ASSUME NEW u \in Users, ReadWithoutMemory(u) PROVE "proc" \in held'
      BY <3>1, <3>6, RecipeFacts DEF ReadWithoutMemory, Complete, Exits, Has
    <3>. QED
      BY <3>2, <3>3, <3>4, <3>5, <3>6, ModuleSteps DEF Loader
  <2>3. CASE pc' = [s \in Readers |-> "closed"]
    BY <1>2, <2>3
  <2>4. ASSUME NEW s \in Readers, ReadProc(s) PROVE "proc" \in held'
    BY <1>2, <2>1, <2>4, ReaderSteps, ReaderEnters DEF Reading, module
  <2>. QED
    BY <2>2, <2>3, <2>4, ReadingSteps DEF Proc!Load
<1>. QED
  BY <1>1, <1>2 DEF Reading

\* A reader gets a text more than the ends others have taken from it at most,
LEMMA ReaderExpecting ==
    ASSUME Proc!TypeOK, \A s \in Readers : Expecting(s), NEW r \in Readers, Proc!Reader(r)
    PROVE  \A s \in Readers : Expecting(s)'
<1>. USE DEF Proc!TypeOK, Expecting
<1>1. CASE Proc!Open(r)
  BY <1>1 DEF Proc!Open
<1>2. CASE Proc!TestFlag(r)
  BY <1>2 DEF Proc!TestFlag, Proc!Goto, Proc!flag
<1>3. CASE Proc!CopyText(r)
  BY <1>3 DEF Proc!CopyText, Proc!Goto
<1>4. CASE Proc!ReportEnd(r)
  <2>1. ASSUME NEW s \in Readers PROVE Expecting(s)'
    <3>1. CASE s = r
      BY <1>4, <3>1 DEF Proc!ReportEnd, Proc!Goto
    <3>2. CASE s # r /\ Proc!Away(s)
      BY <1>4, <3>2 DEF Proc!ReportEnd, Proc!Goto, Proc!Away
    <3>3. CASE s # r /\ ~Proc!Away(s)
      BY <1>4, <3>3 DEF Proc!ReportEnd, Proc!Goto
    <3>. QED
      BY <3>1, <3>2, <3>3
  <2>. QED
    BY <2>1
<1>5. CASE Proc!CopyFails(r)
  BY <1>5 DEF Proc!CopyFails, Proc!Goto, Proc!flag
<1>6. CASE Proc!GiveUp(r)
  BY <1>6 DEF Proc!GiveUp, Proc!Goto
<1>. QED
  BY <1>1, <1>2, <1>3, <1>4, <1>5, <1>6 DEF Proc!Reader

\* an order of the readings is kept as long as the history says so,
LEMMA ReaderOrderly ==
    ASSUME Proc!TypeOK, Orderly, NEW r \in Readers, Proc!Reader(r), clean'
    PROVE  Orderly' /\ clean
<1>. USE DEF Proc!TypeOK, Proc!Away, Orderly
<1>1. CASE Proc!Open(r)
  BY <1>1 DEF Proc!Open
<1>2. CASE Proc!TestFlag(r)
  BY <1>2 DEF Proc!TestFlag, Proc!Goto, Proc!flag
<1>3. CASE Proc!CopyText(r)
  BY <1>3 DEF Proc!CopyText, Proc!Goto
<1>4. CASE Proc!ReportEnd(r)
  BY <1>4 DEF Proc!ReportEnd, Proc!Goto
<1>5. CASE Proc!CopyFails(r)
  BY <1>5 DEF Proc!CopyFails, Proc!Goto, Proc!flag
<1>6. CASE Proc!GiveUp(r)
  <2>1. /\ pc[r] = "open" /\ pc' = [pc EXCEPT ![r] = "closed"]
        /\ clean /\ texts[r] = 0 /\ eof' = eof /\ texts' = texts
    BY <1>6 DEF Proc!GiveUp, Proc!Goto
  <2>2. ~eof
    BY <2>1
  <2>3. \A s \in Readers : pc'[s] \in {"closed", "ended"}
    BY <2>1
  <2>. QED
    BY <2>1, <2>2, <2>3
<1>. QED
  BY <1>1, <1>2, <1>3, <1>4, <1>5, <1>6 DEF Proc!Reader

\* and who comes to the end in this order has got the text once.
LEMMA ReaderEnds ==
    ASSUME Proc!TypeOK, Proc!OneTextEach, NEW r \in Readers, Proc!Reader(r),
           clean /\ pc[r] = "end" => Orderly
    PROVE  Proc!OneTextEach'
<1>. USE DEF Proc!TypeOK, Proc!OneTextEach
<1>1. CASE Proc!Open(r)
  BY <1>1 DEF Proc!Open
<1>2. CASE Proc!TestFlag(r)
  BY <1>2 DEF Proc!TestFlag, Proc!Goto, Proc!flag
<1>3. CASE Proc!CopyText(r)
  BY <1>3 DEF Proc!CopyText, Proc!Goto
<1>4. CASE Proc!ReportEnd(r)
  <2>1. pc[r] = "end" /\ pc' = [pc EXCEPT ![r] = "ended"] /\ UNCHANGED <<texts, clean>>
    BY <1>4 DEF Proc!ReportEnd, Proc!Goto
  <2>2. clean => texts[r] = 1
    BY <2>1 DEF Orderly, Proc!Away
  <2>. QED
    BY <2>1, <2>2
<1>5. CASE Proc!CopyFails(r)
  BY <1>5 DEF Proc!CopyFails, Proc!Goto, Proc!flag
<1>6. CASE Proc!GiveUp(r)
  <2>1. clean' => clean
    BY <1>6 DEF Proc!GiveUp
  <2>2. pc' = [pc EXCEPT ![r] = "closed"] /\ texts' = texts
    BY <1>6 DEF Proc!GiveUp, Proc!Goto
  <2>. QED
    BY <2>1, <2>2
<1>. QED
  BY <1>1, <1>2, <1>3, <1>4, <1>5, <1>6 DEF Proc!Reader

\* The text is served as it should be after any step.
LEMMA NextServing ==
    ASSUME Lifecycle, Reading, Serving, [Next]_vars
    PROVE  Serving'
<1>1. CASE Proc!Load
  BY <1>1 DEF Proc!Load, Serving, Expecting, Orderly, Proc!Away, Proc!OneTextEach
<1>2. CASE UNCHANGED reading /\ ~Insert
  <2>1. "proc" \in held' => "proc" \in held
    BY <1>2, FileCreated
  <2>. QED
    BY <1>2, <2>1 DEF Serving, Expecting, Orderly, Proc!Away, Proc!OneTextEach, reading
<1>3. CASE /\ Release /\ Head(todo) = "proc"
           /\ pc' = [r \in Readers |-> "closed"]
           /\ UNCHANGED <<eof, opened, texts, endings, clean>>
  <2>1. "proc" \notin held'
    BY <1>3 DEF Release
  <2>2. Proc!OneTextEach'
    BY <1>3 DEF Proc!OneTextEach
  <2>. QED
    BY <1>3, <2>1, <2>2 DEF Serving, Expecting
<1>4. ASSUME NEW r \in Readers, ReadProc(r) PROVE Serving'
  <2>1. Proc!Reader(r) /\ r \notin lost /\ held' = held
    BY <1>4, ReaderSteps DEF Proc!Reader, module
  <2>2. Proc!TypeOK
    BY DEF Reading
  <2>3. \A s \in Readers : Expecting(s)'
    BY <2>1, <2>2, ReaderExpecting DEF Serving
  <2>4. clean' => clean
    BY <2>1 DEF Proc!Reader, Proc!Open, Proc!TestFlag, Proc!CopyText, Proc!CopyFails,
                Proc!ReportEnd, Proc!GiveUp, Proc!flag
  <2>5. clean' /\ "proc" \in held' => Orderly'
    BY <2>1, <2>2, <2>4, ReaderOrderly DEF Serving
  <2>6. pc[r] = "end" => "proc" \in held
    BY <2>1 DEF Reading
  <2>7. Proc!OneTextEach'
    BY <2>1, <2>2, <2>6, ReaderEnds DEF Serving
  <2>. QED
    BY <2>3, <2>5, <2>7 DEF Serving
<1>5. Insert => Proc!Load
  BY DEF Insert
<1>. QED
  BY <1>1, <1>2, <1>3, <1>4, <1>5, ReadingSteps

------------------------------------------------------------------------------
(* The buffer of lab02/ex1.                                                *)

BufferTyped ==
    /\ mybuf_count \in Nat
    /\ DOMAIN mybuf \subseteq Nat \ {0}
    /\ write \in [Users -> [at : {"idle", "copy", "load", "store"}, max : 0 .. mybuf_size, loaded : Nat]]
    /\ appended \in Seq(Users)
    /\ serial \in BOOLEAN
    /\ \A u \in Users : write[u].at = "idle" => write[u] = Buffer!Idle

\* The bytes that have been copied and that the count does not show yet.
PendingOf(u) == IF write[u].at \in {"load", "store"} THEN {u} \X (1 .. write[u].max) ELSE {}
Pending == UNION {PendingOf(u) : u \in Users}

\* The count, and what has been loaded of it, leaves room for them.
Counted ==
    /\ IsFiniteSet(Pending)
    /\ mybuf_count + Cardinality(Pending) <= Len(appended)
    /\ \A u \in Users : write[u].at = "store" => write[u].loaded + Cardinality(Pending) <= Len(appended)

\* The buffer holds what has been appended.
Filled ==
    /\ Len(appended) <= mybuf_size
    /\ \A i \in DOMAIN mybuf : mybuf[i] = IF i <= Len(appended) THEN appended[i] ELSE "unwritten"

\* The only write there is knows the count.
Counting(u) ==
    /\ write[u].at = "copy" => mybuf_count = Len(appended) /\ mybuf_count + write[u].max <= mybuf_size
    /\ write[u].at = "load" => mybuf_count + write[u].max = Len(appended)
    /\ write[u].at = "store" => /\ write[u].loaded = mybuf_count
                                /\ mybuf_count + write[u].max = Len(appended)

InSeries ==
    /\ \A u, v \in Users : write[u].at # "idle" /\ write[v].at # "idle" => u = v
    /\ Filled
    /\ \A u \in Users : Counting(u)
    /\ (\A u \in Users : write[u].at = "idle") => mybuf_count = Len(appended)

Appending == BufferTyped /\ Counted /\ (serial => InSeries)

\* A step of a write.
WriteStep(u) ==
    \/ \E count \in 1 .. mybuf_size : Buffer!BeginWrite(u, count)
    \/ Buffer!CopyIn(u) \/ Buffer!LoadCount(u) \/ Buffer!StoreCount(u)

\* Nobody but the writers and the loader changes the buffer.
LEMMA BufferSteps ==
    ASSUME [Next]_vars
    PROVE  \/ UNCHANGED buffer
           \/ Buffer!Load
           \/ \E u \in Users : WriteStep(u)
BY DEF Next, Vanish, User, Find, simple_open, Enter, Access, Skip, simple_release, AppendStep, KeepName,
       ReadWithoutMemory, ReadProc, ReadTextGone, ReadStale, Loader, Insert, Acquire, Fail,
       Inserted, Remove, Release, Return, Free, vars, handlers, WriteStep

\* A write begins with what fits behind the count.
LEMMA Begun ==
    ASSUME BufferTyped, NEW u \in Users, NEW count \in 1 .. mybuf_size, Buffer!BeginWrite(u, count)
    PROVE  \E max \in 1 .. mybuf_size :
               /\ mybuf_count + max <= mybuf_size
               /\ write[u].at = "idle"
               /\ write' = [write EXCEPT ![u] = [at |-> "copy", max |-> max, loaded |-> 0]]
               /\ serial' => serial /\ \A v \in Users : write[v].at = "idle"
               /\ serial' \in BOOLEAN
               /\ UNCHANGED <<mybuf_count, mybuf, appended>>
<1>. DEFINE room == mybuf_size - mybuf_count
            max == IF count > room THEN room ELSE count
<1>1. max > 0 /\ max \in Int /\ max <= count /\ max <= room
  BY ConstantsAssumption DEF BufferTyped, Buffer!BeginWrite
<1>2. max \in 1 .. mybuf_size /\ mybuf_count + max <= mybuf_size
  BY <1>1, ConstantsAssumption DEF BufferTyped
<1>3. /\ write[u].at = "idle"
      /\ write' = [write EXCEPT ![u] = [at |-> "copy", max |-> max, loaded |-> 0]]
      /\ serial' => serial /\ \A v \in Users : write[v].at = "idle"
      /\ serial' \in BOOLEAN
      /\ UNCHANGED <<mybuf_count, mybuf, appended>>
  BY DEF Buffer!BeginWrite, BufferTyped
<1>. HIDE DEF max
<1>. QED
  BY <1>2, <1>3

\* A copy puts the bytes behind the count, whatever it is.
LEMMA Copied ==
    ASSUME BufferTyped, NEW u \in Users, Buffer!CopyIn(u)
    PROVE  /\ write[u].at = "copy"
           /\ write' = [write EXCEPT ![u] = [at |-> "load", max |-> write[u].max, loaded |-> write[u].loaded]]
           /\ appended' \in Seq(Users)
           /\ Len(appended') = Len(appended) + write[u].max
           /\ \A i \in 1 .. Len(appended') :
                  appended'[i] = IF i <= Len(appended) THEN appended[i] ELSE u
           /\ DOMAIN mybuf' = DOMAIN mybuf
           /\ \A i \in DOMAIN mybuf :
                  mybuf'[i] = IF i - mybuf_count \in 1 .. write[u].max THEN u ELSE mybuf[i]
           /\ UNCHANGED <<mybuf_count, serial>>
<1>. DEFINE n == write[u].max
            s == [i \in 1 .. n |-> u]
<1>1. n \in Nat /\ appended \in Seq(Users) /\ write \in [Users -> [at : {"idle", "copy", "load", "store"}, max : 0 .. mybuf_size, loaded : Nat]]
  BY ConstantsAssumption DEF BufferTyped
<1>2. s \in Seq(Users) /\ Len(s) = n /\ \A i \in 1 .. n : s[i] = u
  BY <1>1
<1>3. appended' = appended \o s
  BY DEF Buffer!CopyIn
<1>4. /\ write[u].at = "copy"
      /\ DOMAIN mybuf' = DOMAIN mybuf
      /\ \A i \in DOMAIN mybuf :
             mybuf'[i] = IF i - mybuf_count \in 1 .. n THEN u ELSE mybuf[i]
      /\ UNCHANGED <<mybuf_count, serial>>
  BY DEF Buffer!CopyIn
<1>5. write' = [write EXCEPT ![u] = [at |-> "load", max |-> n, loaded |-> write[u].loaded]]
  <2>1. write' = [write EXCEPT ![u].at = "load"]
    BY DEF Buffer!CopyIn
  <2>2. write[u] \in [at : {"idle", "copy", "load", "store"}, max : 0 .. mybuf_size, loaded : Nat]
    BY <1>1
  <2>3. [write[u] EXCEPT !.at = "load"] = [at |-> "load", max |-> n, loaded |-> write[u].loaded]
    BY <2>2
  <2>. QED
    BY <2>1, <2>3
<1>6. /\ appended' \in Seq(Users) /\ Len(appended') = Len(appended) + n
      /\ \A i \in 1 .. Len(appended') : appended'[i] = IF i <= Len(appended) THEN appended[i] ELSE s[i - Len(appended)]
  <2>. HIDE DEF s, n
  <2>1. appended \o s \in Seq(Users) /\ Len(appended \o s) = Len(appended) + Len(s)
    BY <1>1, <1>2, ConcatProperties
  <2>2. \A i \in 1 .. Len(appended) + Len(s) : (appended \o s)[i] = IF i <= Len(appended) THEN appended[i] ELSE s[i - Len(appended)]
    BY <1>1, <1>2, ConcatProperties
  <2>. QED
    BY <1>2, <1>3, <2>1, <2>2
<1>7. ASSUME NEW i \in 1 .. Len(appended')
      PROVE  appended'[i] = IF i <= Len(appended) THEN appended[i] ELSE u
  <2>1. Len(appended) \in Nat
    BY <1>1
  <2>. HIDE DEF s, n
  <2>2. ~(i <= Len(appended)) => i - Len(appended) \in 1 .. n
    BY <1>1, <1>6, <2>1
  <2>. QED
    BY <1>2, <1>6, <2>2
<1>. HIDE DEF s
<1>. QED
  BY <1>4, <1>5, <1>6, <1>7

\* A copy adds its bytes to the pending ones, and the store of the count takes
\* them away.
LEMMA PendingOneUser ==
    ASSUME NEW u \in Users, NEW n \in Nat, \A v \in Users \ {u} : PendingOf(v)' = PendingOf(v)
    PROVE  /\ IsFiniteSet(Pending) /\ PendingOf(u) = {} /\ PendingOf(u)' = {u} \X (1 .. n) =>
                 IsFiniteSet(Pending') /\ Cardinality(Pending') = Cardinality(Pending) + n
           /\ IsFiniteSet(Pending) /\ PendingOf(u) = {u} \X (1 .. n) /\ PendingOf(u)' = {} =>
                 IsFiniteSet(Pending') /\ Cardinality(Pending') = Cardinality(Pending) - n
<1>. DEFINE T == {u} \X (1 .. n)
<1>1. IsFiniteSet(T) /\ Cardinality(T) = n
  <2>1. IsFiniteSet({u}) /\ Cardinality({u}) = 1
    BY FS_Singleton
  <2>2. IsFiniteSet(1 .. n) /\ Cardinality(1 .. n) = n
    BY FS_Interval
  <2>3. IsFiniteSet(T) /\ Cardinality(T) = Cardinality({u}) * Cardinality(1 .. n)
    BY <2>1, <2>2, FS_Product
  <2>. QED
    BY <2>1, <2>2, <2>3
<1>2. \A v \in Users \ {u} : PendingOf(v) \cap T = {}
  BY DEF PendingOf
<1>. HIDE DEF T
<1>3. ASSUME IsFiniteSet(Pending), PendingOf(u) = {}, PendingOf(u)' = T
      PROVE  IsFiniteSet(Pending') /\ Cardinality(Pending') = Cardinality(Pending) + n
  <2>1. Pending' = Pending \cup T
    BY <1>3 DEF Pending
  <2>2. Pending \cap T = {}
    BY <1>2, <1>3 DEF Pending
  <2>3. Cardinality({}) = 0 /\ Cardinality(Pending) \in Nat
    BY <1>3, FS_EmptySet, FS_CardinalityType
  <2>. QED
    BY <1>1, <1>3, <2>1, <2>2, <2>3, FS_Union
<1>4. ASSUME IsFiniteSet(Pending), PendingOf(u) = T, PendingOf(u)' = {}
      PROVE  IsFiniteSet(Pending') /\ Cardinality(Pending') = Cardinality(Pending) - n
  <2>1. Pending = Pending' \cup T
    BY <1>4 DEF Pending
  <2>2. Pending' \cap T = {}
    BY <1>2, <1>4 DEF Pending
  <2>3. IsFiniteSet(Pending')
    BY <1>4, <2>1, FS_Subset
  <2>4. Cardinality({}) = 0 /\ Cardinality(Pending') \in Nat
    BY <2>3, FS_EmptySet, FS_CardinalityType
  <2>5. Cardinality(Pending' \cup T) = Cardinality(Pending') + Cardinality(T) - Cardinality(Pending' \cap T)
    BY <1>1, <2>3, FS_Union
  <2>6. Cardinality(Pending' \cup T) = Cardinality(Pending)
    BY <2>1
  <2>7. Cardinality(Pending' \cap T) = 0
    BY <2>2, <2>4
  <2>. QED
    BY <1>1, <2>3, <2>4, <2>5, <2>6, <2>7
<1>. QED
  BY <1>3, <1>4 DEF T

\* A write begins.
LEMMA BeginAppending ==
    ASSUME Appending, NEW u \in Users, NEW count \in 1 .. mybuf_size, Buffer!BeginWrite(u, count)
    PROVE  Appending'
<1>1. BufferTyped
  BY DEF Appending
<1>2. PICK max \in 1 .. mybuf_size :
               /\ mybuf_count + max <= mybuf_size
               /\ write[u].at = "idle"
               /\ write' = [write EXCEPT ![u] = [at |-> "copy", max |-> max, loaded |-> 0]]
               /\ serial' => serial /\ \A v \in Users : write[v].at = "idle"
               /\ serial' \in BOOLEAN
               /\ UNCHANGED <<mybuf_count, mybuf, appended>>
  BY <1>1, Begun
<1>3. /\ write'[u] = [at |-> "copy", max |-> max, loaded |-> 0]
      /\ \A v \in Users \ {u} : write'[v] = write[v]
  BY <1>1, <1>2 DEF BufferTyped
<1>4. BufferTyped'
  <2>1. [at |-> "copy", max |-> max, loaded |-> 0]
           \in [at : {"idle", "copy", "load", "store"}, max : 0 .. mybuf_size, loaded : Nat]
    BY ConstantsAssumption
  <2>2. \A v \in Users : write'[v].at = "idle" => write'[v] = Buffer!Idle
    <3>1. write'[u].at # "idle"
      BY <1>3
    <3>2. \A v \in Users \ {u} : write'[v].at = "idle" => write'[v] = Buffer!Idle
      BY <1>1, <1>3 DEF BufferTyped
    <3>. QED
      BY <3>1, <3>2
  <2>. QED
    BY <1>1, <1>2, <2>1, <2>2 DEF BufferTyped
<1>5. Counted'
  <2>1. PendingOf(u)' = {} /\ PendingOf(u) = {}
    BY <1>2, <1>3 DEF PendingOf
  <2>2. Pending' = Pending
    <3>1. \A v \in Users \ {u} : PendingOf(v)' = PendingOf(v)
      BY <1>3 DEF PendingOf
    <3>. QED
      BY <2>1, <3>1 DEF Pending
  <2>3. \A v \in Users : write'[v].at = "store" => write[v].at = "store" /\ write'[v].loaded = write[v].loaded
    BY <1>3
  <2>. QED
    BY <1>2, <2>2, <2>3 DEF Appending, Counted
<1>6. ASSUME serial' PROVE InSeries'
  <2>1. InSeries /\ (\A v \in Users : write[v].at = "idle") /\ mybuf_count = Len(appended)
    BY <1>2, <1>6 DEF Appending, InSeries
  <2>2. \A v \in Users : write'[v].at # "idle" => v = u
    BY <1>3, <2>1
  <2>3. Filled'
    BY <1>2, <2>1 DEF InSeries, Filled
  <2>4. \A v \in Users : Counting(v)'
    BY <1>2, <1>3, <2>1, <2>2 DEF Counting
  <2>. QED
    BY <1>3, <2>2, <2>3, <2>4 DEF InSeries
<1>. QED
  BY <1>4, <1>5, <1>6 DEF Appending

\* The bytes are copied.
LEMMA CopyAppending ==
    ASSUME Appending, NEW u \in Users, Buffer!CopyIn(u)
    PROVE  Appending'
<1>. DEFINE n == write[u].max
<1>1. BufferTyped
  BY DEF Appending
<1>2. n \in Nat /\ n <= mybuf_size /\ Len(appended) \in Nat /\ mybuf_count \in Nat
      /\ write[u].loaded \in Nat /\ DOMAIN mybuf \subseteq Nat \ {0}
  BY <1>1, ConstantsAssumption DEF BufferTyped
<1>3. /\ write[u].at = "copy"
      /\ write' = [write EXCEPT ![u] = [at |-> "load", max |-> n, loaded |-> write[u].loaded]]
      /\ appended' \in Seq(Users)
      /\ Len(appended') = Len(appended) + n
      /\ \A i \in 1 .. Len(appended') :
             appended'[i] = IF i <= Len(appended) THEN appended[i] ELSE u
      /\ DOMAIN mybuf' = DOMAIN mybuf
      /\ \A i \in DOMAIN mybuf : mybuf'[i] = IF i - mybuf_count \in 1 .. n THEN u ELSE mybuf[i]
      /\ UNCHANGED <<mybuf_count, serial>>
  BY <1>1, Copied
<1>4. /\ write'[u] = [at |-> "load", max |-> n, loaded |-> write[u].loaded]
      /\ \A v \in Users \ {u} : write'[v] = write[v]
  BY <1>1, <1>3 DEF BufferTyped
<1>. HIDE DEF n
<1>5. BufferTyped'
  <2>1. [at |-> "load", max |-> n, loaded |-> write[u].loaded]
           \in [at : {"idle", "copy", "load", "store"}, max : 0 .. mybuf_size, loaded : Nat]
    BY <1>2, ConstantsAssumption
  <2>2. \A v \in Users : write'[v].at = "idle" => write'[v] = Buffer!Idle
    BY <1>1, <1>4 DEF BufferTyped
  <2>. QED
    BY <1>1, <1>3, <2>1, <2>2 DEF BufferTyped
<1>6. Counted'
  <2>1. PendingOf(u) = {} /\ PendingOf(u)' = {u} \X (1 .. n)
    BY <1>3, <1>4 DEF PendingOf
  <2>2. \A v \in Users \ {u} : PendingOf(v)' = PendingOf(v)
    BY <1>4 DEF PendingOf
  <2>3. IsFiniteSet(Pending') /\ Cardinality(Pending') = Cardinality(Pending) + n
    BY <1>2, <2>1, <2>2, PendingOneUser DEF Appending, Counted
  <2>4. Cardinality(Pending) \in Nat
    BY FS_CardinalityType DEF Appending, Counted
  <2>5. \A v \in Users : write'[v].at = "store" =>
            write[v].at = "store" /\ write'[v].loaded = write[v].loaded
    BY <1>4
  <2>6. \A v \in Users : write[v].loaded \in Nat
    BY <1>1 DEF BufferTyped
  <2>. QED
    BY <1>2, <1>3, <2>3, <2>4, <2>5, <2>6 DEF Appending, Counted
<1>7. ASSUME serial' PROVE InSeries'
  <2>1. InSeries /\ mybuf_count = Len(appended) /\ mybuf_count + n <= mybuf_size
    BY <1>3, <1>7 DEF Appending, InSeries, Counting, n
  <2>2. \A v \in Users : write'[v].at # "idle" <=> v = u
    BY <1>3, <1>4, <2>1 DEF InSeries
  <2>3. ASSUME NEW i \in DOMAIN mybuf'
        PROVE  mybuf'[i] = IF i <= Len(appended') THEN appended'[i] ELSE "unwritten"
    <3>1. i \in Nat \ {0} /\ mybuf[i] = IF i <= Len(appended) THEN appended[i] ELSE "unwritten"
      BY <1>2, <1>3, <2>1, <2>3 DEF InSeries, Filled
    <3>2. mybuf'[i] = IF i - Len(appended) \in 1 .. n THEN u ELSE mybuf[i]
      BY <1>3, <2>1, <2>3
    <3>. QED
      BY <1>2, <1>3, <3>1, <3>2
  <2>4. Filled'
    BY <1>2, <1>3, <2>1, <2>3 DEF Filled
  <2>5. \A v \in Users : Counting(v)'
    BY <1>2, <1>3, <1>4, <2>1, <2>2 DEF Counting
  <2>. QED
    BY <2>2, <2>4, <2>5 DEF InSeries
<1>. QED
  BY <1>5, <1>6, <1>7 DEF Appending

\* The count is loaded.
LEMMA LoadAppending ==
    ASSUME Appending, NEW u \in Users, Buffer!LoadCount(u)
    PROVE  Appending'
<1>. DEFINE n == write[u].max
<1>1. BufferTyped
  BY DEF Appending
<1>2. n \in Nat /\ n <= mybuf_size /\ Len(appended) \in Nat /\ mybuf_count \in Nat
  BY <1>1, ConstantsAssumption DEF BufferTyped
<1>3. /\ write[u].at = "load"
      /\ write' = [write EXCEPT ![u] = [at |-> "store", max |-> n, loaded |-> mybuf_count]]
      /\ UNCHANGED <<mybuf_count, mybuf, appended, serial>>
  <2>1. write' = [write EXCEPT ![u].at = "store", ![u].loaded = mybuf_count]
    BY DEF Buffer!LoadCount
  <2>2. write[u] \in [at : {"idle", "copy", "load", "store"}, max : 0 .. mybuf_size, loaded : Nat]
    BY <1>1 DEF BufferTyped
  <2>3. [write[u] EXCEPT !.at = "store"] = [at |-> "store", max |-> n, loaded |-> write[u].loaded]
    BY <2>2
  <2>4. [[at |-> "store", max |-> n, loaded |-> write[u].loaded] EXCEPT !.loaded = mybuf_count]
            = [at |-> "store", max |-> n, loaded |-> mybuf_count]
    OBVIOUS
  <2>5. write' = [write EXCEPT ![u] = [[write[u] EXCEPT !.at = "store"] EXCEPT !.loaded = mybuf_count]]
    BY <1>1, <2>1 DEF BufferTyped
  <2>. QED
    BY <2>3, <2>4, <2>5 DEF Buffer!LoadCount
<1>4. /\ write'[u] = [at |-> "store", max |-> n, loaded |-> mybuf_count]
      /\ \A v \in Users \ {u} : write'[v] = write[v]
  BY <1>1, <1>3 DEF BufferTyped
<1>. HIDE DEF n
<1>5. BufferTyped'
  <2>1. [at |-> "store", max |-> n, loaded |-> mybuf_count]
           \in [at : {"idle", "copy", "load", "store"}, max : 0 .. mybuf_size, loaded : Nat]
    BY <1>2, ConstantsAssumption
  <2>2. \A v \in Users : write'[v].at = "idle" => write'[v] = Buffer!Idle
    <3>1. write'[u].at # "idle"
      BY <1>4
    <3>2. \A v \in Users \ {u} : write'[v].at = "idle" => write'[v] = Buffer!Idle
      BY <1>1, <1>4 DEF BufferTyped
    <3>. QED
      BY <3>1, <3>2
  <2>. QED
    BY <1>1, <1>3, <2>1, <2>2 DEF BufferTyped
<1>6. Counted'
  <2>1. PendingOf(u)' = PendingOf(u)
    BY <1>3, <1>4 DEF PendingOf, n
  <2>2. Pending' = Pending
    <3>1. \A v \in Users \ {u} : PendingOf(v)' = PendingOf(v)
      BY <1>4 DEF PendingOf
    <3>. QED
      BY <2>1, <3>1 DEF Pending
  <2>3. \A v \in Users : write'[v].at = "store" =>
            \/ v = u /\ write'[v].loaded = mybuf_count
            \/ write[v].at = "store" /\ write'[v].loaded = write[v].loaded
    BY <1>4
  <2>. QED
    BY <1>3, <2>2, <2>3 DEF Appending, Counted
<1>7. ASSUME serial' PROVE InSeries'
  <2>1. InSeries
    BY <1>3, <1>7 DEF Appending
  <2>2. \A v \in Users : write'[v].at # "idle" <=> v = u
    BY <1>3, <1>4, <2>1 DEF InSeries
  <2>3. \A v \in Users : Counting(v)'
    BY <1>3, <1>4, <2>1, <2>2 DEF Counting, InSeries, n
  <2>. QED
    BY <1>3, <2>1, <2>2, <2>3 DEF InSeries, Filled
<1>. QED
  BY <1>5, <1>6, <1>7 DEF Appending

\* The count is stored.
LEMMA StoreAppending ==
    ASSUME Appending, NEW u \in Users, Buffer!StoreCount(u)
    PROVE  Appending'
<1>. DEFINE n == write[u].max
<1>1. BufferTyped
  BY DEF Appending
<1>2. n \in Nat /\ Len(appended) \in Nat /\ write[u].loaded \in Nat
  BY <1>1, ConstantsAssumption DEF BufferTyped
<1>3. /\ write[u].at = "store"
      /\ mybuf_count' = write[u].loaded + n
      /\ write' = [write EXCEPT ![u] = Buffer!Idle]
      /\ UNCHANGED <<mybuf, appended, serial>>
  BY DEF Buffer!StoreCount
<1>4. write'[u] = Buffer!Idle /\ \A v \in Users \ {u} : write'[v] = write[v]
  BY <1>1, <1>3 DEF BufferTyped
<1>. HIDE DEF n
<1>5. BufferTyped'
  <2>1. Buffer!Idle \in [at : {"idle", "copy", "load", "store"}, max : 0 .. mybuf_size, loaded : Nat]
    BY ConstantsAssumption DEF Buffer!Idle
  <2>2. \A v \in Users : write'[v].at = "idle" => write'[v] = Buffer!Idle
    BY <1>1, <1>4 DEF BufferTyped
  <2>. QED
    BY <1>1, <1>2, <1>3, <2>1, <2>2 DEF BufferTyped
<1>6. Counted'
  <2>1. PendingOf(u) = {u} \X (1 .. n) /\ PendingOf(u)' = {}
    BY <1>3, <1>4 DEF PendingOf, Buffer!Idle, n
  <2>2. \A v \in Users \ {u} : PendingOf(v)' = PendingOf(v)
    BY <1>4 DEF PendingOf
  <2>3. IsFiniteSet(Pending') /\ Cardinality(Pending') = Cardinality(Pending) - n
    BY <1>2, <2>1, <2>2, PendingOneUser DEF Appending, Counted
  <2>4. Cardinality(Pending) \in Nat
    BY FS_CardinalityType DEF Appending, Counted
  <2>5. \A v \in Users : write'[v].at = "store" =>
            write[v].at = "store" /\ write'[v].loaded = write[v].loaded
    BY <1>4 DEF Buffer!Idle
  <2>6. \A v \in Users : write[v].loaded \in Nat
    BY <1>1 DEF BufferTyped
  <2>. QED
    BY <1>2, <1>3, <2>3, <2>4, <2>5, <2>6 DEF Appending, Counted
<1>7. ASSUME serial' PROVE InSeries'
  <2>1. InSeries /\ mybuf_count' = Len(appended)
    BY <1>3, <1>7 DEF Appending, InSeries, Counting, n
  <2>2. \A v \in Users : write'[v].at = "idle"
    BY <1>3, <1>4, <2>1 DEF InSeries, Buffer!Idle
  <2>3. \A v \in Users : Counting(v)'
    BY <2>2 DEF Counting
  <2>. QED
    BY <1>3, <2>1, <2>2, <2>3 DEF InSeries, Filled
<1>. QED
  BY <1>5, <1>6, <1>7 DEF Appending

\* A buffer that has just been set up is as it should be.
LEMMA EmptyAppending ==
    /\ Buffer!Init => Appending
    /\ Buffer!Load => Appending'
<1>1. Buffer!Idle \in [at : {"idle", "copy", "load", "store"}, max : 0 .. mybuf_size, loaded : Nat]
      /\ Buffer!Idle.at = "idle"
  BY ConstantsAssumption DEF Buffer!Idle
<1>2. DOMAIN Buffer!Unwritten \subseteq Nat \ {0} /\ \A i \in DOMAIN Buffer!Unwritten : Buffer!Unwritten[i] = "unwritten"
  BY DEF Buffer!Unwritten
<1>3. <<>> \in Seq(Users) /\ Len(<<>>) = 0
  OBVIOUS
<1>4. IsFiniteSet({}) /\ Cardinality({}) = 0
  BY FS_EmptySet
<1>5. ASSUME Buffer!Init PROVE Appending
  <2>1. BufferTyped /\ \A u \in Users : write[u].at = "idle"
    BY <1>1, <1>2, <1>3, <1>5 DEF Buffer!Init, BufferTyped
  <2>2. Pending = {}
    BY <2>1 DEF Pending, PendingOf
  <2>3. Counted
    BY <1>3, <1>4, <1>5, <2>1, <2>2 DEF Counted, Buffer!Init
  <2>4. Filled
    BY <1>2, <1>3, <1>5, ConstantsAssumption DEF Filled, Buffer!Init
  <2>. QED
    BY <1>3, <1>5, <2>1, <2>3, <2>4 DEF Appending, InSeries, Counting, Buffer!Init
<1>6. ASSUME Buffer!Load PROVE Appending'
  <2>1. BufferTyped' /\ \A u \in Users : write'[u].at = "idle"
    BY <1>1, <1>2, <1>3, <1>6 DEF Buffer!Load, BufferTyped
  <2>2. Pending' = {}
    BY <2>1 DEF Pending, PendingOf
  <2>3. Counted'
    BY <1>3, <1>4, <1>6, <2>1, <2>2 DEF Counted, Buffer!Load
  <2>4. Filled'
    BY <1>2, <1>3, <1>6, ConstantsAssumption DEF Filled, Buffer!Load
  <2>. QED
    BY <1>3, <1>6, <2>1, <2>3, <2>4 DEF Appending, InSeries, Counting, Buffer!Load
<1>. QED
  BY <1>5, <1>6

\* The appending goes on as it should after any step.
LEMMA NextAppending ==
    ASSUME Appending, [Next]_vars
    PROVE  Appending'
<1>1. CASE UNCHANGED buffer
  BY <1>1 DEF buffer, Appending, BufferTyped, Counted, Pending, PendingOf, InSeries, Filled, Counting
<1>2. ASSUME NEW u \in Users, WriteStep(u) PROVE Appending'
  BY <1>2, BeginAppending, CopyAppending, LoadAppending, StoreAppending DEF WriteStep
<1>. QED
  BY <1>1, <1>2, EmptyAppending, BufferSteps

\* lab02/ex1 removes its /proc file before it frees its buffer.
Unwound ==
    \/ todo \in {<<"chrdev", "proc", "mybuf">>, <<"proc", "mybuf">>, <<>>}
    \/ todo = <<"mybuf">> /\ "proc" \notin held

\* A text that the /proc file of lab02/ex1 shows is there.
Backed ==
    Has("appends") =>
        /\ loader = "out" => mybuf_count = 0
        /\ mybuf_count > 0 /\ "proc" \in held => "mybuf" \in held
        /\ loader \in {"fail", "exit"} => Unwound

\* The text grows only while the buffer is there.
LEMMA CountSteps ==
    ASSUME [Next]_vars
    PROVE  \/ UNCHANGED mybuf_count
           \/ mybuf_count' = 0
           \/ \E u \in Users : DataPresent(u) /\ UNCHANGED module
BY DEF Next, Vanish, User, Find, simple_open, Enter, Access, Skip, simple_release, AppendStep, KeepName,
       ReadWithoutMemory, ReadProc, ReadTextGone, ReadStale, Loader, Insert, Acquire, Fail,
       Inserted, Remove, Release, Return, Free, vars, handlers, buffer, Buffer!Load

\* The loader of lab02/ex1 releases the file and the buffer in their order.
LEMMA LoaderBacked ==
    ASSUME Lifecycle, Backed, Loader, [Next]_vars, Has("appends"), recipe = lab02_ex1
    PROVE  Backed'
<1>. USE AppendRecipe
<1>1. CASE Insert
  BY <1>1 DEF Insert, Backed, buffer
<1>2. CASE Acquire
  <2>1. "proc" \in held' => "proc" \in held
    BY <1>2, FileCreated DEF Acquire, Insert
  <2>. QED
    BY <1>2, <2>1 DEF Acquire, Backed, handlers, buffer
<1>3. CASE Fail
  <2>1. Head(todo) \in {"chrdev", "mybuf"}
    <3>1. /\ Len(todo) \in Nat /\ Len(todo) > 0 /\ Head(todo) = todo[1] /\ 1 \in 1 .. Len(todo)
      BY <1>3, RecipeFacts, ListElements DEF Fail
    <3>2. Acquiring /\ Len(recipe.acquires) \in Nat
      BY <1>3, RecipeFacts DEF Lifecycle, Fail
    <3>3. Acquired + 1 \in 1 .. Len(recipe.acquires) /\ Head(todo) = recipe.acquires[Acquired + 1]
      BY <3>1, <3>2 DEF Acquiring, Acquired
    <3>4. Len(recipe.acquires) = 2 /\ recipe.acquires[1] = "chrdev" /\ recipe.acquires[2] = "mybuf"
      OBVIOUS
    <3>5. \A i \in 1 .. 2 : i = 1 \/ i = 2
      OBVIOUS
    <3>. QED
      BY <3>3, <3>4, <3>5
  <2>2. Unwound'
    BY <1>3, <2>1 DEF Fail, Unwound
  <2>. QED
    BY <1>3, <2>2 DEF Fail, Backed, handlers, buffer
<1>4. CASE Inserted
  BY <1>4 DEF Inserted, Backed, handlers, buffer
<1>5. CASE Remove
  BY <1>5 DEF Remove, Backed, Unwound, handlers, buffer
<1>6. CASE Release
  <2>1. Unwound /\ todo # <<>>
    BY <1>6 DEF Release, Backed
  <2>2. CASE todo = <<"chrdev", "proc", "mybuf">>
    <3>1. todo' = <<"proc", "mybuf">> /\ held' = held \ {"chrdev"}
      BY <1>6, <2>2 DEF Release
    <3>. QED
      BY <1>6, <3>1 DEF Release, Backed, Unwound, buffer
  <2>3. CASE todo = <<"proc", "mybuf">>
    <3>1. todo' = <<"mybuf">> /\ held' = held \ {"proc"}
      BY <1>6, <2>3 DEF Release
    <3>. QED
      BY <1>6, <3>1 DEF Release, Backed, Unwound, buffer
  <2>4. CASE todo = <<"mybuf">> /\ "proc" \notin held
    <3>1. todo' = <<>> /\ held' = held \ {"mybuf"}
      BY <1>6, <2>4 DEF Release
    <3>. QED
      BY <1>6, <2>4, <3>1 DEF Release, Backed, Unwound, buffer
  <2>. QED
    BY <2>1, <2>2, <2>3, <2>4 DEF Unwound
<1>7. CASE Return
  BY <1>7 DEF Return, Free, Backed, Buffer!Load
<1>. QED
  BY <1>1, <1>2, <1>3, <1>4, <1>5, <1>6, <1>7 DEF Loader

\* The text is there after any step.
LEMMA NextBacked ==
    ASSUME Lifecycle, Backed, [Next]_vars
    PROVE  Backed'
<1>1. recipe' = recipe
  BY NameSteps
<1>2. SUFFICES ASSUME Has("appends") PROVE Backed'
  BY <1>1 DEF Backed, Has
<1>3. recipe = lab02_ex1
  BY <1>2, Traits DEF Lifecycle, ModuleTyped, Has
<1>4. ASSUME NEW u \in Users, ReadWithoutMemory(u) PROVE FALSE
  BY <1>3, <1>4, AppendRecipe DEF ReadWithoutMemory, Has
<1>5. CASE UNCHANGED module
  <2>1. UNCHANGED <<loader, todo, held>>
    BY <1>5 DEF module
  <2>2. CASE UNCHANGED mybuf_count \/ mybuf_count' = 0
    BY <1>1, <1>2, <2>1, <2>2 DEF Backed, Unwound, Has
  <2>3. ASSUME NEW u \in Users, DataPresent(u) PROVE Backed'
    <3>1. Range(recipe.acquires) = {"chrdev", "mybuf"}
      BY <1>3, AppendRecipe, Tuples
    <3>2. loader # "out" /\ "mybuf" \in held
      BY <2>3, <3>1 DEF DataPresent, CodePresent
    <3>. QED
      BY <1>2, <2>1, <3>2 DEF Backed, Unwound
  <2>. QED
    BY <2>2, <2>3, CountSteps
<1>. QED
  BY <1>2, <1>3, <1>4, <1>5, LoaderBacked, ModuleSteps

------------------------------------------------------------------------------
(* The theorems.                                                           *)

IInv == Lifecycle /\ Naming /\ Using /\ Reading /\ Serving /\ Appending /\ Backed

\* A reader is lost only where its text is not kept.
LEMMA ReadersLostUnkept ==
    ASSUME IInv, ~Exempt, [Next]_vars, NEW r \in Readers, r \in lost' \ lost
    PROVE  "proc" \in stale' \/ (recipe = lab03_zad3 /\ freed)
<1>. USE DEF IInv
<1>1. CASE Return /\ pc[r] \in {"text", "end"}
  BY <1>1 DEF Reading, Return, Free
<1>2. CASE ReadStale(r)
  BY <1>2 DEF ReadStale, module
<1>3. CASE ReadTextGone(r)
  <2>1. "proc" \in held /\ ~TextPresent
    BY <1>3 DEF Reading, ReadTextGone
  <2>2. NamePresent
    BY NameThere
  <2>3. Has("appends") /\ mybuf_count > 0 => "mybuf" \in held
    BY <2>1 DEF Backed
  <2>4. Has("shows") => recipe = lab03_zad3
    BY Traits DEF Lifecycle, ModuleTyped, Has
  <2>. QED
    BY <2>1, <2>2, <2>3, <2>4 DEF TextPresent
<1>. QED
  BY <1>1, <1>2, <1>3, ReadersLost

\* Nothing is shown at the beginning.
LEMMA InitBacked == ASSUME Init PROVE Backed
BY DEF Init, Backed, Buffer!Init

\* The invariant holds at the beginning.
LEMMA InitIInv == Init => IInv
<1>. SUFFICES ASSUME Init PROVE IInv
  OBVIOUS
<1>1. Naming
  BY DEF Init, Naming
<1>2. Using
  BY ConstantsAssumption DEF Init, Using, UsersTyped, Secured
<1>3. Reading
  <2>1. Proc!TypeOK
    <3>1. 0 \in 0 .. MAX_OPENINGS
      BY ConstantsAssumption
    <3>. QED
      BY <3>1 DEF Init, Proc!Init, Proc!TypeOK
  <2>2. lost = {} /\ \A r \in Readers : pc[r] = "closed"
    BY DEF Init, Proc!Init
  <2>. QED
    BY <2>1, <2>2 DEF Reading
<1>4. Serving
  <2>1. held = {} /\ \A r \in Readers : pc[r] = "closed" /\ texts[r] = 0 /\ endings[r] = 0
    BY DEF Init, Proc!Init
  <2>2. ASSUME NEW r \in Readers PROVE Expecting(r)
    <3>1. pc[r] = "closed" /\ texts[r] = 0 /\ endings[r] = 0
      BY <2>1
    <3>2. texts[r] <= 1 + endings[r]
      BY <3>1
    <3>. QED
      BY <3>1, <3>2 DEF Expecting
  <2>3. Proc!OneTextEach
    BY <2>1 DEF Proc!OneTextEach
  <2>. QED
    BY <2>1, <2>2, <2>3 DEF Serving
<1>. QED
  BY <1>1, <1>2, <1>3, <1>4, InitLifecycle, InitBacked, EmptyAppending DEF Init, IInv

\* The invariant is kept by every step: the modules of lab02 and lab03 follow
\* their recipes, whatever fails and whoever uses the device and the file.
THEOREM Invariance == Spec => []IInv
<1>1. IInv /\ [Next]_vars => IInv'
  BY NextLifecycle, NextNaming, NextUsing, NextReading, NextServing, NextAppending,
     NextBacked DEF IInv
<1>. QED
  BY <1>1, InitIInv, PTL DEF Spec

\* Type correctness; a module that is inserted holds all its recipe acquires.
THEOREM TypeCorrect == Spec => []TypeOK
<1>1. IInv => TypeOK
  BY DEF IInv, Lifecycle, ModuleTyped, Running, Using, UsersTyped, Reading, TypeOK
<1>. QED
  BY <1>1, Invariance, PTL

\* simple_open with try_module_get: whoever has run it before the removal begins
\* can use the module until it closes the device, if init has succeeded; and a
\* reader of the /proc file is lost only by an entry left behind, or with lab03/zad3
\* by the buffer that has been freed.  ex2 is the exception once the task is gone
\* whose name it keeps.
THEOREM OnlyUnkeptAreLost == Spec => LostOnlyUnkept
<1>. DEFINE Unkept ==
                ~(recipe = lab02_ex2 /\ ~alive) =>
                    /\ \A u \in Users \cap (lost' \ lost) :
                           Has("reference") => late'[u] \/ since[u] \notin complete
                    /\ \A r \in Readers \cap (lost' \ lost) :
                           "proc" \in stale' \/ (recipe = lab03_zad3 /\ freed)
<1>1. IInv /\ [Next]_vars => [Unkept]_vars
  <2>1. SUFFICES ASSUME IInv, [Next]_vars, ~Exempt PROVE Unkept
    BY DEF Exempt
  <2>2. ASSUME NEW u \in Users \cap (lost' \ lost), Has("reference")
        PROVE  late'[u] \/ since[u] \notin complete
    BY <2>1, <2>2, UsersLost DEF IInv
  <2>3. ASSUME NEW r \in Readers \cap (lost' \ lost)
        PROVE  "proc" \in stale' \/ (recipe = lab03_zad3 /\ freed)
    BY <2>1, <2>3, ReadersLostUnkept
  <2>. QED
    BY <2>2, <2>3
<1>. QED
  BY <1>1, Invariance, PTL DEF Spec, LostOnlyUnkept

\* The error paths of simple_init, and simple_exit, leave nothing behind but
\* the /proc entry of lab03, or of a module whose register_chrdev has failed.
THEOREM AllIsReleased == Spec => []FailureReleasesAll
<1>1. IInv => FailureReleasesAll
  BY DEF IInv, Lifecycle, FailureReleasesAll
<1>. QED
  BY <1>1, Invariance, PTL

\* simple_read_proc hands out its text once to each reader as long as the
\* readings follow each other, and again only if others have taken the end.
THEOREM TextIsServed == Spec => []TextServed
<1>1. IInv => TextServed
  BY DEF IInv, Serving, Expecting, TextServed, Proc!RepeatsNeedEndings
<1>. QED
  BY <1>1, Invariance, PTL

\* simple_write of lab02/ex1 without a lock: the count never exceeds what has
\* been appended, and writes one after the other leave exactly their bytes.
THEOREM AppendsAreKept == Spec => []AppendsKept
<1>1. ASSUME IInv PROVE AppendsKept
  <2>1. Appending /\ BufferTyped /\ Counted /\ (serial => InSeries)
    BY <1>1 DEF IInv, Appending
  <2>2. mybuf_count <= Len(appended)
    <3>1. Cardinality(Pending) \in Nat
      BY <2>1, FS_CardinalityType DEF Counted
    <3>. QED
      BY <2>1, <3>1 DEF BufferTyped, Counted
  <2>3. (\A u \in Users : write[u] = Buffer!Idle) => \A u \in Users : write[u].at = "idle"
    BY DEF Buffer!Idle
  <2>. QED
    BY <2>1, <2>2, <2>3 DEF AppendsKept, Buffer!AppendsKept, InSeries, Filled
<1>. QED
  BY <1>1, Invariance, PTL
=============================================================================
