---------------------------- MODULE TargetsProofs ----------------------------
(***************************************************************************)
(* Proofs about Targets, for any calls: locators with any number of        *)
(* fields, and any parameters beside them.                                 *)
(***************************************************************************)
EXTENDS Targets, FiniteSetTheorems, TLAPS

\* What the places of the driver say of the call.
Places ==
    /\ pc \notin {"call", "done"} => Accepts(call)
    /\ pc \in {"press_key", "swipe"} => call.action = pc
    /\ pc \in {"find", "act"} =>
          call.action \notin {"press_key", "swipe", "assert_not_visible"}
    /\ pc = "gone" => call.action \in {"assert_not_visible", "wait_for"}
    /\ pc = "sleep" => call.action = "wait_for"
    /\ pc = "act" => call.action \notin {"assert_visible", "wait_for", "assert_text",
                                         "assert_state"}
    /\ pc = "read" => call.action \in {"assert_text", "assert_state"}
    /\ pc \notin {"act", "done"} => used = {}

\* Only a call that was refused, or half a swipe, is badly configured.
Configured ==
    pc = "done" /\ Accepts(call) /\ result = "configuration_error" => HalfPoints(call)

\* What a driver does of an accepted call when its step passes.
Carries(c, d) ==
    CASE c.action = "select_option" -> d = {Option(c)}
      [] c.action = "wait_for" -> d = Waited(c)
      [] c.action = "press_key" -> d = {"key"}
      [] c.action = "swipe" -> IF Has(c, "start") /\ Has(c, "end") THEN d = {"start", "end"}
                               ELSE d = {"direction"} /\ ~Has(c, "start") /\ ~Has(c, "end")
      [] c.action \in {"assert_text", "assert_state"} ->
            IF Has(c, "contains") \/ Has(c, "equals")
            THEN \E p \in {"contains", "equals"} : Has(c, p) /\ d = {p}
            ELSE d = DOMAIN c.locator \cap {"state"}
      [] OTHER -> d = {}

Carried ==
    (pc = "done" /\ result = "none") \/ (pc = "act" /\ used # {}) => Carries(call, did)

IInv ==
    /\ TypeOK
    /\ IsFiniteSet(used)
    /\ Places
    /\ Configured
    /\ Carried
    /\ used \subseteq Matching(call)

------------------------------------------------------------------------------
(* Facts about single calls.                                                *)

\* A target, or a locator with a value, is there.
LEMMA TargetIsThere ==
    ASSUME NEW c, IsCall(c), _has_target_value(c)
    PROVE  Gives(c, "target") \/ Has(c, "locator")
  BY DEF IsCall, _has_target_value, has_value, GivenFields, Has

\* The option that is selected is the one that is given, unless a part is dropped.
LEMMA OptionIsAsked ==
    ASSUME NEW c, IsCall(c), c.platform = "web", c.action = "select_option", Accepts(c)
    PROVE  {Option(c)} = Asked(c) <=> ~Partly(c)
  <1> DEFINE O == {"values", "value", "label", "index"}
  <1>1. Asked(c) = {p \in {"values", "value", "label"} : Gives(c, p)}
                   \cup (DOMAIN c.params \cap {"index"})
    BY DEF Asked
  <1>2. Asked(c) \subseteq O /\ Asked(c) # {} /\ "target" \notin Asked(c) /\ "hidden" \notin Asked(c)
        /\ \A p \in Asked(c) : Has(c, p)
        /\ ("index" \in Asked(c) <=> Has(c, "index"))
    BY <1>1 DEF Accepts, WebAccepts, Gives, Has
  <1>3. \A p \in O : Hollow(c, p) <=> p \notin Asked(c) /\ Has(c, p)
    BY DEF Hollow
  <1>4. Partly(c) <=> \/ \E p \in Asked(c), q \in Asked(c) : p # q
                      \/ \E q \in O : Hollow(c, q) /\ \A p \in Asked(c) : q \in Sooner(p)
    <2>1. Alternatives(c) = O
      BY DEF Alternatives
    <2>2. Asked(c) \cap O = Asked(c)
      BY <1>2
    <2> QED
      BY <2>1, <2>2, <1>2 DEF Partly
  <1>5. /\ Sooner("values") = {} /\ Sooner("value") = {"values"}
        /\ Sooner("label") = {"values", "value"} /\ Sooner("index") = {"values", "value", "label"}
    BY DEF Sooner
  <1>6. Option(c) \in O /\ Has(c, Option(c)) /\ \A q \in Sooner(Option(c)) : ~Has(c, q)
    BY <1>2, <1>5 DEF Option
  <1>7. \A p \in O : Has(c, p) => p = Option(c) \/ Option(c) \in Sooner(p)
    BY <1>5 DEF Option
  <1>8. CASE {Option(c)} = Asked(c)
    <2>1. \A q \in O : Hollow(c, q) => q \notin Sooner(Option(c))
      BY <1>3, <1>6
    <2> QED
      BY <1>4, <1>8, <2>1
  <1>9. CASE {Option(c)} # Asked(c)
    <2>1. CASE Option(c) \in Asked(c)
      BY <1>4, <1>9, <2>1
    <2>2. CASE Option(c) \notin Asked(c)
      <3>1. Hollow(c, Option(c))
        BY <1>3, <1>6, <2>2
      <3>2. \A p \in Asked(c) : Option(c) \in Sooner(p)
        BY <1>2, <1>7, <2>2
      <3> QED
        BY <1>4, <1>6, <3>1, <3>2
    <2> QED
      BY <2>1, <2>2
  <1> QED
    BY <1>8, <1>9

\* A waitFor takes the one condition that is given, in its state, unless a part
\* is dropped.
LEMMA WaitIsAsked ==
    ASSUME NEW c, IsCall(c), c.platform = "web", c.action = "wait_for", Accepts(c)
    PROVE  Waited(c) = Asked(c) <=> ~Partly(c)
  <1> DEFINE C == {"target", "text", "url"}
             one == Asked(c) \cap C
             Seen(p) == p \in Asked(c) \/ Hollow(c, p)
  <1>1. /\ Asked(c) \subseteq C \cup {"hidden", "timeout_ms"}
        /\ "target" \in Asked(c) <=> _has_target_value(c)
        /\ \A p \in {"text", "url"} : p \in Asked(c) <=> Gives(c, p)
        /\ \A p \in {"hidden", "timeout_ms"} : p \in Asked(c) <=> Has(c, p)
    BY DEF Asked, Has
  <1>2. /\ Seen("target") <=> Has(c, "locator") \/ (Has(c, "target") /\ c.params["target"] # "empty")
        /\ \A p \in {"text", "url"} : Seen(p) <=> Has(c, p) /\ c.params[p] # "empty"
    BY <1>1, TargetIsThere DEF Hollow, Gives
  <1>3. Awaited(c) = IF Seen("target") THEN "target" ELSE IF Seen("text") THEN "text"
                     ELSE IF Seen("url") THEN "url" ELSE "timeout_ms"
    BY <1>2 DEF Awaited
  <1>4. one # {} \/ "timeout_ms" \in Asked(c)
    BY <1>1 DEF Accepts, WebAccepts
  <1>5. Waited(c) = {Awaited(c)} \cup (Asked(c) \cap {"timeout_ms"})
                    \cup (IF "hidden" \in Asked(c) /\ Awaited(c) = "target" THEN {"hidden"} ELSE {})
    BY <1>1 DEF Waited, AwaitsGone, Has
  <1>6. Partly(c) <=> \/ \E p \in one, q \in one : p # q
                      \/ \E q \in C : Hollow(c, q) /\ \A p \in one : q \in Sooner(p)
                      \/ "hidden" \in Asked(c) /\ "target" \notin Asked(c)
    BY DEF Partly, Alternatives
  <1>7. Sooner("target") = {} /\ Sooner("text") = {"target"} /\ Sooner("url") = {"target", "text"}
    BY DEF Sooner
  <1>8. \A p \in C : Hollow(c, p) => p \notin Asked(c)
    BY DEF Hollow
  <1> HIDE DEF Seen
  <1>9. CASE one = {}
    <2>1. (\A q \in C : ~Seen(q)) <=> Awaited(c) = "timeout_ms"
      BY <1>3
    <2>2. \A q \in C : Seen(q) <=> Hollow(c, q)
      BY <1>8, <1>9 DEF Seen
    <2>3. "target" \notin Asked(c) /\ "timeout_ms" \in Asked(c)
          /\ Asked(c) \subseteq {"hidden", "timeout_ms"}
      BY <1>1, <1>4, <1>9
    <2>4. Partly(c) <=> Awaited(c) # "timeout_ms" \/ "hidden" \in Asked(c)
      BY <1>6, <1>9, <2>1, <2>2, <2>3
    <2>5. CASE Awaited(c) = "timeout_ms"
      BY <1>5, <2>3, <2>4, <2>5
    <2>6. CASE Awaited(c) # "timeout_ms"
      <3>1. Awaited(c) \in C
        BY <1>3, <2>6
      <3> QED
        BY <1>5, <2>3, <2>4, <2>6, <3>1
    <2> QED
      BY <2>5, <2>6
  <1>10. CASE one # {}
    <2>1. \A p \in one : Seen(p)
      BY DEF Seen
    <2>2. Awaited(c) \in C /\ Seen(Awaited(c)) /\ \A q \in Sooner(Awaited(c)) : ~Seen(q)
      BY <1>3, <1>7, <1>10, <2>1
    <2>3. \A p \in C : Seen(p) => p = Awaited(c) \/ Awaited(c) \in Sooner(p)
      BY <1>3, <1>7
    <2>4. (Waited(c) = Asked(c)) <=> one = {Awaited(c)}
                                     /\ ("hidden" \in Asked(c) => Awaited(c) = "target")
      BY <1>1, <1>5, <2>2
    <2>5. CASE one = {Awaited(c)}
      <3>1. \A q \in C : Hollow(c, q) => q \notin Sooner(Awaited(c))
        BY <2>2 DEF Seen
      <3>2. Partly(c) <=> "hidden" \in Asked(c) /\ "target" \notin Asked(c)
        BY <1>6, <2>5, <3>1
      <3>3. "target" \in Asked(c) <=> Awaited(c) = "target"
        BY <2>5
      <3> QED
        BY <2>4, <2>5, <3>2, <3>3
    <2>6. CASE one # {Awaited(c)}
      <3>1. CASE Awaited(c) \in one
        BY <1>6, <1>10, <2>4, <2>6, <3>1
      <3>2. CASE Awaited(c) \notin one
        <4>1. Hollow(c, Awaited(c))
          BY <2>2, <3>2 DEF Seen
        <4>2. \A p \in one : Awaited(c) \in Sooner(p)
          BY <2>1, <2>3, <3>2
        <4> QED
          BY <1>6, <2>2, <2>4, <2>6, <4>1, <4>2
      <3> QED
        BY <3>1, <3>2
    <2> QED
      BY <2>5, <2>6
  <1> QED
    BY <1>9, <1>10
\* The other actions do what is asked, but for what Partly lists.
LEMMA CarriedIsAsked ==
    ASSUME NEW c, IsCall(c), Accepts(c), NEW d, Carries(c, d)
    PROVE  (d = Asked(c) <=> ~Partly(c)) /\ ~HalfPoints(c)
  <1>1. c.action \in {"select_option", "wait_for", "assert_text"} => c.platform = "web"
    BY DEF IsCall, AndroidAction, WindowsAction
  <1>2. CASE c.action = "select_option"
    BY <1>1, <1>2, OptionIsAsked DEF Carries, HalfPoints
  <1>3. CASE c.action = "wait_for"
    BY <1>1, <1>3, WaitIsAsked DEF Carries, HalfPoints
  <1>4. CASE c.action \in {"assert_text", "assert_state"}
    <2> DEFINE T == {"contains", "equals"}
    <2>1. /\ Asked(c) = (DOMAIN c.params \cap T) \cup (DOMAIN c.locator \cap {"state"})
          /\ Partly(c) <=> \E p \in Asked(c), q \in Asked(c) : p # q
          /\ ~HalfPoints(c)
      BY <1>4 DEF Asked, Partly, HalfPoints
    <2>2. CASE Has(c, "contains") \/ Has(c, "equals")
      <3>1. PICK p \in T : Has(c, p) /\ d = {p}
        BY <1>4, <2>2 DEF Carries
      <3>2. p \in Asked(c)
        BY <2>1, <3>1 DEF Has
      <3> QED
        BY <2>1, <3>1, <3>2
    <2>3. CASE ~Has(c, "contains") /\ ~Has(c, "equals")
      <3>1. Asked(c) = DOMAIN c.locator \cap {"state"}
        BY <2>1, <2>3 DEF Has
      <3>2. d = Asked(c)
        BY <1>4, <2>3, <3>1 DEF Carries
      <3> QED
        BY <2>1, <3>1, <3>2
    <2> QED
      BY <2>2, <2>3
  <1>5. CASE c.action = "swipe"
    <2>1. Asked(c) = DOMAIN c.params \cap {"direction", "start", "end"}
      BY <1>5 DEF Asked
    <2>2. Partly(c) <=> Has(c, "direction") /\ (Has(c, "start") \/ Has(c, "end"))
      BY <1>5 DEF Partly
    <2>3. Has(c, "direction") \/ (Has(c, "start") /\ Has(c, "end"))
      BY <1>5 DEF IsCall, WebAction, WindowsAction, Accepts, AndroidAccepts,
         _require_direction_or_points
    <2>4. IF Has(c, "start") /\ Has(c, "end") THEN d = {"start", "end"}
          ELSE d = {"direction"} /\ ~Has(c, "start") /\ ~Has(c, "end")
      BY <1>5 DEF Carries
    <2> QED
      BY <2>1, <2>2, <2>3, <2>4 DEF Has, HalfPoints
  <1>6. CASE c.action \notin {"select_option", "wait_for", "assert_text", "assert_state", "swipe"}
    <2>1. Asked(c) = (IF c.action = "press_key" THEN {"key"} ELSE {}) /\ d = Asked(c)
      BY <1>6 DEF Asked, Carries
    <2>2. Partly(c) <=> \E p \in Asked(c), q \in Asked(c) : p # q
      BY <1>6 DEF Partly
    <2> QED
      BY <1>6, <2>1, <2>2 DEF HalfPoints
  <1> QED
    BY <1>2, <1>3, <1>4, <1>5, <1>6

\* Of the fields a Web locator gives beside role and name, one comes first.
LEMMA FirstField ==
    ASSUME NEW F, F \subseteq WebLocator, "role" \notin F, F \ {"name"} # {}
    PROVE  \E f \in F \ {"name"} : Before(f) \cap F = {}
  <1> USE DEF Before, WebLocator
  <1>1. CASE "text" \in F
    BY <1>1
  <1>2. CASE "text" \notin F /\ "label" \in F
    BY <1>2
  <1>3. CASE {"text", "label"} \cap F = {} /\ "placeholder" \in F
    BY <1>3
  <1>4. CASE {"text", "label", "placeholder"} \cap F = {} /\ "testId" \in F
    BY <1>4
  <1>5. CASE {"text", "label", "placeholder", "testId"} \cap F = {} /\ "altText" \in F
    BY <1>5
  <1>6. CASE {"text", "label", "placeholder", "testId", "altText"} \cap F = {}
             /\ "title" \in F
    BY <1>6
  <1>7. CASE {"text", "label", "placeholder", "testId", "altText", "title"} \cap F = {}
             /\ "css" \in F
    BY <1>7
  <1>8. CASE {"text", "label", "placeholder", "testId", "altText", "title", "css"} \cap F = {}
    BY <1>8
  <1> QED
    BY <1>1, <1>2, <1>3, <1>4, <1>5, <1>6, <1>7, <1>8

\* Every driver asks for a name the call gave, unless the call is one that
\* strays; then it asks for none.
LEMMA QueryIsNamed ==
    ASSUME NEW c, IsCall(c), Accepts(c), NamesTarget(c)
    PROVE  IF Strays(c) THEN Query(c) \cap Named(c) = {} ELSE Query(c) \cap Named(c) # {}
  <1> DEFINE Given == GivenFields(c)
  <1>1. CASE c.platform = "android"
    <2>1. /\ c.action # "wait_for" /\ Query(c) = _selector(c)
          /\ Named(c) = (Given \ {"state"}) \cup TargetText(c)
      BY <1>1 DEF IsCall, AndroidAction, Query, Named
    <2>2. Strays(c) <=> IF "xpath" \in DOMAIN c.locator THEN c.locator["xpath"] # "given"
                        ELSE ~has_value(c) /\ (DOMAIN c.locator \subseteq {"state"}
                                                  => ~Gives(c, "target"))
      BY <1>1 DEF Strays
    <2>3. has_value(c) <=> Given \cap AndroidLocator # {}
      BY <1>1 DEF has_value
    <2>4. DOMAIN c.locator \subseteq AndroidLocator \cup {"state"}
      BY <1>1 DEF IsCall, LocatorFields, AndroidElementState
    <2>5. c.action # "assert_state" => DOMAIN c.locator \subseteq AndroidLocator
                                       /\ (Given \cap AndroidLocator # {} \/ Gives(c, "target"))
      BY <1>1, <2>3 DEF IsCall, LocatorFields, Accepts, AndroidAccepts, _has_target_value,
         NamesTarget
    <2>6. TargetText(c) = IF Gives(c, "target") THEN {"target"} ELSE {}
      BY DEF TargetText
    <2>7. CASE "xpath" \in DOMAIN c.locator
      <3>1. Query(c) = {"xpath"} /\ ("xpath" \in Named(c) <=> c.locator["xpath"] = "given")
        BY <2>1, <2>6, <2>7 DEF _selector, GivenFields
      <3> QED
        BY <2>2, <2>7, <3>1
    <2>8. CASE "xpath" \notin DOMAIN c.locator
      <3> DEFINE Q == DOMAIN c.locator \cap (AndroidLocator \ {"xpath"})
      <3>1. Query(c) = IF Q # {} THEN Q ELSE TargetText(c)
        BY <2>1, <2>8 DEF _selector, _selector_query
      <3>2. Given \subseteq DOMAIN c.locator /\ "state" \notin AndroidLocator
            /\ "target" \notin AndroidLocator /\ Given \cap AndroidLocator \subseteq Q
        BY <2>8 DEF GivenFields, AndroidLocator
      <3>3. Q = {} <=> DOMAIN c.locator \subseteq {"state"}
        BY <2>4, <2>8, <3>2
      <3>4. CASE Q = {}
        <4>1. Query(c) = TargetText(c) /\ ~has_value(c)
              /\ (Strays(c) <=> ~Gives(c, "target"))
          BY <2>2, <2>3, <2>8, <3>1, <3>2, <3>3, <3>4
        <4> QED
          BY <2>1, <2>6, <4>1
      <3>5. CASE Q # {}
        <4>1. Query(c) = Q /\ (Strays(c) <=> Given \cap AndroidLocator = {})
          BY <2>2, <2>3, <2>8, <3>1, <3>3, <3>5
        <4>2. Q \cap Named(c) = Given \cap AndroidLocator
          BY <2>1, <2>6, <3>2
        <4> QED
          BY <4>1, <4>2
      <3> QED
        BY <3>4, <3>5
    <2> QED
      BY <2>7, <2>8
  <1>2. CASE c.platform = "windows"
    <2> DEFINE Matched == {"title", "control_type", "automation_id", "class_name", "index"}
    <2>1. /\ c.action # "wait_for" /\ Query(c) = _control(c)
          /\ Named(c) = (Given \ {"state"}) \cup TargetText(c)
      BY <1>2 DEF IsCall, WindowsAction, Query, Named
    <2>2. Strays(c) <=> Has(c, "locator") /\ Given \cap Matched = {}
      BY <1>2 DEF Strays
    <2>3. _has_target_value(c)
      BY <1>2 DEF Accepts, WindowsAccepts, NamesTarget
    <2>4. TargetText(c) = IF Gives(c, "target") THEN {"target"} ELSE {}
      BY DEF TargetText
    <2>5. CASE Has(c, "locator")
      <3>1. Query(c) = DOMAIN c.locator \cap Matched
        BY <2>1, <2>5 DEF _control
      <3>2. Query(c) \cap Named(c) = Given \cap Matched
        BY <2>1, <2>4, <3>1 DEF GivenFields
      <3> QED
        BY <2>2, <2>5, <3>2
    <2>6. CASE ~Has(c, "locator")
      <3>1. Gives(c, "target")
        BY <2>3, <2>6, TargetIsThere
      <3>2. Query(c) = {"target"} /\ "target" \in Named(c) /\ ~Strays(c)
        BY <2>1, <2>2, <2>4, <2>6, <3>1 DEF _control
      <3> QED
        BY <3>2
    <2> QED
      BY <2>5, <2>6
  <1>3. CASE c.platform = "web"
    <2>1. Given \subseteq WebLocator /\ "params.text" \notin WebLocator
          /\ "state" \notin WebLocator /\ "target" \notin WebLocator
      <3>1. DOMAIN c.locator \subseteq WebLocator
        BY <1>3 DEF IsCall, LocatorFields
      <3> QED
        BY <3>1 DEF GivenFields, WebLocator
    <2>2. TargetText(c) = IF Gives(c, "target") THEN {"target"} ELSE {}
      BY DEF TargetText
    <2>3. CASE c.action = "wait_for" /\ Awaited(c) = "text"
      <3>1. Query(c) = {"params.text"} /\ (Strays(c) <=> ~Gives(c, "text"))
        BY <1>3, <2>3 DEF Query, Strays
      <3>2. "params.text" \in Named(c) <=> Gives(c, "text")
        BY <2>1, <2>2, <2>3 DEF Named
      <3> QED
        BY <3>1, <3>2
    <2>4. CASE ~(c.action = "wait_for" /\ Awaited(c) = "text")
      <3>1. Query(c) = _locator(c) /\ (Strays(c) <=> Given \subseteq {"name"}
                                                     /\ ~Gives(c, "target"))
        BY <1>3, <2>4 DEF Query, Strays
      <3>2. Given \subseteq Named(c) /\ (Gives(c, "target") => "target" \in Named(c))
        BY <2>1, <2>2 DEF Named
      <3>3. CASE "role" \in Given
        <4>1. "role" \in Query(c)
          BY <3>1, <3>3 DEF _locator
        <4> QED
          BY <3>1, <3>2, <3>3, <4>1
      <3>4. CASE "role" \notin Given /\ Given \ {"name"} # {}
        <4>1. PICK f \in Given \ {"name"} : Before(f) \cap Given = {}
          BY <2>1, <3>4, FirstField
        <4>2. f \in Query(c)
          BY <3>1, <3>4, <4>1 DEF _locator
        <4> QED
          BY <3>1, <3>2, <3>4, <4>1, <4>2
      <3>5. CASE Given \ {"name"} = {}
        <4>1. Query(c) = TargetText(c)
          BY <3>1, <3>5 DEF _locator
        <4> QED
          BY <2>2, <3>1, <3>2, <3>5, <4>1
      <3> QED
        BY <3>3, <3>4, <3>5
    <2> QED
      BY <2>3, <2>4
  <1> QED
    BY <1>1, <1>2, <1>3 DEF IsCall

------------------------------------------------------------------------------
(* The inductive invariant.                                                 *)

\* A call starts with nothing used.
THEOREM InitInv == Init => IInv
  <1> SUFFICES ASSUME Init PROVE IInv
    OBVIOUS
  <1>1. IsFiniteSet({}) /\ Cardinality({}) = 0
    BY FS_EmptySet
  <1> QED
    BY <1>1, CallsAssumption DEF Init, IInv, TypeOK, Places, Configured, Carried

\* What ends a call.
Categories == {"none", "configuration_error", "context_error", "harness_error",
               "target_resolution_error", "timeout_error", "assertion_error"}

\* A step that uses no further element.
LEMMA NothingUsed ==
    ASSUME IInv, UNCHANGED used, UNCHANGED call
    PROVE  /\ IsFiniteSet(used') /\ (used \subseteq Matching(call))'
           /\ (used \subseteq Element(call))' /\ (Cardinality(used) <= 2)'
  BY DEF IInv, TypeOK, Matching, Element

\* A step that judges one element.
LEMMA OneUsed ==
    ASSUME IInv, NEW e \in Matching(call), used' = {e}, UNCHANGED call
    PROVE  /\ IsFiniteSet(used') /\ (used \subseteq Matching(call))'
           /\ (used \subseteq Element(call))' /\ (Cardinality(used) <= 2)'
  <1>1. IsFiniteSet({e}) /\ Cardinality({e}) = 1
    BY FS_Singleton
  <1> QED
    BY <1>1 DEF IInv, TypeOK, Matching, Element

\* Every step keeps the invariant.
THEOREM StepInv == IInv /\ [Next]_vars => IInv'
  <1> SUFFICES ASSUME IInv, [Next]_vars PROVE IInv'
    OBVIOUS
  <1> USE DEF IInv, TypeOK, Places, Configured, Carried, Return, Goto, Nothing
  <1>0. Waited(call) \subseteq Param \cup {"state"} /\ Option(call) \in Param
    BY DEF Waited, Awaited, Option, Param
  <1>1. CASE _validate_params
    <2>1. IsFiniteSet(used') /\ (used \subseteq Matching(call))' /\ UNCHANGED <<call, used, did>>
          /\ (used \subseteq Element(call))' /\ (Cardinality(used) <= 2)' /\ used = {}
      BY <1>1, NothingUsed DEF _validate_params
    <2>2. pc' = "done" => result' # "none" /\ (result' # "configuration_error" \/ ~Accepts(call))
      BY <1>1 DEF _validate_params
    <2>3. pc' # "done" => Accepts(call)
      BY <1>1 DEF _validate_params
    <2>4. /\ pc' \in {"done", "press_key", "swipe", "find", "gone", "sleep"}
          /\ pc' \in {"press_key", "swipe"} => call.action = pc'
          /\ pc' = "find" => call.action \notin {"press_key", "swipe", "assert_not_visible"}
          /\ pc' = "gone" => call.action \in {"assert_not_visible", "wait_for"}
          /\ pc' = "sleep" => call.action = "wait_for"
      BY <1>1 DEF _validate_params, AwaitsGone
    <2>5. IsCall(call)' /\ open' \in BOOLEAN /\ result' \in Categories
      BY <1>1 DEF _validate_params, Categories
    <2> QED
      BY <2>1, <2>2, <2>3, <2>4, <2>5 DEF Categories
  <1>2. CASE press_key
    <2>1. Carries(call, did')
      BY <1>2 DEF press_key, Carries
    <2>2. did' \subseteq Param
      BY <1>2 DEF press_key, Param
    <2> QED
      BY <1>2, <2>1, <2>2, NothingUsed DEF press_key
  <1>3. CASE swipe
    <2>1. Accepts(call) /\ call.action = "swipe"
      BY <1>3 DEF swipe
    <2>2. Has(call, "direction") \/ (Has(call, "start") /\ Has(call, "end"))
      BY <2>1, CallsAssumption DEF Accepts, AndroidAccepts, _require_direction_or_points, IsCall,
         AndroidAction, WebAction, WindowsAction
    <2>3. result' = "configuration_error" => HalfPoints(call)
      BY <1>3, <2>1, <2>2 DEF swipe, HalfPoints
    <2>4. result' = "none" => Carries(call, did')
      BY <1>3, <2>1 DEF swipe, Carries
    <2>5. did' \subseteq Param \cup {"state"}
      BY <1>3 DEF swipe, Param
    <2> QED
      BY <1>3, <2>1, <2>3, <2>4, <2>5, NothingUsed DEF swipe
  <1>4. CASE _wait_for_exists
    <2>1. CASE pc' = "done"
      <3>1. /\ \E e \in Matching(call) : used' = {e}
            /\ UNCHANGED <<call, open>> /\ result' = "none" /\ did' = Waited(call)
            /\ call.action \in {"assert_visible", "wait_for"}
        BY <1>4, <2>1 DEF _wait_for_exists
      <3>2. Carries(call, did')
        BY <3>1 DEF Carries, Waited
      <3> QED
        BY <1>0, <2>1, <3>1, <3>2, OneUsed
    <2>2. CASE pc' # "done"
      BY <1>4, <2>2, NothingUsed DEF _wait_for_exists
    <2> QED
      BY <2>1, <2>2
  <1>5. CASE _target_missing
    BY <1>5, NothingUsed DEF _target_missing
  <1>6. CASE _wait_for_not_exists
    <2>1. result' = "none" => did' = Waited(call)
      BY <1>6 DEF _wait_for_not_exists
    <2>2. result' = "none" => Carries(call, did')
      BY <1>6, <2>1 DEF _wait_for_not_exists, Carries, Waited
    <2> QED
      BY <1>0, <1>6, <2>2, NothingUsed DEF _wait_for_not_exists
  <1>7. CASE _wait_for
    <2>1. Carries(call, did')
      BY <1>7 DEF _wait_for, Carries
    <2> QED
      BY <1>0, <1>7, <2>1, NothingUsed DEF _wait_for
  <1>8. CASE Sends
    <2>1. PICK e \in Matching(call) : used' = used \cup {e}
      BY <1>8 DEF Sends
    <2>2. IsFiniteSet(used') /\ Cardinality(used') \in {Cardinality(used), Cardinality(used) + 1}
      BY <2>1, FS_AddElement
    <2>3. Cardinality(used) \in Nat /\ Cardinality(used) < 2
      BY <1>8, FS_CardinalityType DEF Sends
    <2>4. Cardinality(used') <= 2
      BY <2>2, <2>3
    <2>5. UNCHANGED <<call, open, pc, result>> /\ pc = "act"
      BY <1>8 DEF Sends
    <2>6. (used \subseteq Matching(call))' /\ (used \subseteq Element(call))'
      BY <2>1, <2>5 DEF Matching, Element
    <2>7. Carries(call, did') /\ did' \subseteq Param \cup {"state"}
      BY <1>0, <1>8 DEF Sends, Carries
    <2> QED
      BY <2>2, <2>4, <2>5, <2>6, <2>7
  <1>9. CASE Sent
    BY <1>9, NothingUsed DEF Sent
  <1>10. CASE Raises
    BY <1>10, NothingUsed DEF Raises
  <1>11. CASE _assert_text
    <2>1. PICK e \in Matching(call) :
              /\ used' = {e} /\ did' = {IF Contains(call, e) THEN "contains" ELSE "equals"}
              /\ result' = IF Says(call, e) THEN "none" ELSE "assertion_error"
      BY <1>11 DEF _assert_text
    <2>2. result' = "none" => \E p \in {"contains", "equals"} : Has(call, p) /\ did' = {p}
      BY <2>1 DEF Says, Contains
    <2>3. result' = "none" => Carries(call, did')
      BY <1>11, <2>2 DEF _assert_text, Carries
    <2>4. did' \subseteq Param
      BY <2>1 DEF Param
    <2> QED
      BY <1>11, <2>1, <2>3, <2>4, OneUsed DEF _assert_text
  <1>12. CASE assert_state
    <2>1. /\ pc = "read" /\ UNCHANGED <<call, open>> /\ pc' = "done"
          /\ ~Has(call, "contains") /\ ~Has(call, "equals")
          /\ did' = DOMAIN call.locator \cap {"state"}
          /\ \E e \in Matching(call) : used' = {e}
          /\ result' \in {"none", "assertion_error", "configuration_error"}
          /\ result' = "configuration_error"
                => "state" \notin DOMAIN call.locator /\ ~has_value(call)
      BY <1>12 DEF assert_state
    <2>2. call.action = "assert_state"
      BY <2>1 DEF Accepts, WebAccepts, IsCall, AndroidAction, WindowsAction
    <2>3. call.platform = "android"
      BY <2>2 DEF IsCall, WebAction, WindowsAction
    <2>4. "state" \in DOMAIN call.locator \/ has_value(call)
      BY <2>1, <2>2, <2>3 DEF Accepts, AndroidAccepts
    <2>5. Carries(call, did') /\ did' \subseteq Param \cup {"state"}
      BY <2>1, <2>2 DEF Carries
    <2> QED
      BY <2>1, <2>4, <2>5, OneUsed
  <1>13. CASE UNCHANGED vars
    BY <1>13, NothingUsed DEF vars
  <1> QED
    BY <1>1, <1>2, <1>3, <1>4, <1>5, <1>6, <1>7, <1>8, <1>9, <1>10, <1>11, <1>12, <1>13
    DEF Next

------------------------------------------------------------------------------
(* Every variable keeps its type, and at most two elements get input.       *)
THEOREM TypeCorrect == Spec => []TypeOK
  <1>1. IInv => TypeOK
    BY DEF IInv
  <1> QED
    BY InitInv, StepInv, <1>1, PTL DEF Spec

(* Whatever element a call acts on or judges bears a name the call gave,    *)
(* unless the call is one of those listed, for locators of any fields.      *)
THEOREM ActsOnNamed == Spec => []ActsOnWhatWasNamed
  <1>1. IInv => ActsOnWhatWasNamed
    <2> SUFFICES ASSUME IInv, Accepts(call), NamesTarget(call)
                 PROVE  IF Strays(call) THEN Query(call) \cap Named(call) = {}
                        ELSE \A e \in used : e \cap Named(call) # {}
      BY DEF ActsOnWhatWasNamed
    <2>1. IF Strays(call) THEN Query(call) \cap Named(call) = {}
          ELSE Query(call) \cap Named(call) # {}
      BY QueryIsNamed DEF IInv, TypeOK
    <2>2. \A e \in used : Query(call) \subseteq e
      BY DEF IInv, Matching
    <2> QED
      BY <2>1, <2>2
  <1> QED
    BY InitInv, StepInv, <1>1, PTL DEF Spec

(* A step that passes did what its accepted call asks for, but for the calls *)
(* of which a part is dropped, for any parameters.                          *)
THEOREM AcceptedCorrect == Spec => []AcceptedIsCarriedOut
  <1>1. IInv => AcceptedIsCarriedOut
    <2> SUFFICES ASSUME IInv, pc = "done", Accepts(call), result = "none"
                 PROVE  (did = Asked(call) <=> ~Partly(call)) /\ ~HalfPoints(call)
      BY DEF AcceptedIsCarriedOut, IInv, Configured
    <2>1. IsCall(call) /\ Carries(call, did)
      BY DEF IInv, TypeOK, Carried
    <2> QED
      BY <2>1, CarriedIsAsked
  <1> QED
    BY InitInv, StepInv, <1>1, PTL DEF Spec
=============================================================================
