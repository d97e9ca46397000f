------------------------------ MODULE MCMessages ------------------------------
(* Messages on a small instance: the classes of the repository and two that an
   application derives from Component, one of them from the other. *)
EXTENDS Messages
CONSTANTS Object, GameObject, Sprite, Shape, p1, p2, s, q
TheClasses == {Object, GameObject, Component, Sprite, Shape}
TheBases == (Object :> Undefined @@ GameObject :> Object @@ Component :> Object
             @@ Sprite :> Component @@ Shape :> Sprite)
TheComponents == {p1, p2, s, q}
TheComponentClasses == (p1 :> Sprite @@ p2 :> Sprite @@ s :> Shape @@ q :> Component)
TheCallbackKeys == {mDidAddComponent} \X {Sprite, Shape, Component} \cup {<<mTransformChanged, Sprite>>}
Symmetry == Permutations({p1, p2}) \cup Permutations(GameObjects)
=============================================================================
