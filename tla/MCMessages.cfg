SPECIFICATION Spec
CONSTANTS
  Object = Object
  GameObject = GameObject
  Component = Component
  Sprite = Sprite
  Shape = Shape
  Undefined = Undefined
  p1 = p1
  p2 = p2
  s = s
  q = q
  Classes <- TheClasses
  BaseOf <- TheBases
  ClassOf <- TheComponentClasses
  Components <- TheComponents
  GameObjects = {g1}
  Nobody = Nobody
  CallbackKeys <- TheCallbackKeys
  mDidAddComponent = mDidAddComponent
  mTransformChanged = mTransformChanged
  MaxDepth = 2
SYMMETRY Symmetry
INVARIANTS
  TypeOK
  ToldOnce
  KnowEachOther
  FollowsHierarchy
