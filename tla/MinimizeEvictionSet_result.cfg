\* max_size equal to the associativity: every binary-search probe asks for
\* fewer addresses than can evict the target, so none succeeds and `it` is
\* never assigned before it is returned.
SPECIFICATION Spec
CONSTANTS
  N = 8
  MinN = 5
  Ways = 2
  MaxSize = 2
CHECK_DEADLOCK FALSE
INVARIANT
  ReturnsEvictionSet
