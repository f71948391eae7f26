\* The API and the worker against the init script.
SPECIFICATION Spec

CONSTANT MaxPolls = 2

INVARIANT ResourcesBeforeUse
