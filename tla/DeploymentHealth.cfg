\* The URLs after a timeout of _wait_for_api.
SPECIFICATION Spec

CONSTANT MaxPolls = 2

INVARIANT UrlsAfterHealth
