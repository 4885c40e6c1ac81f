SPECIFICATION Spec
CONSTANTS
    Scripts <- AllScripts
    Blocks = {0, 1}
    ReadyVaries <- VaryingScripts
    None = None
PROPERTY HeldUntilTaken
